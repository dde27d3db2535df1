-------------------------------- MODULE Sync --------------------------------
(* Replication (internal/p2p, internal/notes, and the clone, fetch and push
   commands of cmd/varvig): clients exchange a branch head, a note chain and a
   reserved ref with a hub, over connections that may break anywhere, while
   people write on every side.  A session goes through the three namespaces one
   after the other, each on its own.  Refs are the atomic registers of
   RefRegister, and objects are content addressed: what an identity links to is
   the same everywhere, and only which peer holds it differs.               *)
EXTENDS Naturals, FiniteSets, Sequences

CONSTANTS Clients,   \* the repositories that clone, fetch and push
          Hub,       \* the repository that serves them
          Cloned,    \* the clients that have cloned it at the beginning
          Writes,    \* bound: which peer writes which ref, <<peer, name>>
          MaxObjs,   \* bound: objects ever created
          MaxSessions, \* bound: sessions started
          MaxDrops     \* bound: broken connections

ASSUME SyncAssumption ==
    /\ Hub \notin Clients
    /\ Cloned \subseteq Clients
    /\ Writes \subseteq (Clients \cup {Hub}) \X {"head", "note", "lease"}
    /\ MaxObjs \in Nat /\ MaxObjs >= 2
    /\ MaxSessions \in Nat /\ MaxDrops \in Nat

Peers == Clients \cup {Hub}

\* One branch, one note chain and one ref of a reserved namespace (a ticket or
\* a lease), in the order a session replicates them.
Names == {"head", "note", "lease"}

NoId == 0

Target == 2   \* the change that the note chain is about

VARIABLES
    links,    \* links[x]: the objects that x's encoding names
    objects,  \* objects[p]: what p's object store holds
    refs,     \* refs[p][n]: p's refs
    tracked,  \* tracked[c]: c's refs/remotes/<hub>/<branch>
    adding,   \* adding[p]: the parent a note being written has read, or Nothing
    sess,     \* sess[c]: c's session with the hub
    heads,    \* history: the values the hub's head has had
    dials, drops

vars == <<links, objects, refs, tracked, adding, sess, heads, dials, drops>>

Ids == 1 .. Len(links)

Nothing == MaxObjs + 1   \* no note is being written

\* No session; at: the namespace; old, new: the values the ref is moved between;
\* done: what the sender need not send (again); work: its queue.
NoSession == [dir |-> "none", at |-> "head", step |-> "idle", old |-> NoId, new |-> NoId,
              done |-> {}, work |-> {}, ok |-> FALSE]

Sessions == [dir : {"none", "clone", "fetch", "push"}, at : Names,
             step : {"idle", "list", "recv", "record", "send", "ack"},
             old : Ids \cup {NoId}, new : Ids \cup {NoId},
             done : SUBSET Ids, work : SUBSET Ids, ok : BOOLEAN]

\* Every variable holds a value of the kind the code keeps there.
TypeOK ==
    /\ links \in Seq(SUBSET (1 .. MaxObjs)) /\ Len(links) \in 2 .. MaxObjs
    /\ \A x \in Ids : links[x] \subseteq 1 .. x - 1
    /\ objects \in [Peers -> SUBSET Ids]
    /\ refs \in [Peers -> [Names -> Ids \cup {NoId}]]
    /\ tracked \in [Clients -> Ids \cup {NoId}]
    /\ adding \in [Peers -> Ids \cup {NoId, Nothing}]
    /\ sess \in [Clients -> Sessions]
    /\ heads \subseteq Ids
    /\ dials \in 0 .. MaxSessions /\ drops \in 0 .. MaxDrops

\* The hub has one change, 2, with its tree, 1; who has not cloned it is empty.
Init ==
    LET with == Cloned \cup {Hub} IN
    /\ links = <<{}, {1}>>
    /\ objects = [p \in Peers |-> IF p \in with THEN {1, Target} ELSE {}]
    /\ refs = [p \in Peers |-> [n \in Names |-> IF p \in with /\ n = "head" THEN Target ELSE NoId]]
    /\ tracked = [c \in Clients |-> IF c \in Cloned THEN Target ELSE NoId]
    /\ adding = [p \in Peers |-> Nothing]
    /\ sess = [c \in Clients |-> NoSession]
    /\ heads = {Target}
    /\ dials = 0
    /\ drops = 0

-----------------------------------------------------------------------------
(* Objects.                                                                 *)

\* All that x leads to through objects that are in S.
Walk(S, x) ==
    {y \in Ids : \A T \in SUBSET Ids : x \in T /\ (\A z \in T \cap S : links[z] \subseteq T) => y \in T}

Closure(x) == Walk(Ids, x)

\* markClosure: what of it is there.
Marked(S, x) == IF x = NoId THEN {} ELSE Walk(S, x) \cap S

\* hasClosure.
Whole(S, x) == Walk(S, x) \subseteq S

\* reaches, and for notes noteChainContains: a note's target leads to no note.
Reaches(S, x, y) == y \in Walk(S, x)

-----------------------------------------------------------------------------
(* What people write.  A new object gets the next number.                   *)

Store(p, ls) ==
    /\ Len(links) < MaxObjs
    /\ links' = Append(links, ls)
    /\ objects' = [objects EXCEPT ![p] = @ \cup {Len(links) + 1}]

SetRef(p, n, x) == refs' = [refs EXCEPT ![p][n] = x]

\* The branch of p moves to the object just stored.
Move(p) ==
    LET new == Len(links) + 1 IN
    /\ SetRef(p, "head", new)
    /\ heads' = IF p = Hub THEN heads \cup {new} ELSE heads
    /\ UNCHANGED <<tracked, adding, sess, dials, drops>>

\* A commit's parent is the head, if there is one.
Commit(p) == Store(p, {refs[p].head} \ {NoId}) /\ Move(p)

\* A merge of the tracked branch has both as parents.
Merge(c) ==
    /\ refs[c].head # NoId /\ tracked[c] # NoId
    /\ Store(c, {refs[c].head, tracked[c]})
    /\ Move(c)

\* notes.Add reads the chain's tip ...
NoteRead(p) ==
    /\ adding[p] = Nothing
    /\ Target \in objects[p]
    /\ adding' = [adding EXCEPT ![p] = refs[p].note]
    /\ UNCHANGED <<links, objects, refs, tracked, sess, heads, dials, drops>>

\* ... stores a note on top of it and swaps; if it has moved, Add fails.
NoteWrite(p) ==
    /\ adding[p] # Nothing
    /\ Store(p, {Target, adding[p]} \ {NoId})
    /\ IF refs[p].note = adding[p] THEN SetRef(p, "note", Len(links) + 1) ELSE UNCHANGED refs
    /\ adding' = [adding EXCEPT ![p] = Nothing]
    /\ UNCHANGED <<tracked, sess, heads, dials, drops>>

\* A reserved ref gets a value of its own: a lease, or a ticket's first revision.
UpdateRef(p) ==
    /\ Store(p, {})
    /\ SetRef(p, "lease", Len(links) + 1)
    /\ UNCHANGED <<tracked, adding, sess, heads, dials, drops>>

\* A ticket's next revision names the one before.
Revise(p) ==
    /\ refs[p].lease # NoId
    /\ Store(p, {refs[p].lease})
    /\ SetRef(p, "lease", Len(links) + 1)
    /\ UNCHANGED <<tracked, adding, sess, heads, dials, drops>>

-----------------------------------------------------------------------------
(* Sessions.                                                                *)

At(c, step) == sess[c].step = step

Set(c, s) == sess' = [sess EXCEPT ![c] = s]

\* On to the next namespace.
Advance(c) ==
    LET s == sess[c]
        go(n) == [NoSession EXCEPT !.dir = s.dir, !.at = n, !.step = "list"]
    IN Set(c, CASE s.at = "head" -> go("note") [] s.at = "note" -> go("lease") [] OTHER -> NoSession)

\* A failure is reported; the next namespace is attempted all the same, except
\* by clone.
Fail(c) == IF sess[c].dir = "clone" THEN Set(c, NoSession) ELSE Advance(c)

\* A clone makes a new repository.
Dial(c, dir) ==
    /\ At(c, "idle")
    /\ dials < MaxSessions
    /\ dials' = dials + 1
    /\ dir = "clone" => objects[c] = {} /\ \A n \in Names : refs[c][n] = NoId
    /\ Set(c, [NoSession EXCEPT !.dir = dir, !.step = "list"])
    /\ UNCHANGED <<links, objects, refs, tracked, adding, heads, drops>>

\* What the client tells the hub it has.
Have(c) ==
    IF sess[c].at # "head" THEN refs[c][sess[c].at]
    ELSE IF sess[c].dir = "clone" THEN NoId ELSE tracked[c]

\* Mutant: a branch tip that is in the store is recorded at once.
GetObjectsUnlessPresent(c) ==
    LET s == sess[c]  tip == refs[Hub][s.at]  done == Marked(objects[Hub], Have(c)) IN
    /\ At(c, "list") /\ s.dir # "push"
    /\ IF s.at = "head" /\ tip \in objects[c]
         THEN tracked' = [tracked EXCEPT ![c] = tip] /\ Advance(c)
         ELSE /\ IF tip # NoId
                   THEN Set(c, [s EXCEPT !.step = "recv", !.old = Have(c), !.new = tip,
                                         !.done = done, !.work = {tip} \ done])
                   ELSE IF s.at = "head" THEN Fail(c) ELSE Advance(c)
              /\ UNCHANGED tracked
    /\ UNCHANGED <<links, objects, refs, adding, heads, dials, drops>>

\* The hub lists its refs and the client asks for what the one the session is
\* at names; it sends nothing of what the client has.  A branch the hub does
\* not have is an error; another ref is just not there.
GetObjects(c) ==
    LET s == sess[c]  tip == refs[Hub][s.at]  done == Marked(objects[Hub], Have(c)) IN
    /\ At(c, "list") /\ s.dir # "push"
    /\ IF tip # NoId
         THEN Set(c, [s EXCEPT !.step = "recv", !.old = Have(c), !.new = tip,
                               !.done = done, !.work = {tip} \ done])
         ELSE IF s.at = "head" THEN Fail(c) ELSE Advance(c)
    /\ UNCHANGED <<links, objects, refs, tracked, adding, heads, dials, drops>>

\* The hub sends an object before what it links to.  One that the hub lacks ends
\* the connection, and with it the namespaces to come.
RecvObject(c) ==
    LET s == sess[c] IN
    /\ At(c, "recv")
    /\ \E x \in s.work :
          IF x \in objects[Hub]
            THEN /\ objects' = [objects EXCEPT ![c] = @ \cup {x}]
                 /\ Set(c, [s EXCEPT !.done = @ \cup {x},
                                     !.work = (s.work \cup links[x]) \ (s.done \cup {x})])
            ELSE Set(c, NoSession) /\ UNCHANGED objects
    /\ UNCHANGED <<links, refs, tracked, adding, heads, dials, drops>>

\* Mutant: any value is taken.
SupersedesAny(S, old, new) == TRUE

\* A value may replace one it leads to.
Supersedes(S, old, new) == old = NoId \/ Reaches(S, new, old)

\* The transfer is over.  fetchHead records the tip; clone creates the branch
\* first.  A note or a reserved ref moves forward only, and only if nobody has
\* moved it meanwhile.
Received(c) ==
    LET s == sess[c] IN
    /\ At(c, "recv") /\ s.work = {}
    /\ IF ~Whole(objects[c], s.new)
         THEN Fail(c) /\ UNCHANGED <<refs, tracked>>
         ELSE IF s.at = "head"
         THEN IF s.dir = "clone"
                THEN /\ SetRef(c, "head", s.new)
                     /\ Set(c, [s EXCEPT !.step = "record"])
                     /\ UNCHANGED tracked
                ELSE /\ tracked' = [tracked EXCEPT ![c] = s.new]
                     /\ Advance(c)
                     /\ UNCHANGED refs
         ELSE /\ IF Supersedes(objects[c], s.old, s.new) /\ refs[c][s.at] = s.old
                   THEN SetRef(c, s.at, s.new) /\ Advance(c)
                   ELSE Fail(c) /\ UNCHANGED refs
              /\ UNCHANGED tracked
    /\ UNCHANGED <<links, objects, adding, heads, dials, drops>>

\* The clone records where the branch was.
RecordTip(c) ==
    /\ At(c, "record")
    /\ tracked' = [tracked EXCEPT ![c] = sess[c].new]
    /\ Advance(c)
    /\ UNCHANGED <<links, objects, refs, adding, heads, dials, drops>>

\* The queue of a push from old to new.
Begin(c, s, old, new) ==
    LET done == Marked(objects[c], old) IN
    Set(c, [s EXCEPT !.step = "send", !.old = old, !.new = new, !.done = done, !.work = {new} \ done])

\* Mutant: the lease is what the hub has now.
ReadHeadFresh(c) ==
    LET s == sess[c] IN
    /\ At(c, "list") /\ s.dir = "push" /\ s.at = "head"
    /\ IF refs[c].head = NoId THEN Fail(c) ELSE Begin(c, s, refs[Hub].head, refs[c].head)
    /\ UNCHANGED <<links, objects, refs, tracked, adding, heads, dials, drops>>

\* A head is pushed with what we last saw of the hub's branch as the lease.
ReadHead(c) ==
    LET s == sess[c] IN
    /\ At(c, "list") /\ s.dir = "push" /\ s.at = "head"
    /\ IF refs[c].head = NoId THEN Fail(c) ELSE Begin(c, s, tracked[c], refs[c].head)
    /\ UNCHANGED <<links, objects, refs, tracked, adding, heads, dials, drops>>

\* Another ref is pushed if it supersedes what the hub advertises.
ReadRef(c) ==
    LET s == sess[c]  ours == refs[c][s.at]  theirs == refs[Hub][s.at] IN
    /\ At(c, "list") /\ s.dir = "push" /\ s.at # "head"
    /\ IF ours \in {NoId, theirs} THEN Advance(c)
       ELSE IF Supersedes(objects[c], theirs, ours) THEN Begin(c, s, theirs, ours)
       ELSE Fail(c)
    /\ UNCHANGED <<links, objects, refs, tracked, adding, heads, dials, drops>>

\* The client sends an object before what it links to; one it lacks ends the
\* push.
SendObject(c) ==
    LET s == sess[c] IN
    /\ At(c, "send")
    /\ \E x \in s.work :
          IF x \in objects[c]
            THEN /\ objects' = [objects EXCEPT ![Hub] = @ \cup {x}]
                 /\ Set(c, [s EXCEPT !.done = @ \cup {x},
                                     !.work = (s.work \cup links[x]) \ (s.done \cup {x})])
            ELSE Fail(c) /\ UNCHANGED objects
    /\ UNCHANGED <<links, refs, tracked, adding, heads, dials, drops>>

\* The hub checks the closure, asks its hooks and swaps the ref.
ServePush(c, allowed) ==
    LET s == sess[c]
        ok == Whole(objects[Hub], s.new) /\ allowed /\ refs[Hub][s.at] = s.old
    IN
    /\ At(c, "send") /\ s.work = {}
    /\ IF ok THEN SetRef(Hub, s.at, s.new) ELSE UNCHANGED refs
    /\ heads' = IF ok /\ s.at = "head" THEN heads \cup {s.new} ELSE heads
    /\ Set(c, [s EXCEPT !.step = "ack", !.ok = ok])
    /\ UNCHANGED <<links, objects, tracked, adding, dials, drops>>

\* Mutant: the tip is recorded whatever the hub answered.
ReadReplyAny(c) ==
    /\ At(c, "ack")
    /\ tracked' = IF sess[c].at = "head" THEN [tracked EXCEPT ![c] = sess[c].new] ELSE tracked
    /\ Advance(c)
    /\ UNCHANGED <<links, objects, refs, adding, heads, dials, drops>>

\* The answer comes; an accepted head is recorded.
ReadReply(c) ==
    /\ At(c, "ack")
    /\ tracked' = IF sess[c].ok /\ sess[c].at = "head"
                  THEN [tracked EXCEPT ![c] = sess[c].new] ELSE tracked
    /\ IF sess[c].ok THEN Advance(c) ELSE Fail(c)
    /\ UNCHANGED <<links, objects, refs, adding, heads, dials, drops>>

\* The connection breaks or the client is killed, after any step.
Drop(c) ==
    /\ ~At(c, "idle")
    /\ drops < MaxDrops
    /\ drops' = drops + 1
    /\ Set(c, NoSession)
    /\ UNCHANGED <<links, objects, refs, tracked, adding, heads, dials>>

-----------------------------------------------------------------------------
Step(c) ==
    \/ GetObjects(c) \/ RecvObject(c) \/ Received(c) \/ RecordTip(c)
    \/ ReadHead(c) \/ ReadRef(c) \/ SendObject(c) \/ ReadReply(c)
    \/ \E allowed \in BOOLEAN : ServePush(c, allowed)

Write(p) ==
    \/ <<p, "head">> \in Writes /\ (Commit(p) \/ (p \in Clients /\ Merge(p)))
    \/ <<p, "note">> \in Writes /\ (NoteRead(p) \/ NoteWrite(p))
    \/ <<p, "lease">> \in Writes /\ (UpdateRef(p) \/ Revise(p))

Next ==
    \/ \E c \in Clients : Step(c) \/ Drop(c) \/ \E dir \in {"clone", "fetch", "push"} : Dial(c, dir)
    \/ \E p \in Peers : Write(p)

Spec == Init /\ [][Next]_vars

-----------------------------------------------------------------------------
(* Properties.                                                              *)

\* A step of c's session.
Synced(c) == sess'[c] # sess[c]

\* Whatever a session writes is whole where it is written: a ref moved by a
\* fetch, a clone or a push, and a tracking ref, lead only to objects their
\* repository holds, though transfers start at the tip and may stop anywhere.
ArrivesWhole ==
    [][\A c \in Clients : Synced(c) =>
          /\ \A p \in Peers, n \in Names :
                refs'[p][n] # refs[p][n] => Closure(refs'[p][n]) \subseteq objects'[p]
          /\ tracked'[c] # tracked[c] => Closure(tracked'[c]) \subseteq objects'[c]]_vars

\* Sync never takes a note or a reserved ref back or aside: its new value leads
\* to the one it replaces, on either side, whoever wrote meanwhile.
NeverClobbers ==
    [][\A c \in Clients, p \in Peers, n \in {"note", "lease"} :
          Synced(c) /\ refs'[p][n] # refs[p][n] /\ refs[p][n] # NoId
             => refs[p][n] \in Closure(refs'[p][n])]_vars

\* A push may replace the hub's head by one that does not descend from it, but
\* only if the pusher holds the whole of what it replaces.
NothingUnseenLost ==
    [][\A c \in Clients :
          Synced(c) /\ refs'[Hub].head # refs[Hub].head /\ refs[Hub].head # NoId
             => Closure(refs[Hub].head) \subseteq objects[c]]_vars

\* The tracking ref is something the hub's branch has really been, whatever
\* replies were lost.
TrackingHonest == \A c \in Clients : tracked[c] \in heads \cup {NoId}

\* What sessions leave behind (main.go cmdFetch, cmdPush): honest tracking refs and
\* repositories of the declared kinds.
TrackingInv == TypeOK /\ TrackingHonest
=============================================================================
