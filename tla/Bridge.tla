------------------------------- MODULE Bridge -------------------------------
(***************************************************************************)
(* Package bridge and the `bridge` verbs: one ticket kept in step with a    *)
(* row of an external tracker.  A connector, a process of its own, polls    *)
(* the row and pushes local revisions; people revise the ticket and edit    *)
(* the row meanwhile.                                                       *)
(*                                                                          *)
(* A verb is a process: it reads the ticket's head, reads the newest note   *)
(* of varvig/external (the link with its watermarks), decides, and writes   *)
(* the link back by notes.Add, which reads the tip of the chain and swaps   *)
(* it once.  Each of these is a step of its own.  A kill may come between   *)
(* any two.  Refs are atomic registers (see RefStore).                      *)
(***************************************************************************)
EXTENDS Naturals, Sequences, FiniteSets

CONSTANTS
    Specs,        \* texts of a ticket
    Genesis,      \* the text of the first revision, pushed when we start
    Decisions,    \* what a workflow transition may stand for
    Conns,        \* connectors
    Authors,      \* people who run `tickets revise`
    NoSpec, NoDecision,
    MaxLocal,     \* bound on the revisions made by authors
    MaxEdits,     \* bound on what happens in the tracker and on relinking
    MaxCrashes    \* bound on connectors killed in a verb

ASSUME BridgeAssumption ==
    /\ Genesis \in Specs /\ NoSpec \notin Specs /\ NoDecision \notin Decisions
    /\ Conns \cap Authors = {}
    /\ MaxLocal \in Nat /\ MaxEdits \in Nat /\ MaxCrashes \in Nat

VARIABLES
    revs,     \* the ticket: its revisions, oldest first; an id is an index
    link,     \* payload of the newest varvig/external note
    tip,      \* length of that note's chain
    atts,     \* weak attestations, in the order they were attached
    edges,    \* imported edges, in the order they were put
    row,      \* the tracker's row
    proc,     \* per connector or author: program counter and locals
    edits, crashes,
    sent,     \* history: revisions whose text was written into the row
    typed,    \* history: texts people typed into the row
    lost,     \* history: link writes that failed or went over a link they had not read
    raced     \* history: revisions made while a connector was at work on the head

repo == <<revs, link, tip, atts, edges>>
history == <<sent, typed, lost, raced>>
bridgeVars == <<repo, row, proc, edits, crashes, history>>

Procs == Conns \cup Authors
HeadRev == Len(revs)

Link == [pushed : Nat, pulled : Specs \cup {NoSpec}, trans : Decisions \cup {NoDecision},
         transHead : Nat, field : Nat, foreign : Nat]

Idle == [pc |-> "idle", seen |-> 0, head |-> 0, base |-> 0, tip |-> 0, spec |-> NoSpec,
         dec |-> NoDecision, link |-> [pushed |-> 0, pulled |-> NoSpec, trans |-> NoDecision,
                                       transHead |-> 0, field |-> 0, foreign |-> 0]]

Locals == [pc : {"idle", "apply", "applyLink", "revise", "cas", "tip", "swap", "needs",
                 "fetch", "send", "mark", "markLink", "trans", "transLink", "attest", "attach",
                 "edgeList", "edgeAdd", "edgeSwap"},
           head : Nat, base : Nat, tip : Nat, seen : Nat, spec : Specs \cup {NoSpec},
           dec : Decisions \cup {NoDecision}, link : Link]

BridgeTypeOK ==
    /\ revs \in Seq([spec : Specs, by : {"local", "bridge"}]) /\ HeadRev > 0
    /\ link \in Link /\ tip \in Nat
    /\ atts \in Seq([rev : 1..HeadRev, dec : Decisions])
    /\ edges \in Seq(1..HeadRev)
    /\ row \in [spec : Specs, dec : Decisions \cup {NoDecision}, field : Nat, dep : BOOLEAN]
    /\ proc \in [Procs -> Locals]
    /\ edits \in 0..MaxEdits /\ crashes \in 0..MaxCrashes
    /\ sent \subseteq 1..HeadRev /\ typed \subseteq Specs /\ lost \in Nat /\ raced \subseteq 1..HeadRev

\* A ticket that has been linked and pushed once.
BridgeInit ==
    /\ revs = <<[spec |-> Genesis, by |-> "local"]>>
    /\ link = [Idle.link EXCEPT !.pushed = 1] /\ tip = 1
    /\ atts = <<>> /\ edges = <<>>
    /\ row = [spec |-> Genesis, dec |-> NoDecision, field |-> 0, dep |-> FALSE]
    /\ proc = [p \in Procs |-> Idle]
    /\ edits = 0 /\ crashes = 0
    /\ sent = {1} /\ typed = {} /\ lost = 0 /\ raced = {}

-----------------------------------------------------------------------------
(* Steps shared by the verbs.                                               *)

At(p, pc) == proc[p].pc = pc
StepTo(p, pc) == proc' = [proc EXCEPT ![p].pc = pc]
Return(p) == proc' = [proc EXCEPT ![p] = Idle]

\* ticket.Head, ticket.Get: the head as it is now.
ReadHead(p, from, to) ==
    /\ At(p, from)
    /\ proc' = [proc EXCEPT ![p].pc = to, ![p].head = HeadRev]
    /\ UNCHANGED <<repo, row, edits, crashes, history>>

\* SetLink with l, made from the link that was newest when the chain had length v:
\* notes.Add reads the tip of the chain ...
SetLink(p, l, v) == proc' = [proc EXCEPT ![p] = [Idle EXCEPT !.pc = "tip", !.link = l, !.seen = v]]

AddTip(p) ==
    /\ At(p, "tip")
    /\ proc' = [proc EXCEPT ![p].pc = "swap", ![p].tip = tip]
    /\ UNCHANGED <<repo, row, edits, crashes, history>>

\* ... and swaps it once: a chain that has grown meanwhile is an error, not retried.
AddSwap(p) ==
    /\ At(p, "swap")
    /\ IF tip = proc[p].tip
         THEN link' = proc[p].link /\ tip' = tip + 1
         ELSE UNCHANGED <<link, tip>>
    /\ lost' = IF tip = proc[p].seen THEN lost ELSE lost + 1
    /\ Return(p)
    /\ UNCHANGED <<revs, atts, edges, row, edits, crashes, sent, typed, raced>>

-----------------------------------------------------------------------------
(* bridge apply-inbound: the row as it was polled becomes a revision.       *)

Poll(p) ==
    /\ At(p, "idle")
    /\ proc' = [proc EXCEPT ![p].pc = "apply", ![p].spec = row.spec]
    /\ UNCHANGED <<repo, row, edits, crashes, history>>

ApplyGet(p) == ReadHead(p, "apply", "applyLink")

MutantLocalWins(p) == FALSE

\* Local work is ahead of the last push: the tracker loses.
LocalWins(p) == link.pushed # 0 /\ proc[p].head # link.pushed

\* The text pulled last, or the text the head has.
Echo(p) == link.pulled = proc[p].spec \/ revs[proc[p].head].spec = proc[p].spec

\* GetLink, then: an echo at most moves the watermark, an edit beside local work
\* is dropped (ErrLocalWins), anything else is revised in.
ApplyInbound(p) ==
    /\ At(p, "applyLink")
    /\ \/ /\ Echo(p)
          /\ IF link.pulled # proc[p].spec
               THEN SetLink(p, [link EXCEPT !.pulled = proc[p].spec], tip)
               ELSE Return(p)
       \/ /\ ~ Echo(p) /\ LocalWins(p)
          /\ Return(p)
       \/ /\ ~ Echo(p) /\ ~ LocalWins(p)
          /\ proc' = [proc EXCEPT ![p].pc = "revise", ![p].link = link, ![p].seen = tip]
    /\ UNCHANGED <<repo, row, edits, crashes, history>>

\* idchain.Revise resolves the head again.
ReviseHead(p) ==
    /\ At(p, "revise")
    /\ proc' = [proc EXCEPT ![p].pc = "cas", ![p].base = HeadRev]
    /\ UNCHANGED <<repo, row, edits, crashes, history>>

\* Is some connector between reading the head and acting on it?
Working(p) == proc[p].pc \in {"applyLink", "revise", "cas", "send", "mark"}

\* The swap of the ticket's ref.  For the connector both watermarks then name the new
\* revision; for `tickets revise` the verb is over.
ReviseSwap(p) ==
    /\ At(p, "cas")
    /\ IF proc[p].base # HeadRev
         THEN Return(p) /\ UNCHANGED <<revs, raced>>
         ELSE /\ revs' = Append(revs, [spec |-> proc[p].spec,
                                       by |-> IF p \in Conns THEN "bridge" ELSE "local"])
              /\ IF p \in Conns
                   THEN SetLink(p, [proc[p].link EXCEPT !.pulled = proc[p].spec, !.pushed = HeadRev + 1],
                                proc[p].seen)
                   ELSE Return(p)
              /\ raced' = IF p \in Authors /\ \E q \in Conns : Working(q)
                            THEN raced \cup {HeadRev + 1} ELSE raced
    /\ UNCHANGED <<link, tip, atts, edges, row, edits, crashes, sent, typed, lost>>

-----------------------------------------------------------------------------
(* needs-push, `tickets spec`, the write into the row, mark-pushed.         *)

NeedsHead(p) ==
    /\ At(p, "idle")
    /\ proc' = [proc EXCEPT ![p].pc = "needs", ![p].head = HeadRev]
    /\ UNCHANGED <<repo, row, edits, crashes, history>>

MutantNeedsPush(p) ==
    /\ At(p, "needs")
    /\ IF link.pushed = 0 THEN StepTo(p, "fetch") ELSE Return(p)
    /\ UNCHANGED <<repo, row, edits, crashes, history>>

NeedsPush(p) ==
    /\ At(p, "needs")
    /\ IF proc[p].head # link.pushed THEN StepTo(p, "fetch") ELSE Return(p)
    /\ UNCHANGED <<repo, row, edits, crashes, history>>

TicketSpec(p) == ReadHead(p, "fetch", "send")

Send(p) ==
    /\ At(p, "send")
    /\ row' = [row EXCEPT !.spec = revs[proc[p].head].spec]
    /\ sent' = sent \cup {proc[p].head}
    /\ proc' = [proc EXCEPT ![p] = [Idle EXCEPT !.pc = "mark"]]
    /\ UNCHANGED <<repo, edits, crashes, typed, lost, raced>>

MarkHead(p) == ReadHead(p, "mark", "markLink")

MarkPushed(p) ==
    /\ At(p, "markLink")
    /\ SetLink(p, [link EXCEPT !.pushed = proc[p].head], tip)
    /\ UNCHANGED <<repo, row, edits, crashes, history>>

-----------------------------------------------------------------------------
(* bridge transition: RecordTransitionOnce.                                 *)

Transition(p) ==
    /\ At(p, "idle") /\ row.dec # NoDecision
    /\ proc' = [proc EXCEPT ![p].pc = "trans", ![p].dec = row.dec]
    /\ UNCHANGED <<repo, row, edits, crashes, history>>

TransHead(p) == ReadHead(p, "trans", "transLink")

MutantRecorded(p) == FALSE

Recorded(p) == link.trans = proc[p].dec /\ link.transHead = proc[p].head

TransitionOnce(p) ==
    /\ At(p, "transLink")
    /\ IF Recorded(p) THEN Return(p)
       ELSE proc' = [proc EXCEPT ![p].pc = "attest", ![p].link = link, ![p].seen = tip]
    /\ UNCHANGED <<repo, row, edits, crashes, history>>

NotesOn(r) == Cardinality({i \in DOMAIN atts : atts[i].rev = r})

\* RecordTransition: attest.Attach adds a note to the head that was read.
AttestTip(p) ==
    /\ At(p, "attest")
    /\ proc' = [proc EXCEPT ![p].pc = "attach", ![p].tip = NotesOn(proc[p].head)]
    /\ UNCHANGED <<repo, row, edits, crashes, history>>

AttestSwap(p) ==
    /\ At(p, "attach")
    /\ IF NotesOn(proc[p].head) = proc[p].tip
         THEN /\ atts' = Append(atts, [rev |-> proc[p].head, dec |-> proc[p].dec])
              /\ SetLink(p, [proc[p].link EXCEPT !.trans = proc[p].dec, !.transHead = proc[p].head],
                         proc[p].seen)
         ELSE Return(p) /\ UNCHANGED atts
    /\ UNCHANGED <<revs, link, tip, edges, row, edits, crashes, history>>

-----------------------------------------------------------------------------
(* The other fields of the link, and imported edges.                        *)

\* SetNudge and SetAssignee: written only when the value has changed.
SetField(p) ==
    /\ At(p, "idle") /\ link.field # row.field
    /\ SetLink(p, [link EXCEPT !.field = row.field], tip)
    /\ UNCHANGED <<repo, row, edits, crashes, history>>

\* bridge link --system --foreign-id: the watermarks are kept.
BridgeLink(p) ==
    /\ At(p, "idle") /\ edits < MaxEdits
    /\ SetLink(p, [link EXCEPT !.foreign = edits + 1], tip)
    /\ edits' = edits + 1
    /\ UNCHANGED <<repo, row, crashes, history>>

\* ImportTicketEdge, once the row names another one, binds to the revision that is head
\* when it starts.  (ImportObjectEdge is the same for an object, which has no head.)
ImportTicketEdge(p) == row.dep /\ ReadHead(p, "idle", "edgeList")

OnRev(r) == Cardinality({i \in DOMAIN edges : edges[i] = r})

\* edge.PutOnce: an identical edge on the same revision is not written again.
PutOnce(p) ==
    /\ At(p, "edgeList")
    /\ IF OnRev(proc[p].head) > 0 THEN Return(p) ELSE StepTo(p, "edgeAdd")
    /\ UNCHANGED <<repo, row, edits, crashes, history>>

EdgeTip(p) ==
    /\ At(p, "edgeAdd")
    /\ proc' = [proc EXCEPT ![p].pc = "edgeSwap", ![p].tip = OnRev(proc[p].head)]
    /\ UNCHANGED <<repo, row, edits, crashes, history>>

EdgeSwap(p) ==
    /\ At(p, "edgeSwap")
    /\ edges' = IF OnRev(proc[p].head) = proc[p].tip THEN Append(edges, proc[p].head) ELSE edges
    /\ Return(p)
    /\ UNCHANGED <<revs, link, tip, atts, row, edits, crashes, history>>

-----------------------------------------------------------------------------
(* People, and the environment.                                             *)

Local == {k \in DOMAIN revs : revs[k].by = "local"}

\* tickets revise.
TicketsRevise(p, s) ==
    /\ At(p, "idle") /\ Cardinality(Local) <= MaxLocal
    /\ proc' = [proc EXCEPT ![p].pc = "revise", ![p].spec = s]
    /\ UNCHANGED <<repo, row, edits, crashes, history>>

TrackerEdit(s) ==
    /\ edits < MaxEdits /\ s # row.spec
    /\ row' = [row EXCEPT !.spec = s]
    /\ typed' = typed \cup {s}
    /\ edits' = edits + 1
    /\ UNCHANGED <<repo, proc, crashes, sent, lost, raced>>

TrackerMove(d) ==
    /\ edits < MaxEdits /\ d # row.dec
    /\ row' = [row EXCEPT !.dec = d]
    /\ edits' = edits + 1
    /\ UNCHANGED <<repo, proc, crashes, history>>

\* The other columns of the row: its assignee or priority, and its dependencies.
TrackerField ==
    /\ edits < MaxEdits
    /\ \/ row' = [row EXCEPT !.field = edits + 1]
       \/ row' = [row EXCEPT !.dep = TRUE]
    /\ edits' = edits + 1
    /\ UNCHANGED <<repo, proc, crashes, history>>

\* A verb is killed after its first write and before its last; one killed earlier might as
\* well not have been run.
KillVerb(p) ==
    /\ proc[p].pc \in {"mark", "markLink", "tip", "swap"} /\ crashes < MaxCrashes
    /\ crashes' = crashes + 1
    /\ Return(p)
    /\ UNCHANGED <<repo, row, edits, history>>

-----------------------------------------------------------------------------
\* A verb that has begun goes on.
Continue(p) ==
    \/ ApplyGet(p) \/ ApplyInbound(p) \/ ReviseHead(p) \/ ReviseSwap(p)
    \/ NeedsPush(p) \/ TicketSpec(p) \/ Send(p) \/ MarkHead(p) \/ MarkPushed(p)
    \/ TransHead(p) \/ TransitionOnce(p) \/ AttestTip(p) \/ AttestSwap(p)
    \/ PutOnce(p) \/ EdgeTip(p) \/ EdgeSwap(p)
    \/ AddTip(p) \/ AddSwap(p)

BridgeNext ==
    \/ \E p \in Conns : \/ Poll(p) \/ NeedsHead(p) \/ Transition(p) \/ SetField(p)
                        \/ ImportTicketEdge(p) \/ KillVerb(p)
    \/ \E p \in Authors, s \in Specs : TicketsRevise(p, s)
    \/ \E p \in Procs : Continue(p) \/ BridgeLink(p)
    \/ \E s \in Specs : TrackerEdit(s)
    \/ \E d \in Decisions : TrackerMove(d)
    \/ TrackerField

BridgeSpec == BridgeInit /\ [][BridgeNext]_bridgeVars

\* A verb that has begun ends, and the connector keeps polling and pushing; nobody has
\* to edit anything.
Fairness ==
    \A p \in Conns : WF_bridgeVars(Continue(p)) /\ SF_bridgeVars(Poll(p)) /\ SF_bridgeVars(NeedsHead(p))

FairSpec == BridgeSpec /\ Fairness /\ \A p \in Authors : WF_bridgeVars(Continue(p))

-----------------------------------------------------------------------------
(* Properties.                                                              *)

\* "On a concurrent edit the tracker loses" and a round trip makes no revision: a revision
\* the connector makes carries a text somebody typed into the row, and what it goes over was
\* in the row before, except where a local revision was made while the connector was between
\* reading the head and acting on it.
InboundHonest ==
    \A k \in DOMAIN revs : revs[k].by = "bridge" /\ k - 1 \notin raced =>
        /\ revs[k].spec \in typed
        /\ revs[k - 1].by = "local" => k - 1 \in sent

\* The ticket's revisions and the connector's watermarks (bridge.go ApplyInbound, NeedsPush,
\* MarkPushed): the state is well formed, no watermark names a revision that is not there,
\* and InboundHonest.
BridgeInv ==
    /\ BridgeTypeOK
    /\ link.pushed <= HeadRev /\ link.transHead <= HeadRev
    /\ InboundHonest

SameBefore(i) ==
    \E h \in 1..(i - 1) : /\ atts[h] = atts[i]
                          /\ \A j \in (h + 1)..(i - 1) : atts[j].rev # atts[i].rev

\* Repeated polls leave nothing behind (bridge.go RecordTransitionOnce, edge/store.go
\* PutOnce): a transition that is still the last one recorded on a revision is attested
\* again at most once for each verb killed and each link write lost, and one connector
\* never imports an edge twice for one revision.
ResyncIdempotent ==
    /\ Cardinality({i \in DOMAIN atts : SameBefore(i)}) <= crashes + lost
    /\ \A i, j \in DOMAIN edges : edges[i] = edges[j] => i = j

\* When people stop editing, the row and the ticket's head come to say the same, whatever
\* was killed, dropped or raced before, unless the row has come back to the text pulled
\* last, which ApplyInbound takes for an echo.
Converges == <>[](row.spec = revs[HeadRev].spec \/ row.spec = link.pulled)
=============================================================================
