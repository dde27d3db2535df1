-------------------------- MODULE GovernanceProofs --------------------------
(* Machine-checked proofs about Governance, for any number of people and any
   graph of changes, keys and bounds.                                        *)
EXTENDS Governance, SequenceTheorems, TLAPS

-----------------------------------------------------------------------------
(* The locals of a verb.                                                    *)

\* What a note may say, whatever its chain.
Payloads == UNION {PayloadsOf(s) : s \in Slots}
Chains == Seq(Payloads \cup Changes)
Olds == Charts \cup Revs \cup BOOLEAN \cup Changes \cup {None}
News == Charts \cup BOOLEAN \cup {None}
Made == CallsOn(Revs) \cup {[op |-> None]}

Pcs == {"idle", "tip", "swap", "kind", "sign", "list", "run", "report", "requests", "declare", "say",
        "put", "old", "entries", "chartSwap", "base", "revSwap", "polRead", "polSwap",
        "approval", "evidence", "lease", "move", "policy", "next", "walk"}

Locals == [pc : Pcs, call : Made, slot : Slots \cup {<<>>}, pay : Payloads \cup {None},
           chain : Chains, old : Olds, new : News, walk : SUBSET Changes, cands : SUBSET Changes,
           best : Changes \cup {None}, unread : SUBSET Changes, skipped : SUBSET Changes,
           vetoed : SUBSET (Revs \cup Changes), checks : Nat]

\* Which verb is at pc.
Serves(pc, op) ==
    /\ pc = "kind" => op = "attest"
    /\ pc \in {"old", "entries", "chartSwap"} => op = "principal"
    /\ pc = "run" => op = "check"
    /\ pc \in {"policy", "next", "walk"} => op = "spec"
    /\ pc \in {"approval", "evidence"} => op = "promote"
    /\ pc \in {"lease", "move"} => op \in {"promote", "force", "spec"}
    /\ pc \in {"polRead", "polSwap"} => op = "policy"
    /\ pc = "sign" => op = "claimPromote"
    /\ pc = "report" => op = "blocked"
    /\ pc = "declare" => op = "scope"
    /\ pc = "requests" => op = "widen"

Serving(l) == Serves(l.pc, l.call.op)

\* A note about to be written fits its chain, and the artifact it lists is stored; a chain
\* that was read empty and is not empty has grown.
Writing(l) ==
    /\ l.slot # <<>> => l.pc \in {"tip", "swap"}
    /\ l.pc \in {"tip", "swap"} =>
         /\ l.slot \in Slots
         /\ l.pay \in PayloadsOf(l.slot)
         /\ l.slot[1] = "artifacts" => Artifact \in objs
    /\ l.pc = "swap" /\ l.chain # <<>> => notes[l.slot] # <<>>

\* The chart after i updates.
ChartAt(i) == IF i = 0 THEN [k \in Keys |-> None] ELSE updates[i].chart

\* The two reads of the chart, in this order.
Charting(l) ==
    /\ l.pc = "entries" => \E a \in 0..Len(updates) : l.old = ChartAt(a)
    /\ l.pc = "chartSwap" => \E a, b \in 0..Len(updates) :
         a <= b /\ l.old = ChartAt(a) /\ l.new = Mutate(l.call, ChartAt(b))

\* What was decided when the verb began is still to be read.
Remembering(l) ==
    /\ \A t \in l.vetoed : Vetoed(t)
    /\ l.call.op = "promote" => l.checks <= Len(notes[<<"check", l.call.on>>])

\* The two halves of what `promote` heeds.
Authorised(c, vetoed) ==
    LET rev == FulfillsOf[c]
    IN  rev # 0 => rev \notin vetoed /\ \E a \in Atts(rev) : a.dec = "approve" /\ a.str = "strong"

Evidenced(c, checks) ==
    LET chain == notes[<<"check", c>>]
    IN  checks > 0 => \E i \in checks..Len(chain) : chain[i].pass

Heeding(l) ==
    l.call.op = "promote" =>
       /\ l.pc \in {"evidence", "lease", "move"} => Authorised(l.call.on, l.vetoed)
       /\ l.pc \in {"lease", "move"} => Evidenced(l.call.on, l.checks)

\* The walk over the ancestors of a candidate: what it has popped had no veto, and the parents
\* of what it has popped and read are popped or pushed.  Before the first pop the candidate is on
\* both.
Walking(l) ==
    l.pc = "walk" =>
       LET seen == Range(l.chain)
       IN  /\ l.chain \in Seq(Changes) /\ l.chain # <<>>
           /\ \A t \in seen \ l.walk : t \notin l.vetoed
           /\ \A t \in seen \ l.walk : t \notin l.unread => ParentOf[t] \subseteq seen \cup l.walk
           /\ seen \cap l.walk = {} \/ (seen = l.walk /\ l.walk = {Head(l.chain)})

\* The candidate `spec promote` holds was admitted; the other verbs name their change.
Picking(l) ==
    /\ l.call.op = "spec" /\ l.best # None => Ancestors(l.best, l.skipped) \cap l.vetoed = {}
    /\ l.call.op = "spec" /\ l.pc \in {"lease", "move"} => l.best # None
    /\ l.call.op # "spec" /\ l.pc = "move" => l.best = l.call.on

Sound(l) == /\ l \in Locals
            /\ Serving(l) /\ Writing(l) /\ Charting(l) /\ Remembering(l)
            /\ Heeding(l) /\ Walking(l) /\ Picking(l)

-----------------------------------------------------------------------------
(* The inductive invariant.                                                 *)

\* Everyone at work is where the verbs can have brought them.
Everyone == proc \in [Procs -> Locals] /\ \A p \in Procs : Sound(proc[p])

\* An artifact that is listed is in the store, unless the verb was killed ...
Listed == Artifact \in attachedRefIDs(Ticket) => Artifact \in objs \cup torn

\* ... and stays there: it is pinned, or about to be.
PinSlot == <<"artifact-ref", Artifact>>
Pinned ==
    Artifact \in attachedRefIDs(Ticket) =>
        \/ notes[PinSlot] # <<>> \/ Artifact \in torn
        \/ \E p \in Procs : proc[p].slot = PinSlot

\* The chart is the outcome of the last update.
Updates == [call : CallsOn(Revs), chart : Charts]
ChartKept == updates \in Seq(Updates) /\ chart = ChartAt(Len(updates))

IInv == /\ TypeOK /\ Everyone /\ Listed /\ Pinned
        /\ ChartKept /\ ChartSerial /\ PromotionHeeds

-----------------------------------------------------------------------------
(* About the operators.                                                     *)

\* The chains there are.
LEMMA SlotsAre ==
  /\ \A t \in Revs \cup Changes : <<"attest", t>> \in Slots
  /\ <<"attest", Claim>> \in Slots
  /\ \A c \in Changes : <<"check", c>> \in Slots
  /\ \A r \in Revs : <<"blocked", r>> \in Slots /\ <<"scope", r>> \in Slots
  /\ <<"artifacts", Ticket>> \in Slots /\ <<"discussion", Ticket>> \in Slots
  /\ <<"edges", Ticket>> \in Slots
  /\ PinSlot \in Slots
BY DEF Slots, PinSlot

\* What their notes say.
LEMMA PayloadsAre ==
  \A t : /\ PayloadsOf(<<"attest", t>>) = [key : Keys, dec : {"approve", "veto"}, str : Strengths]
         /\ PayloadsOf(<<"check", t>>) = Evidence(t)
         /\ PayloadsOf(<<"blocked", t>>) = [kind : {"request", "widening"}, scope : Scopes \cup {None}]
         /\ PayloadsOf(<<"scope", t>>) = Scopes
         /\ PayloadsOf(<<"artifacts", t>>) = {Artifact}
         /\ PayloadsOf(<<"artifact-ref", t>>) = {Ticket}
         /\ PayloadsOf(<<"discussion", t>>) = Procs
         /\ PayloadsOf(<<"edges", t>>) = {Claim}
BY DEF PayloadsOf

\* Nobody at work.
LEMMA IdleIsLocal == Idle \in Locals
<1>1. <<>> \in Chains
  BY DEF Chains
<1>2. None \in Olds /\ None \in News /\ [op |-> None] \in Made
  BY DEF Olds, News, Made
<1>3. "idle" \in Pcs
  BY DEF Pcs
<1> QED
  BY <1>1, <1>2, <1>3 DEF Idle, Locals

\* ... has nothing to answer for.
LEMMA IdleSound == Sound(Idle)
<1>1. /\ Idle.pc = "idle" /\ Idle.slot = <<>> /\ Idle.call = [op |-> None] /\ Idle.vetoed = {}
      /\ Idle.best = None
  BY DEF Idle
<1>2. Idle.call.op = "none"
  BY <1>1 DEF None
<1> QED
  BY <1>1, <1>2, IdleIsLocal
     DEF Sound, Serving, Serves, Writing, Charting, Remembering, Heeding, Walking, Picking

\* The fields of a verb's locals.
LEMMA LocalFields ==
  ASSUME NEW l \in Locals
  PROVE  /\ l.pc \in Pcs /\ l.call \in Made /\ l.slot \in Slots \cup {<<>>}
         /\ l.pay \in Payloads \cup {None} /\ l.chain \in Chains /\ l.old \in Olds /\ l.new \in News
         /\ l.walk \subseteq Changes /\ l.cands \subseteq Changes /\ l.best \in Changes \cup {None}
         /\ l.unread \subseteq Changes /\ l.skipped \subseteq Changes
         /\ l.vetoed \subseteq Revs \cup Changes /\ l.checks \in Nat
BY DEF Locals

\* About to write a note: notes.Add.
Adding(l, slot, pay) == [l EXCEPT !.pc = "tip", !.slot = slot, !.pay = pay]

\* A verb about to write a note has what it needs for that.
LEMMA AddingSound ==
  ASSUME NEW l, Sound(l), NEW slot \in Slots, NEW pay \in PayloadsOf(slot),
         slot[1] = "artifacts" => Artifact \in objs
  PROVE  Sound(Adding(l, slot, pay))
<1> DEFINE m == Adding(l, slot, pay)
<1>1. l \in Locals
  BY DEF Sound
<1>2. pay \in Payloads
  BY DEF Payloads
<1>3. m \in Locals
  <2>1. "tip" \in Pcs
    BY DEF Pcs
  <2> QED
    BY <1>1, <1>2, <2>1 DEF Locals, Adding
<1>4. /\ m.pc = "tip" /\ m.slot = slot /\ m.pay = pay
      /\ m.call = l.call /\ m.vetoed = l.vetoed /\ m.checks = l.checks /\ m.best = l.best /\ m.skipped = l.skipped
  BY <1>1 DEF Locals, Adding
<1> HIDE DEF m
<1>5. Serving(m) /\ Charting(m) /\ Heeding(m) /\ Walking(m)
  BY <1>4 DEF Serving, Serves, Charting, Heeding, Walking
<1>6. Writing(m)
  BY <1>4 DEF Writing
<1>7. Remembering(m) /\ Picking(m)
  BY <1>4 DEF Sound, Remembering, Picking
<1> QED
  BY <1>3, <1>5, <1>6, <1>7 DEF Sound, m

\* The arguments of a verb, by the name of the verb.
LEMMA CallFields ==
  ASSUME NEW T, NEW c \in CallsOn(T) \cup {[op |-> None]}
  PROVE  /\ c.op = "attest" => /\ c.key \in Keys /\ c.dec \in {"approve", "veto"}
                               /\ c.str \in Strengths /\ c.on \in T \cup Changes
         /\ c.op = "principal" => c.key \in Keys /\ c.kind \in Kinds \cup {None}
         /\ c.op \in {"check", "promote", "force", "spec"} => c.on \in Changes
         /\ c.op \in {"revise", "comment", "artifact", "claim", "widen"} => c.on \in T
         /\ c.op \in {"blocked", "scope"} => c.on \in T /\ c.scope \in Scopes
         /\ c.op = "policy" => c.on = None /\ c.set \in BOOLEAN
         /\ c.op = "claimPromote" => c.on = Claim /\ c.key \in Keys /\ c.str \in Strengths
<1>1. ASSUME c.op = "policy" PROVE c \in [op : {"policy"}, on : {None}, set : BOOLEAN]
  BY <1>1 DEF CallsOn, None
<1>2. c.op = "policy" => c.on = None
  BY <1>1
<1>3. c.op = "policy" => c.set \in BOOLEAN
  BY <1>1
<1>4. ASSUME c.op = "attest" PROVE c \in [op : {"attest"}, key : Keys, dec : {"approve", "veto"},
                                       str : Strengths, on : T \cup Changes]
  BY <1>4 DEF CallsOn, None
<1>5. ASSUME c.op = "principal" PROVE c \in [op : {"principal"}, key : Keys, kind : Kinds \cup {None}]
  BY <1>5 DEF CallsOn, None
<1>6. ASSUME c.op \in {"check", "promote", "force", "spec"}
      PROVE  c \in [op : {"check", "promote", "force", "spec"}, on : Changes]
  BY <1>6 DEF CallsOn, None
<1>7. ASSUME c.op \in {"revise", "comment", "artifact", "claim", "widen"}
      PROVE  c \in [op : {"revise", "comment", "artifact", "claim", "widen"}, on : T]
  BY <1>7 DEF CallsOn, None
<1>8. ASSUME c.op \in {"blocked", "scope"} PROVE c \in [op : {"blocked", "scope"}, on : T, scope : Scopes]
  BY <1>8 DEF CallsOn, None
<1>9. ASSUME c.op = "claimPromote"
      PROVE  c \in [op : {"claimPromote"}, on : {Claim}, key : Keys, str : Strengths]
  BY <1>9 DEF CallsOn, None
<1> QED
  BY <1>2, <1>3, <1>4, <1>5, <1>6, <1>7, <1>8, <1>9

\* A call that names the ticket works on its head.
LEMMA ResolvedCall ==
  ASSUME NEW c \in Calls, head \in Revs
  PROVE  /\ resolveTicketHead(c) \in CallsOn(Revs)
         /\ resolveTicketHead(c).op = c.op
         /\ c.op \in {"check", "promote", "force", "spec"} => resolveTicketHead(c).on = c.on
<1> DEFINE d == resolveTicketHead(c)
<1>1. c \in CallsOn({Ticket}) /\ Ticket \notin Changes /\ Ticket # None /\ Ticket # Claim
  BY CallsAssumption
<1>2. CASE c \in [op : {"attest"}, key : Keys, dec : {"approve", "veto"}, str : Strengths,
                  on : {Ticket} \cup Changes]
  <2>1. d \in [op : {"attest"}, key : Keys, dec : {"approve", "veto"}, str : Strengths,
                  on : Revs \cup Changes] /\ d.op = c.op
    BY <1>2 DEF resolveTicketHead
  <2> QED
    BY <1>2, <2>1 DEF CallsOn
<1>3. CASE c \in [op : {"principal"}, key : Keys, kind : Kinds \cup {None}]
  BY <1>3 DEF resolveTicketHead, CallsOn
<1>4. CASE c \in [op : {"check", "promote", "force", "spec"}, on : Changes]
  BY <1>1, <1>4 DEF resolveTicketHead, CallsOn
<1>5. CASE c \in [op : {"revise", "comment", "artifact", "claim", "widen"}, on : {Ticket}]
  <2>1. d \in [op : {"revise", "comment", "artifact", "claim", "widen"}, on : Revs] /\ d.op = c.op
    BY <1>5 DEF resolveTicketHead
  <2> QED
    BY <1>5, <2>1 DEF CallsOn
<1>6. CASE c \in [op : {"blocked", "scope"}, on : {Ticket}, scope : Scopes]
  <2>1. d \in [op : {"blocked", "scope"}, on : Revs, scope : Scopes] /\ d.op = c.op
    BY <1>6 DEF resolveTicketHead
  <2> QED
    BY <1>6, <2>1 DEF CallsOn
<1>7. CASE c \in [op : {"policy"}, on : {None}, set : BOOLEAN]
  <2>1. c.on # Ticket /\ c.op = "policy"
    BY <1>1, <1>7
  <2>2. d = c
    BY <2>1 DEF resolveTicketHead
  <2> QED
    BY <1>7, <2>1, <2>2 DEF CallsOn
<1>8. CASE c \in [op : {"claimPromote"}, on : {Claim}, key : Keys, str : Strengths]
  BY <1>1, <1>8 DEF resolveTicketHead, CallsOn
<1> QED
  BY <1>1, <1>2, <1>3, <1>4, <1>5, <1>6, <1>7, <1>8 DEF CallsOn

-----------------------------------------------------------------------------
(* Steps that change no ref: where they bring the verb.                     *)

Brings(p) == \E l : Sound(l) /\ proc' = [proc EXCEPT ![p] = l]

\* A verb that returns.
LEMMA Returned ==
  ASSUME NEW p, Return(p)
  PROVE  Brings(p)
BY IdleSound DEF Return, Brings

\* A verb that turns to notes.Add.
LEMMA Added ==
  ASSUME Everyone, NEW p \in Procs, NEW slot \in Slots, NEW pay \in PayloadsOf(slot),
         slot[1] = "artifacts" => Artifact \in objs, Add(p, slot, pay)
  PROVE  Brings(p)
<1>1. proc[p] \in Locals /\ Sound(proc[p])
  BY DEF Everyone
<1>2. proc' = [proc EXCEPT ![p] = Adding(proc[p], slot, pay)]
  BY <1>1 DEF Add, Adding, Everyone, Locals
<1>3. Sound(Adding(proc[p], slot, pay))
  BY <1>1, AddingSound
<1> QED
  BY <1>2, <1>3 DEF Brings

\* Beginning a verb.  `vetoed` and `checks` are what there is to heed.
Beginning(c, pc) ==
    [Idle EXCEPT !.pc = pc, !.call = resolveTicketHead(c),
                 !.vetoed = IF c.op \in {"promote", "spec"} THEN {t \in Revs \cup Changes : Vetoed(t)} ELSE {},
                 !.checks = IF c.op = "promote" THEN Len(notes[<<"check", c.on>>]) ELSE 0]

\* A verb that begins has heeded what there is then.
LEMMA Begun ==
  ASSUME TypeOK, Everyone, NEW p \in Procs, NEW c \in Calls,
         NEW pc \in Pcs \ {"idle", "tip", "swap", "entries", "chartSwap", "evidence", "walk", "move"},
         Serves(pc, c.op), pc = "lease" => c.op = "force", Begin(p, c, pc)
  PROVE  Brings(p)
<1> DEFINE d == resolveTicketHead(c)
           vs == IF c.op \in {"promote", "spec"} THEN {t \in Revs \cup Changes : Vetoed(t)} ELSE {}
           n == IF c.op = "promote" THEN Len(notes[<<"check", c.on>>]) ELSE 0
           l == Beginning(c, pc)
<1>1. d \in CallsOn(Revs) /\ d.op = c.op /\ (c.op \in {"check", "promote", "force", "spec"} => d.on = c.on)
  BY ResolvedCall DEF TypeOK
<1>2. ASSUME c.op = "promote" PROVE Len(notes[<<"check", c.on>>]) \in Nat /\ d.on = c.on
  <2>1. d \in CallsOn(Revs) \cup {[op |-> None]} /\ d.op = "promote"
    BY <1>1, <1>2
  <2>2. c.on \in Changes /\ d.on = c.on
    BY <1>1, <1>2, <2>1, CallFields
  <2>3. <<"check", c.on>> \in Slots
    BY <2>2, SlotsAre
  <2> QED
    BY <2>2, <2>3, LenProperties DEF TypeOK
<1>3. vs \subseteq Revs \cup Changes /\ (\A t \in vs : Vetoed(t)) /\ n \in Nat
  BY <1>2
<1>4. l = [Idle EXCEPT !.pc = pc, !.call = d, !.vetoed = vs, !.checks = n]
  BY DEF Beginning
<1>5. proc' = [proc EXCEPT ![p] = l]
  BY <1>4 DEF Begin
<1>6. d \in Made
  BY <1>1 DEF Made
<1>7. c.op = "promote" => n <= Len(notes[<<"check", d.on>>])
  BY <1>2
<1> HIDE DEF d, vs, n, l
<1>8. /\ l.pc = pc /\ l.call = d /\ l.vetoed = vs /\ l.checks = n
      /\ l.slot = <<>> /\ l.best = None
  BY <1>4 DEF Idle
<1>9. l \in Locals
  BY <1>3, <1>4, <1>6, IdleIsLocal DEF Locals
<1>10. Serving(l) /\ Writing(l) /\ Charting(l) /\ Walking(l)
  BY <1>1, <1>8 DEF Serving, Writing, Charting, Walking
<1>11. Remembering(l)
  BY <1>1, <1>3, <1>7, <1>8 DEF Remembering
<1>12. Heeding(l)
  BY <1>1, <1>8 DEF Heeding
<1>13. Picking(l)
  BY <1>1, <1>8 DEF Picking
<1>14. Sound(l)
  BY <1>9, <1>10, <1>11, <1>12, <1>13 DEF Sound
<1> QED
  BY <1>5, <1>14 DEF Brings

\* Whichever verb is begun.
LEMMA VerbBrings ==
  ASSUME TypeOK, Everyone, NEW p \in Procs, Verb(p)
  PROVE  Brings(p) /\ UNCHANGED <<refs, history>>
<1>1. ASSUME NEW c \in Calls, NEW pc, Begin(p, c, pc) PROVE UNCHANGED <<refs, history>>
  BY <1>1 DEF Begin
<1>2. CASE cmdAttest(p)
  BY <1>1, <1>2, Begun DEF cmdAttest, Of, Serves, Pcs
<1>3. CASE cmdPrincipal(p)
  BY <1>1, <1>3, Begun DEF cmdPrincipal, Of, Serves, Pcs
<1>4. CASE cmdCheck(p)
  BY <1>1, <1>4, Begun DEF cmdCheck, Of, Serves, Pcs
<1>5. CASE cmdSpecPromote(p)
  BY <1>1, <1>5, Begun DEF cmdSpecPromote, Of, Serves, Pcs
<1>6. CASE cmdPromote(p)
  <2>1. CASE \E c \in Of("promote") : Begin(p, c, "approval")
    BY <1>1, <2>1, Begun DEF Of, Serves, Pcs
  <2>2. CASE \E c \in Of("force") : Begin(p, c, "lease")
    BY <1>1, <2>2, Begun DEF Of, Serves, Pcs
  <2> QED
    BY <1>6, <2>1, <2>2 DEF cmdPromote
<1>7. CASE attestPolicy(p)
  BY <1>1, <1>7, Begun DEF attestPolicy, Of, Serves, Pcs
<1>8. CASE assertAdd(p)
  BY <1>1, <1>8, Begun DEF assertAdd, Of, Serves, Pcs
<1>9. CASE assertPromote(p)
  BY <1>1, <1>9, Begun DEF assertPromote, Of, Serves, Pcs
<1>10. CASE toolReportBlocked(p)
  BY <1>1, <1>10, Begun DEF toolReportBlocked, Of, Serves, Pcs
<1>11. CASE blockedWiden(p)
  BY <1>1, <1>11, Begun DEF blockedWiden, Of, Serves, Pcs
<1>12. CASE ticketsRevise(p)
  BY <1>1, <1>12, Begun DEF ticketsRevise, Of, Serves, Pcs
<1>13. CASE ticketsScope(p)
  BY <1>1, <1>13, Begun DEF ticketsScope, Of, Serves, Pcs
<1>14. CASE ticketsComment(p)
  BY <1>1, <1>14, Begun DEF ticketsComment, Of, Serves, Pcs
<1>15. CASE ticketsAttachArtifact(p)
  BY <1>1, <1>15, Begun DEF ticketsAttachArtifact, Of, Serves, Pcs
<1> QED
  BY <1>2, <1>3, <1>4, <1>5, <1>6, <1>7, <1>8, <1>9, <1>10, <1>11, <1>12, <1>13, <1>14, <1>15 DEF Verb

\* The call of a verb at work.
LEMMA CallAt ==
  ASSUME Everyone, NEW p \in Procs
  PROVE  /\ Call(p) \in CallsOn(Revs) \cup {[op |-> None]}
         /\ Serves(proc[p].pc, Call(p).op)
BY LocalFields DEF Everyone, Sound, Serving, Call, Made

\* The verbs that write one note.
LEMMA NotesBring ==
  ASSUME TypeOK, Everyone, NEW p \in Procs,
         \/ Attest(p) \/ ClaimPromote(p) \/ ClaimAdd(p) \/ Check(p) \/ ReportBlocked(p)
         \/ Widen(p) \/ SetScope(p) \/ Comment(p)
  PROVE  Brings(p)
<1> DEFINE c == Call(p)
<1>1. c \in CallsOn(Revs) \cup {[op |-> None]} /\ Serves(proc[p].pc, c.op)
  BY CallAt
<1> HIDE DEF c
<1>2. CASE Attest(p)
  <2>1. c.op = "attest"
    BY <1>1, <1>2 DEF Attest, At, Serves
  <2>2. c.key \in Keys /\ c.dec \in {"approve", "veto"} /\ c.str \in Strengths /\ c.on \in Revs \cup Changes
    BY <1>1, <2>1, CallFields
  <2>3. <<"attest", c.on>> \in Slots /\ <<"attest", c.on>>[1] # "artifacts"
    BY <2>2, SlotsAre
  <2>4. Signed(c.key, c.dec, c.str) \in PayloadsOf(<<"attest", c.on>>)
    BY <2>2, PayloadsAre DEF Signed
  <2>5. CASE Return(p)
    BY <2>5, Returned
  <2>6. CASE Add(p, <<"attest", c.on>>, Signed(c.key, c.dec, c.str))
    BY <2>3, <2>4, <2>6, Added
  <2> QED
    BY <1>2, <2>5, <2>6 DEF Attest, c
<1>3. CASE ClaimPromote(p)
  <2>1. c.op = "claimPromote"
    BY <1>1, <1>3 DEF ClaimPromote, At, Serves
  <2>2. c.key \in Keys /\ c.str \in Strengths
    BY <1>1, <2>1, CallFields
  <2>3. <<"attest", Claim>> \in Slots /\ <<"attest", Claim>>[1] # "artifacts"
    BY SlotsAre
  <2>4. Signed(c.key, "approve", c.str) \in PayloadsOf(<<"attest", Claim>>)
    BY <2>2, PayloadsAre DEF Signed
  <2> QED
    BY <1>3, <2>3, <2>4, Added DEF ClaimPromote, c
<1>4. CASE ClaimAdd(p)
  <2>1. <<"edges", Ticket>> \in Slots /\ <<"edges", Ticket>>[1] # "artifacts"
    BY SlotsAre
  <2>2. Claim \in PayloadsOf(<<"edges", Ticket>>)
    BY PayloadsAre
  <2> QED
    BY <1>4, <2>1, <2>2, Added, Returned DEF ClaimAdd
<1>5. CASE Check(p)
  <2>1. c.op = "check"
    BY <1>1, <1>5 DEF Check, At, Serves
  <2>2. c.on \in Changes
    BY <1>1, <2>1, CallFields
  <2>3. <<"check", c.on>> \in Slots /\ <<"check", c.on>>[1] # "artifacts"
    BY <2>2, SlotsAre
  <2>4. PayloadsOf(<<"check", c.on>>) = Evidence(c.on)
    BY PayloadsAre
  <2>5. PICK e \in Evidence(c.on) : Add(p, <<"check", c.on>>, e)
    BY <1>5 DEF Check, c
  <2> QED
    BY <2>3, <2>4, <2>5, Added
<1>6. CASE ReportBlocked(p)
  <2>1. c.op = "blocked"
    BY <1>1, <1>6 DEF ReportBlocked, At, Serves
  <2>2. c.on \in Revs /\ c.scope \in Scopes
    BY <1>1, <2>1, CallFields
  <2>3. <<"blocked", c.on>> \in Slots /\ <<"blocked", c.on>>[1] # "artifacts"
    BY <2>2, SlotsAre
  <2>4. [kind |-> "request", scope |-> c.scope] \in PayloadsOf(<<"blocked", c.on>>)
    BY <2>2, PayloadsAre
  <2> QED
    BY <1>6, <2>3, <2>4, Added DEF ReportBlocked, c
<1>7. CASE Widen(p)
  <2>1. c.op = "widen"
    BY <1>1, <1>7 DEF Widen, At, Serves
  <2>2. c.on \in Revs
    BY <1>1, <2>1, CallFields
  <2>3. <<"blocked", c.on>> \in Slots /\ <<"blocked", c.on>>[1] # "artifacts"
    BY <2>2, SlotsAre
  <2> DEFINE chain == notes[<<"blocked", c.on>>]
             Reports == [kind : {"request", "widening"}, scope : Scopes \cup {None}]
  <2>4. PayloadsOf(<<"blocked", c.on>>) = Reports
    BY PayloadsAre
  <2>5. chain \in Seq(Reports)
    BY <2>3, <2>4 DEF TypeOK
  <2>6. PICK s \in Requested(c.on) : Add(p, <<"blocked", c.on>>, [kind |-> "widening", scope |-> s])
    BY <1>7 DEF Widen, c
  <2>7. ASSUME NEW i \in DOMAIN chain PROVE chain[i].scope \in Scopes \cup {None}
    <3>1. i \in 1..Len(chain)
      BY <2>5, LenProperties
    <3>2. chain[i] \in Reports
      BY <2>5, <3>1, ElementOfSeq
    <3> QED
      BY <3>2
  <2>8. s \in Scopes \cup {None}
    BY <2>7 DEF Requested
  <2>9. [kind |-> "widening", scope |-> s] \in PayloadsOf(<<"blocked", c.on>>)
    BY <2>4, <2>8
  <2> QED
    BY <2>3, <2>6, <2>9, Added
<1>8. CASE SetScope(p)
  <2>1. c.op = "scope"
    BY <1>1, <1>8 DEF SetScope, At, Serves
  <2>2. c.on \in Revs /\ c.scope \in Scopes
    BY <1>1, <2>1, CallFields
  <2>3. <<"scope", c.on>> \in Slots /\ <<"scope", c.on>>[1] # "artifacts"
    BY <2>2, SlotsAre
  <2>4. c.scope \in PayloadsOf(<<"scope", c.on>>)
    BY <2>2, PayloadsAre
  <2> QED
    BY <1>8, <2>3, <2>4, Added DEF SetScope, c
<1>9. CASE Comment(p)
  <2>1. <<"discussion", Ticket>> \in Slots /\ <<"discussion", Ticket>>[1] # "artifacts"
    BY SlotsAre
  <2>2. p \in PayloadsOf(<<"discussion", Ticket>>)
    BY PayloadsAre
  <2> QED
    BY <1>9, <2>1, <2>2, Added DEF Comment
<1> QED
  BY <1>2, <1>3, <1>4, <1>5, <1>6, <1>7, <1>8, <1>9

\* notes.Add reads the tip.
LEMMA TipBrings ==
  ASSUME TypeOK, Everyone, NEW p \in Procs, AddTip(p)
  PROVE  Brings(p)
<1> DEFINE k == proc[p]
           l == [k EXCEPT !.pc = "swap", !.chain = notes[k.slot]]
<1>1. k \in Locals /\ Sound(k) /\ k.pc = "tip"
  BY DEF Everyone, AddTip, At
<1>2. proc' = [proc EXCEPT ![p] = l]
  BY <1>1 DEF AddTip, Everyone, Locals
<1> HIDE DEF k
<1>3. k.slot \in Slots /\ k.pay \in PayloadsOf(k.slot) /\ (k.slot[1] = "artifacts" => Artifact \in objs)
  BY <1>1 DEF Sound, Writing
<1>4. notes[k.slot] \in Chains
  <2>1. notes[k.slot] \in Seq(PayloadsOf(k.slot)) /\ PayloadsOf(k.slot) \subseteq Payloads \cup Changes
    BY <1>3 DEF TypeOK, Payloads
  <2> QED
    BY <2>1, SeqMonotonic DEF Chains
<1>5. "swap" \in Pcs
  BY DEF Pcs
<1>6. l \in Locals
  BY <1>1, <1>4, <1>5 DEF Locals
<1>7. /\ l.pc = "swap" /\ l.chain = notes[k.slot] /\ l.slot = k.slot /\ l.pay = k.pay
      /\ l.call = k.call /\ l.vetoed = k.vetoed /\ l.checks = k.checks /\ l.best = k.best /\ l.skipped = k.skipped
  BY <1>1 DEF Locals
<1> HIDE DEF l
<1>8. Serving(l) /\ Charting(l) /\ Heeding(l) /\ Walking(l)
  BY <1>7 DEF Serving, Serves, Charting, Heeding, Walking
<1>9. Writing(l)
  BY <1>3, <1>7 DEF Writing
<1>10. Remembering(l) /\ Picking(l)
  BY <1>1, <1>7 DEF Sound, Remembering, Picking
<1>11. Sound(l)
  BY <1>6, <1>8, <1>9, <1>10 DEF Sound
<1> QED
  BY <1>2, <1>11 DEF Brings

\* A change to the chart makes a chart.
LEMMA MutateTyped ==
  ASSUME NEW c, c.key \in Keys, c.kind \in Kinds \cup {None}, NEW ch \in Charts
  PROVE  Mutate(c, ch) \in Charts
BY DEF Mutate, Charts

\* The two reads of a change to the chart.
LEMMA PrincipalBrings ==
  ASSUME TypeOK, Everyone, ChartKept, NEW p \in Procs, PrincipalOld(p) \/ PrincipalEntries(p)
  PROVE  Brings(p)
<1> DEFINE k == proc[p]
<1>1. k \in Locals /\ Sound(k)
  BY DEF Everyone
<1>2. k.call \in CallsOn(Revs) \cup {[op |-> None]} /\ Serves(k.pc, k.call.op)
  BY CallAt DEF Call
<1>3. Len(updates) \in Nat /\ chart = ChartAt(Len(updates)) /\ chart \in Charts
  BY LenProperties DEF ChartKept, TypeOK
<1>4. CASE PrincipalOld(p)
  <2> DEFINE l == [k EXCEPT !.pc = "entries", !.old = chart]
  <2>1. proc' = [proc EXCEPT ![p] = l] /\ k.pc = "old"
    BY <1>1, <1>4 DEF PrincipalOld, At, Everyone, Locals
  <2> HIDE DEF k
  <2>2. "entries" \in Pcs /\ chart \in Olds
    BY <1>3 DEF Pcs, Olds
  <2>3. l \in Locals
    BY <1>1, <2>2 DEF Locals
  <2>4. /\ l.pc = "entries" /\ l.old = chart /\ l.slot = k.slot /\ l.call = k.call
        /\ l.vetoed = k.vetoed /\ l.checks = k.checks /\ l.best = k.best /\ l.skipped = k.skipped
    BY <1>1 DEF Locals
  <2> HIDE DEF l
  <2>5. Serving(l) /\ Heeding(l) /\ Walking(l)
    BY <1>2, <2>1, <2>4 DEF Serving, Serves, Heeding, Walking
  <2>6. Writing(l)
    BY <1>1, <2>1, <2>4 DEF Sound, Writing
  <2>7. Charting(l)
    BY <1>3, <2>4 DEF Charting
  <2>8. Remembering(l) /\ Picking(l)
    BY <1>1, <2>4 DEF Sound, Remembering, Picking
  <2>9. Sound(l)
    BY <2>3, <2>5, <2>6, <2>7, <2>8 DEF Sound
  <2> QED
    BY <2>1, <2>9 DEF Brings
<1>5. CASE PrincipalEntries(p)
  <2> DEFINE new == Mutate(k.call, chart)
             l == [k EXCEPT !.pc = "chartSwap", !.new = new]
  <2>1. proc' = [proc EXCEPT ![p] = l] /\ k.pc = "entries"
    BY <1>1, <1>5 DEF PrincipalEntries, At, Everyone, Locals, Call
  <2> HIDE DEF k
  <2>2. k.call.op = "principal"
    BY <1>2, <2>1 DEF Serves
  <2>3. new \in News
    BY <1>2, <1>3, <2>2, CallFields, MutateTyped DEF News
  <2>4. "chartSwap" \in Pcs
    BY DEF Pcs
  <2> HIDE DEF new
  <2>5. l \in Locals
    BY <1>1, <2>3, <2>4 DEF Locals
  <2>6. /\ l.pc = "chartSwap" /\ l.old = k.old /\ l.new = new /\ l.slot = k.slot /\ l.call = k.call
        /\ l.vetoed = k.vetoed /\ l.checks = k.checks /\ l.best = k.best /\ l.skipped = k.skipped
    BY <1>1 DEF Locals
  <2> HIDE DEF l
  <2>7. Serving(l) /\ Heeding(l) /\ Walking(l)
    BY <2>2, <2>6 DEF Serving, Serves, Heeding, Walking
  <2>8. Writing(l)
    BY <1>1, <2>1, <2>6 DEF Sound, Writing
  <2>9. PICK a \in 0..Len(updates) : k.old = ChartAt(a)
    BY <1>1, <2>1 DEF Sound, Charting
  <2>10. Charting(l)
    <3>1. a <= Len(updates) /\ Len(updates) \in 0..Len(updates)
      BY <1>3, <2>9
    <3>2. l.old = ChartAt(a) /\ l.new = Mutate(l.call, ChartAt(Len(updates)))
      BY <1>3, <2>6, <2>9 DEF new
    <3>3. l.pc # "entries"
      BY <2>6
    <3> QED
      BY <2>9, <3>1, <3>2, <3>3 DEF Charting
  <2>11. Remembering(l) /\ Picking(l)
    BY <1>1, <2>6 DEF Sound, Remembering, Picking
  <2>12. Sound(l)
    BY <2>5, <2>7, <2>8, <2>10, <2>11 DEF Sound
  <2> QED
    BY <2>1, <2>12 DEF Brings
<1> QED
  BY <1>4, <1>5

\* What a revision, or a change of the policy, will be swapped against.
LEMMA BaseBrings ==
  ASSUME TypeOK, Everyone, NEW p \in Procs, ReviseHead(p) \/ PolicyRead(p)
  PROVE  Brings(p)
<1> DEFINE k == proc[p]
<1>1. k \in Locals /\ Sound(k) /\ k.pc \in {"base", "polRead"}
  BY DEF Everyone, ReviseHead, PolicyRead, At
<1>2. k.call \in CallsOn(Revs) \cup {[op |-> None]} /\ Serves(k.pc, k.call.op)
  BY CallAt DEF Call
<1>3. PICK pc, old : /\ proc' = [proc EXCEPT ![p].pc = pc, ![p].old = old]
                     /\ \/ k.pc = "base" /\ pc = "revSwap" /\ old = head
                        \/ k.pc = "polRead" /\ pc = "polSwap" /\ old = policy
  BY Zenon DEF ReviseHead, PolicyRead, At
<1> DEFINE l == [k EXCEPT !.pc = pc, !.old = old]
<1>4. proc' = [proc EXCEPT ![p] = l]
  BY <1>1, <1>3 DEF Everyone, Locals
<1>5. pc \in Pcs
  BY <1>3 DEF Pcs
<1>6. old \in Olds
  <2>1. head \in Olds
    BY DEF TypeOK, Olds
  <2>2. policy \in Olds
    BY DEF TypeOK, Olds
  <2> QED
    BY <1>3, <2>1, <2>2
<1> HIDE DEF k
<1>7. l \in Locals
  BY <1>1, <1>5, <1>6 DEF Locals
<1>8. /\ l.pc = pc /\ l.slot = k.slot /\ l.call = k.call
      /\ l.vetoed = k.vetoed /\ l.checks = k.checks /\ l.best = k.best /\ l.skipped = k.skipped
  BY <1>1 DEF Locals
<1> HIDE DEF l
<1>9. pc = "revSwap" \/ (k.pc = "polRead" /\ pc = "polSwap")
  BY <1>3
<1>10. Serving(l) /\ Charting(l) /\ Heeding(l) /\ Walking(l)
  BY <1>2, <1>8, <1>9 DEF Serving, Serves, Charting, Heeding, Walking
<1>11. Writing(l)
  BY <1>1, <1>8, <1>9 DEF Sound, Writing
<1>12. Remembering(l) /\ Picking(l)
  BY <1>1, <1>8, <1>9 DEF Sound, Remembering, Picking
<1>13. Sound(l)
  BY <1>7, <1>10, <1>11, <1>12 DEF Sound
<1> QED
  BY <1>4, <1>13 DEF Brings

\* Going on to a step that writes nothing and has read nothing of the chart or of a candidate.
LEMMA WentOn ==
  ASSUME Everyone, NEW p \in Procs, NEW pc \in {"evidence", "lease"}, Goto(p, pc),
         proc[p].pc \notin {"tip", "swap"},
         Serves(pc, Call(p).op),
         Call(p).op = "promote" => Authorised(Call(p).on, proc[p].vetoed),
         Call(p).op = "promote" /\ pc = "lease" => Evidenced(Call(p).on, proc[p].checks),
         Call(p).op = "spec" => proc[p].best # None
  PROVE  Brings(p)
<1> DEFINE k == proc[p]
           l == [k EXCEPT !.pc = pc]
<1>1. k \in Locals /\ Sound(k) /\ Call(p) = k.call
  BY DEF Everyone, Call
<1>2. proc' = [proc EXCEPT ![p] = l]
  BY <1>1 DEF Goto, Everyone, Locals
<1> HIDE DEF k
<1>3. l \in Locals
  BY <1>1 DEF Locals, Pcs
<1>4. /\ l.pc = pc /\ l.slot = k.slot /\ l.call = k.call
      /\ l.vetoed = k.vetoed /\ l.checks = k.checks /\ l.best = k.best /\ l.skipped = k.skipped
  BY <1>1 DEF Locals
<1> HIDE DEF l
<1>5. Serving(l) /\ Charting(l) /\ Walking(l)
  BY <1>1, <1>4 DEF Serving, Charting, Walking
<1>6. Writing(l)
  BY <1>1, <1>4 DEF Sound, Writing, k
<1>7. Remembering(l) /\ Heeding(l)
  BY <1>1, <1>4 DEF Sound, Remembering, Heeding, k
<1>8. Picking(l)
  BY <1>1, <1>4 DEF Sound, Picking, k
<1>9. Sound(l)
  BY <1>3, <1>5, <1>6, <1>7, <1>8 DEF Sound
<1> QED
  BY <1>2, <1>9 DEF Brings

\* Evidence that admits a change includes a pass no older than what `promote` saw begin with:
\* every piece of evidence on a change is about its tree.
LEMMA AdmittedIsEvidenced ==
  ASSUME TypeOK, NEW c \in Changes, NEW n \in Nat, n <= Len(notes[<<"check", c>>]), EvidenceAdmits(c)
  PROVE  Evidenced(c, n)
<1> DEFINE chain == notes[<<"check", c>>]
           fresh == {i \in DOMAIN chain : chain[i].tree = c}
<1>1. <<"check", c>> \in Slots /\ PayloadsOf(<<"check", c>>) = Evidence(c)
  BY SlotsAre, PayloadsAre
<1>2. chain \in Seq(Evidence(c))
  BY <1>1 DEF TypeOK
<1>3. Len(chain) \in Nat /\ DOMAIN chain = 1..Len(chain)
  BY <1>2, LenProperties
<1>4. ASSUME NEW i \in DOMAIN chain PROVE chain[i].tree = c
  <2>1. chain[i] \in Evidence(c)
    BY <1>2, <1>3, ElementOfSeq
  <2>2. \E pass : chain[i] = [tree |-> c, pass |-> pass]
    BY <2>1, Zenon DEF Evidence
  <2> QED
    BY <2>2
<1>5. fresh = 1..Len(chain)
  BY <1>3, <1>4
<1>6. CASE chain = <<>>
  BY <1>6 DEF Evidenced
<1>7. CASE \E i \in fresh : chain[i].pass /\ \A j \in fresh : j <= i
  <2>1. PICK i \in fresh : chain[i].pass /\ \A j \in fresh : j <= i
    BY <1>7
  <2>2. n > 0 => n \in fresh
    BY <1>3, <1>5
  <2>3. n > 0 => i \in n..Len(chain)
    BY <1>3, <1>5, <2>1, <2>2
  <2> QED
    BY <2>1, <2>3 DEF Evidenced
<1> QED
  BY <1>6, <1>7 DEF EvidenceAdmits

\* The gates of `promote`.
LEMMA GatesBring ==
  ASSUME TypeOK, Everyone, NEW p \in Procs, PromoteApproval(p) \/ PromoteEvidence(p)
  PROVE  Brings(p)
<1> DEFINE k == proc[p]
<1>1. k \in Locals /\ Sound(k) /\ Call(p) = k.call
  BY DEF Everyone, Call
<1>2. k.call \in CallsOn(Revs) \cup {[op |-> None]} /\ Serves(k.pc, k.call.op)
  BY CallAt DEF Call
<1>3. k.pc \in {"approval", "evidence"}
  BY DEF PromoteApproval, PromoteEvidence, At
<1>4. k.call.op = "promote"
  BY <1>2, <1>3 DEF Serves
<1>5. k.call.on \in Changes
  BY <1>2, <1>4, CallFields
<1>6. (\A t \in k.vetoed : Vetoed(t)) /\ k.checks <= Len(notes[<<"check", k.call.on>>])
  BY <1>1, <1>4 DEF Sound, Remembering
<1>7. CASE Return(p)
  BY <1>7, Returned
<1>8. CASE PromoteApproval(p) /\ Goto(p, "evidence") /\ ~Return(p)
  <2>1. FulfillsOf[k.call.on] = 0 \/ Approved(FulfillsOf[k.call.on])
    BY <1>1, <1>8 DEF PromoteApproval
  <2>2. Authorised(k.call.on, k.vetoed)
    BY <1>6, <2>1 DEF Authorised, Approved
  <2>3. Serves("evidence", k.call.op)
    BY <1>4 DEF Serves
  <2> HIDE DEF k
  <2> QED
    BY <1>1, <1>3, <1>4, <1>8, <2>2, <2>3, WentOn DEF k
<1>9. CASE PromoteEvidence(p) /\ Goto(p, "lease") /\ ~Return(p)
  <2>1. EvidenceAdmits(k.call.on)
    BY <1>1, <1>9 DEF PromoteEvidence
  <2>2. k.checks \in Nat
    BY <1>1, LocalFields
  <2>3. Evidenced(k.call.on, k.checks)
    BY <1>5, <1>6, <2>1, <2>2, AdmittedIsEvidenced
  <2>4. k.pc = "evidence"
    BY <1>9 DEF PromoteEvidence, At
  <2>5. Authorised(k.call.on, k.vetoed)
    BY <1>1, <1>4, <2>4 DEF Sound, Heeding
  <2>6. Serves("lease", k.call.op)
    BY <1>4 DEF Serves
  <2> HIDE DEF k
  <2> QED
    BY <1>1, <1>3, <1>4, <1>9, <2>3, <2>5, <2>6, WentOn DEF k
<1> QED
  BY <1>7, <1>8, <1>9 DEF PromoteApproval, PromoteEvidence

\* The lease on the branch.
LEMMA LeaseBrings ==
  ASSUME TypeOK, Everyone, NEW p \in Procs, Lease(p)
  PROVE  Brings(p)
<1> DEFINE k == proc[p]
           best == IF k.call.op = "spec" THEN k.best ELSE k.call.on
           l == [k EXCEPT !.pc = "move", !.old = branch, !.best = best]
<1>1. k \in Locals /\ Sound(k) /\ k.pc = "lease"
  BY DEF Everyone, Lease, At
<1>2. k.call \in CallsOn(Revs) \cup {[op |-> None]} /\ Serves(k.pc, k.call.op)
  BY CallAt DEF Call
<1>3. proc' = [proc EXCEPT ![p] = l]
  BY <1>1 DEF Lease, Everyone, Locals, Call
<1> HIDE DEF k
<1>4. k.call.op \in {"promote", "force", "spec"}
  BY <1>1, <1>2 DEF Serves
<1>5. k.call.on \in Changes /\ k.best \in Changes \cup {None}
  BY <1>1, <1>2, <1>4, CallFields, LocalFields
<1>6. branch \in Olds /\ "move" \in Pcs
  BY DEF TypeOK, Olds, Pcs
<1>7. best \in Changes \cup {None}
  BY <1>5
<1>8. k.call.op # "spec" => best = k.call.on
  OBVIOUS
<1>9. k.call.op = "spec" => best = k.best
  OBVIOUS
<1> HIDE DEF best
<1>10. l \in Locals
  BY <1>1, <1>6, <1>7 DEF Locals
<1>11. /\ l.pc = "move" /\ l.slot = k.slot /\ l.call = k.call
       /\ l.vetoed = k.vetoed /\ l.checks = k.checks /\ l.best = best /\ l.skipped = k.skipped
  BY <1>1 DEF Locals
<1> HIDE DEF l
<1>12. Serving(l) /\ Charting(l) /\ Walking(l)
  BY <1>4, <1>11 DEF Serving, Serves, Charting, Walking
<1>13. Writing(l)
  BY <1>1, <1>11 DEF Sound, Writing
<1>14. Remembering(l) /\ Heeding(l)
  BY <1>1, <1>11 DEF Sound, Remembering, Heeding
<1>15. Picking(l)
  BY <1>1, <1>8, <1>9, <1>11 DEF Sound, Picking
<1>16. Sound(l)
  BY <1>10, <1>12, <1>13, <1>14, <1>15 DEF Sound
<1> QED
  BY <1>3, <1>16 DEF Brings

\* `spec promote` begins its round of the candidates.
LEMMA PolicyBrings ==
  ASSUME TypeOK, Everyone, NEW p \in Procs, LoadPolicy(p)
  PROVE  Brings(p)
<1> DEFINE k == proc[p]
           l == [k EXCEPT !.pc = "next", !.new = policy, !.cands = Changes]
<1>1. k \in Locals /\ Sound(k) /\ k.pc = "policy"
  BY DEF Everyone, LoadPolicy, At
<1>2. k.call.op = "spec"
  BY <1>1 DEF Sound, Serving, Serves
<1>3. proc' = [proc EXCEPT ![p] = l]
  BY <1>1 DEF LoadPolicy, Everyone, Locals
<1> HIDE DEF k
<1>4. policy \in News
  BY DEF TypeOK, News
<1>5. l \in Locals
  BY <1>1, <1>4 DEF Locals, Pcs
<1>6. /\ l.pc = "next" /\ l.slot = k.slot /\ l.call = k.call
      /\ l.vetoed = k.vetoed /\ l.checks = k.checks /\ l.best = k.best /\ l.skipped = k.skipped
  BY <1>1 DEF Locals
<1> HIDE DEF l
<1>7. Serving(l) /\ Charting(l) /\ Walking(l) /\ Heeding(l)
  BY <1>2, <1>6 DEF Serving, Serves, Charting, Walking, Heeding
<1>8. Writing(l)
  BY <1>1, <1>6 DEF Sound, Writing
<1>9. Remembering(l) /\ Picking(l)
  BY <1>1, <1>6 DEF Sound, Remembering, Picking
<1>10. Sound(l)
  BY <1>5, <1>7, <1>8, <1>9 DEF Sound
<1> QED
  BY <1>3, <1>10 DEF Brings

\* A chain of one change, and what is on it.
LEMMA OneChange ==
  ASSUME NEW c \in Changes
  PROVE  /\ <<c>> \in Seq(Changes) /\ <<c>> # <<>> /\ <<c>> \in Chains
         /\ Range(<<c>>) = {c} /\ Head(<<c>>) = c
<1>1. <<c>> \in Seq(Changes) /\ <<c>> \in Seq(Payloads \cup Changes)
  OBVIOUS
<1> QED
  BY <1>1 DEF Range, Chains

\* One more change on the chain.
LEMMA OneMore ==
  ASSUME NEW chain \in Seq(Changes), chain # <<>>, NEW t \in Changes
  PROVE  /\ Append(chain, t) \in Seq(Changes) /\ Append(chain, t) # <<>>
         /\ Append(chain, t) \in Chains
         /\ Range(Append(chain, t)) = Range(chain) \cup {t}
         /\ Head(Append(chain, t)) = Head(chain)
<1> DEFINE more == Append(chain, t)
<1>1. Len(chain) \in Nat /\ Len(chain) > 0 /\ DOMAIN chain = 1..Len(chain)
  BY EmptySeq, LenProperties
<1>2. /\ more \in Seq(Changes) /\ Len(more) = Len(chain) + 1 /\ DOMAIN more = 1..Len(chain) + 1
      /\ more[Len(chain) + 1] = t /\ \A i \in 1..Len(chain) : more[i] = chain[i]
  BY <1>1, LenProperties
<1>3. more # <<>> /\ Head(more) = Head(chain)
  BY <1>1, <1>2
<1>4. more \in Chains
  BY <1>2, SeqMonotonic DEF Chains
<1> HIDE DEF more
<1>5. Range(more) = Range(chain) \cup {t}
  BY <1>1, <1>2 DEF Range
<1> QED
  BY <1>2, <1>3, <1>4, <1>5 DEF more

\* To the next candidate, or on with the best.
LEMMA NextBrings ==
  ASSUME TypeOK, Everyone, NEW p \in Procs, NextCandidate(p)
  PROVE  Brings(p)
<1> DEFINE k == proc[p]
<1>1. k \in Locals /\ Sound(k) /\ k.pc = "next" /\ Call(p) = k.call
  BY DEF Everyone, NextCandidate, At, Call
<1>2. k.call.op = "spec"
  BY <1>1 DEF Sound, Serving, Serves
<1>3. CASE \E c \in k.cands : proc' = [proc EXCEPT ![p].pc = "walk", ![p].walk = {c},
                                                   ![p].chain = <<c>>, ![p].cands = @ \ {c}]
  <2>1. PICK c \in k.cands : proc' = [proc EXCEPT ![p].pc = "walk", ![p].walk = {c},
                                                  ![p].chain = <<c>>, ![p].cands = @ \ {c}]
    BY <1>3
  <2> DEFINE l == [k EXCEPT !.pc = "walk", !.walk = {c}, !.chain = <<c>>, !.cands = k.cands \ {c}]
  <2>2. proc' = [proc EXCEPT ![p] = l]
    BY <1>1, <2>1 DEF Everyone, Locals
  <2> HIDE DEF k
  <2>3. c \in Changes /\ k.cands \subseteq Changes
    BY <1>1, LocalFields
  <2>4. l \in Locals
    BY <1>1, <2>3, OneChange DEF Locals, Pcs
  <2>5. /\ l.pc = "walk" /\ l.walk = {c} /\ l.chain = <<c>> /\ l.slot = k.slot /\ l.call = k.call
        /\ l.vetoed = k.vetoed /\ l.checks = k.checks /\ l.best = k.best /\ l.skipped = k.skipped
    BY <1>1 DEF Locals
  <2> HIDE DEF l
  <2>6. Serving(l) /\ Charting(l) /\ Heeding(l)
    BY <1>2, <2>5 DEF Serving, Serves, Charting, Heeding
  <2>7. Walking(l)
    BY <2>3, <2>5, OneChange DEF Walking
  <2>8. Writing(l)
    BY <1>1, <2>5 DEF Sound, Writing
  <2>9. Remembering(l) /\ Picking(l)
    BY <1>1, <2>5 DEF Sound, Remembering, Picking
  <2>10. Sound(l)
    BY <2>4, <2>6, <2>7, <2>8, <2>9 DEF Sound
  <2> QED
    BY <2>2, <2>10 DEF Brings
<1>4. CASE Return(p)
  BY <1>4, Returned
<1>5. CASE k.best # None /\ Goto(p, "lease")
  <2>1. Serves("lease", k.call.op)
    BY <1>2 DEF Serves
  <2> HIDE DEF k
  <2> QED
    BY <1>1, <1>2, <1>5, <2>1, WentOn DEF k
<1> QED
  BY <1>3, <1>4, <1>5 DEF NextCandidate

\* One change of the walk over the ancestors.
LEMMA WalkBrings ==
  ASSUME TypeOK, Everyone, NEW p \in Procs, PromotionBlocked(p)
  PROVE  Brings(p)
<1> DEFINE k == proc[p]
<1>1. k \in Locals /\ Sound(k) /\ k.pc = "walk"
  BY DEF Everyone, PromotionBlocked, At
<1>2. k.call.op = "spec"
  BY <1>1 DEF Sound, Serving, Serves
<1>3. PICK t \in k.walk : \/ Disqualify(p)
                          \/ ~ Blocks(t) /\ (Pass(p, t, ParentOf[t]) \/ Pass(p, t, {}))
  BY DEF PromotionBlocked
<1>4. t \in Changes /\ k.walk \subseteq Changes /\ ParentOf[t] \subseteq Changes
  BY <1>1, LocalFields, GovernanceAssumption
<1>5. CASE Disqualify(p)
  <2> DEFINE l == [k EXCEPT !.pc = "next", !.walk = {}, !.chain = <<>>, !.unread = {}]
  <2>1. proc' = [proc EXCEPT ![p] = l]
    BY <1>1, <1>5 DEF Disqualify, Everyone, Locals
  <2> HIDE DEF k
  <2>2. l \in Locals
    <3>1. <<>> \in Chains
      BY DEF Chains
    <3> QED
      BY <1>1, <3>1 DEF Locals, Pcs
  <2>3. /\ l.pc = "next" /\ l.slot = k.slot /\ l.call = k.call
        /\ l.vetoed = k.vetoed /\ l.checks = k.checks /\ l.best = k.best /\ l.skipped = k.skipped
    BY <1>1 DEF Locals
  <2> HIDE DEF l
  <2>4. Serving(l) /\ Charting(l) /\ Heeding(l) /\ Walking(l)
    BY <1>2, <2>3 DEF Serving, Serves, Charting, Heeding, Walking
  <2>5. Writing(l)
    BY <1>1, <2>3 DEF Sound, Writing
  <2>6. Remembering(l) /\ Picking(l)
    BY <1>1, <2>3 DEF Sound, Remembering, Picking
  <2>7. Sound(l)
    BY <2>2, <2>4, <2>5, <2>6 DEF Sound
  <2> QED
    BY <2>1, <2>7 DEF Brings
<1>6. ASSUME NEW parents \in {ParentOf[t], {}}, ~ Blocks(t), Pass(p, t, parents)
      PROVE  Brings(p)
  <2> DEFINE seen == Range(k.chain)
             walk == (k.walk \cup parents) \ (seen \cup {t})
             chain == Append(k.chain, t)
             unread == IF parents = ParentOf[t] THEN k.unread ELSE k.unread \cup {t}
             l == [k EXCEPT !.walk = walk, !.chain = chain, !.unread = unread]
  <2>1. proc' = [proc EXCEPT ![p] = l]
    BY <1>1, <1>6 DEF Pass, Everyone, Locals
  <2> HIDE DEF k
  <2>2. /\ k.chain \in Seq(Changes) /\ k.chain # <<>>
        /\ \A x \in seen \ k.walk : /\ x \notin k.vetoed
                                    /\ x \notin k.unread => ParentOf[x] \subseteq seen \cup k.walk
        /\ seen \cap k.walk = {} \/ (seen = k.walk /\ k.walk = {Head(k.chain)})
    BY <1>1 DEF Sound, Walking
  <2>3. /\ chain \in Seq(Changes) /\ chain # <<>> /\ chain \in Chains
        /\ Range(chain) = seen \cup {t}
    BY <1>4, <2>2, OneMore
  <2>4. t \notin k.vetoed
    BY <1>1, <1>6 DEF Blocks, Sound, Remembering
  <2> HIDE DEF seen, chain
  <2>5. /\ walk \subseteq Changes /\ walk \cap (seen \cup {t}) = {}
        /\ unread \subseteq Changes /\ k.unread \subseteq unread
        /\ t \notin unread => parents = ParentOf[t]
    BY <1>1, <1>4, LocalFields
  <2> HIDE DEF unread
  <2>6. ASSUME NEW x \in seen \cup {t}
        PROVE  /\ x \notin k.vetoed
               /\ x \notin unread => ParentOf[x] \subseteq (seen \cup {t}) \cup walk
    <3>1. CASE x = t
      BY <2>4, <2>5, <3>1
    <3>2. CASE x # t /\ seen \cap k.walk = {}
      BY <2>2, <2>5, <3>2
    <3>3. CASE x # t /\ seen = k.walk /\ k.walk = {Head(k.chain)}
      BY <1>3, <3>3
    <3> QED
      BY <2>2, <3>1, <3>2, <3>3
  <2> HIDE DEF walk
  <2>7. l \in Locals
    BY <1>1, <2>3, <2>5 DEF Locals
  <2>8. /\ l.pc = "walk" /\ l.walk = walk /\ l.chain = chain /\ l.unread = unread
        /\ l.slot = k.slot /\ l.call = k.call
        /\ l.vetoed = k.vetoed /\ l.checks = k.checks /\ l.best = k.best /\ l.skipped = k.skipped
    BY <1>1 DEF Locals
  <2> HIDE DEF l
  <2>9. Serving(l) /\ Charting(l) /\ Heeding(l)
    BY <1>2, <2>8 DEF Serving, Serves, Charting, Heeding
  <2>10. Walking(l)
    BY <2>3, <2>5, <2>6, <2>8 DEF Walking
  <2>11. Writing(l)
    BY <1>1, <2>8 DEF Sound, Writing
  <2>12. Remembering(l) /\ Picking(l)
    BY <1>1, <2>8 DEF Sound, Remembering, Picking
  <2>13. Sound(l)
    BY <2>7, <2>9, <2>10, <2>11, <2>12 DEF Sound
  <2> QED
    BY <2>1, <2>13 DEF Brings
<1> QED
  BY <1>3, <1>5, <1>6

\* A candidate whose walk found no veto.
LEMMA AdmitBrings ==
  ASSUME TypeOK, Everyone, NEW p \in Procs, Admit(p)
  PROVE  Brings(p)
<1> DEFINE k == proc[p]
           c == Head(k.chain)
<1>1. k \in Locals /\ Sound(k) /\ k.pc = "walk" /\ k.walk = {}
  BY DEF Everyone, Admit, At
<1>2. k.call.op = "spec"
  BY <1>1 DEF Sound, Serving, Serves
<1>3. PICK best, skipped :
         /\ proc' = [proc EXCEPT ![p].pc = "next", ![p].chain = <<>>, ![p].unread = {},
                                 ![p].best = best, ![p].skipped = skipped]
         /\ (best = c /\ skipped = k.unread) \/ (best = k.best /\ skipped = k.skipped)
  <2>1. CASE proc' = [proc EXCEPT ![p].pc = "next", ![p].chain = <<>>, ![p].unread = {},
                                  ![p].best = c, ![p].skipped = proc[p].unread]
    BY <2>1
  <2>2. CASE proc' = [proc EXCEPT ![p].pc = "next", ![p].chain = <<>>, ![p].unread = {}]
    <3>1. proc' = [proc EXCEPT ![p].pc = "next", ![p].chain = <<>>, ![p].unread = {},
                               ![p].best = k.best, ![p].skipped = k.skipped]
      BY <1>1, <2>2 DEF Everyone, Locals
    <3> QED
      BY <3>1
  <2> QED
    BY <2>1, <2>2 DEF Admit
<1> DEFINE l == [k EXCEPT !.pc = "next", !.chain = <<>>, !.unread = {}, !.best = best, !.skipped = skipped]
<1>4. proc' = [proc EXCEPT ![p] = l]
  BY <1>1, <1>3 DEF Everyone, Locals
<1> HIDE DEF k
<1> DEFINE seen == Range(k.chain)
<1>5. /\ k.chain \in Seq(Changes) /\ k.chain # <<>>
      /\ \A x \in seen : x \notin k.vetoed /\ (x \notin k.unread => ParentOf[x] \subseteq seen)
  BY <1>1 DEF Sound, Walking
<1>6. c \in seen /\ seen \subseteq Changes /\ c \in Changes
  <2>1. Len(k.chain) \in Nat \ {0} /\ DOMAIN k.chain = 1..Len(k.chain)
    BY <1>5, EmptySeq, LenProperties
  <2>2. \A i \in 1..Len(k.chain) : k.chain[i] \in Changes
    BY <1>5, ElementOfSeq
  <2>3. c = k.chain[1] /\ 1 \in 1..Len(k.chain)
    BY <1>5, <2>1
  <2> QED
    BY <2>1, <2>2, <2>3 DEF Range
<1> HIDE DEF seen, c
<1>7. Ancestors(c, k.unread) \cap k.vetoed = {}
  <2>1. Closed(seen, k.unread)
    BY <1>5 DEF Closed
  <2>2. Ancestors(c, k.unread) \subseteq seen
    BY <1>6, <2>1 DEF Ancestors
  <2> QED
    BY <1>5, <2>2
<1>8. best \in Changes \cup {None} /\ skipped \subseteq Changes
  BY <1>1, <1>3, <1>6, LocalFields
<1>9. <<>> \in Chains
  BY DEF Chains
<1>10. l \in Locals
  BY <1>1, <1>8, <1>9 DEF Locals, Pcs
<1>11. /\ l.pc = "next" /\ l.slot = k.slot /\ l.call = k.call
       /\ l.vetoed = k.vetoed /\ l.checks = k.checks /\ l.best = best /\ l.skipped = skipped
  BY <1>1 DEF Locals
<1> HIDE DEF l
<1>12. Serving(l) /\ Charting(l) /\ Heeding(l) /\ Walking(l)
  BY <1>2, <1>11 DEF Serving, Serves, Charting, Heeding, Walking
<1>13. Writing(l)
  BY <1>1, <1>11 DEF Sound, Writing
<1>14. Remembering(l)
  BY <1>1, <1>11 DEF Sound, Remembering
<1>15. Picking(l)
  BY <1>1, <1>2, <1>3, <1>7, <1>11 DEF Sound, Picking
<1>16. Sound(l)
  BY <1>10, <1>12, <1>13, <1>14, <1>15 DEF Sound
<1> QED
  BY <1>4, <1>16 DEF Brings

-----------------------------------------------------------------------------
(* The steps, by what they change.                                          *)

\* The chain it is writing to, if there is one, stays the same.
Holds(p) == proc[p].slot = <<>> \/ proc'[p].slot = proc[p].slot

Quiet(p) ==
    Brings(p) /\ Holds(p) /\ UNCHANGED <<refs, history, crashes>> /\ calls' \in 0..MaxCalls

Writes(p) ==
    \/ AddSwap(p) \/ AttachArtifact(p) \/ PrincipalSwap(p) \/ ReviseSwap(p) \/ PolicySwap(p)
    \/ Move(p) \/ Crash(p)

\* A step moves one verb on, writes one ref or collects.
LEMMA NextCases ==
  ASSUME IInv, [Next]_vars
  PROVE  \/ \E p \in Procs : Quiet(p) \/ Writes(p)
         \/ Collect
         \/ UNCHANGED vars
<1>1. TypeOK /\ Everyone /\ ChartKept /\ calls \in 0..MaxCalls /\ MaxCalls \in Nat
  BY GovernanceAssumption DEF IInv, TypeOK
<1>0. ASSUME NEW p \in Procs, proc[p].pc \notin {"tip", "swap"} PROVE Holds(p)
  BY <1>0, <1>1 DEF Everyone, Sound, Writing, Holds
<1>2. ASSUME NEW p \in Procs, Verb(p) PROVE Quiet(p)
  <2>1. ASSUME NEW c \in Calls, NEW pc, Begin(p, c, pc)
        PROVE  calls < MaxCalls /\ calls' = calls + 1 /\ crashes' = crashes /\ proc[p].pc = "idle"
    BY <2>1 DEF Begin, At
  <2>2. calls < MaxCalls /\ calls' = calls + 1 /\ crashes' = crashes /\ proc[p].pc = "idle"
    BY <1>2, <2>1
       DEF Verb, cmdAttest, cmdPrincipal, cmdCheck, cmdSpecPromote, cmdPromote, attestPolicy, assertAdd,
           assertPromote, toolReportBlocked, blockedWiden, ticketsRevise, ticketsScope,
           ticketsComment, ticketsAttachArtifact, Of
  <2>3. calls' \in 0..MaxCalls
    BY <1>1, <2>2
  <2> QED
    BY <1>0, <1>1, <1>2, <2>2, <2>3, VerbBrings DEF Quiet
<1>3. ASSUME NEW p \in Procs,
             \/ Attest(p) \/ ClaimPromote(p) \/ ClaimAdd(p) \/ Check(p) \/ ReportBlocked(p)
             \/ Widen(p) \/ SetScope(p) \/ Comment(p)
      PROVE  Quiet(p)
  <2>1. UNCHANGED <<refs, calls, crashes, history>> /\ proc[p].pc \notin {"tip", "swap"}
    BY <1>3 DEF Attest, ClaimPromote, ClaimAdd, Check, ReportBlocked, Widen, SetScope, Comment, At
  <2> QED
    BY <1>0, <1>1, <1>3, <2>1, NotesBring DEF Quiet
<1>4. ASSUME NEW p \in Procs, AddTip(p) PROVE Quiet(p)
  <2>1. Holds(p)
    BY <1>1, <1>4 DEF AddTip, Holds, Everyone, Locals
  <2> QED
    BY <1>1, <1>4, <2>1, TipBrings DEF AddTip, Quiet
<1>5. ASSUME NEW p \in Procs, PrincipalOld(p) \/ PrincipalEntries(p) PROVE Quiet(p)
  BY <1>0, <1>1, <1>5, PrincipalBrings DEF PrincipalOld, PrincipalEntries, At, Quiet
<1>6. ASSUME NEW p \in Procs, ReviseHead(p) \/ PolicyRead(p) PROVE Quiet(p)
  BY <1>0, <1>1, <1>6, BaseBrings DEF ReviseHead, PolicyRead, At, Quiet
<1>7. ASSUME NEW p \in Procs, PromoteApproval(p) \/ PromoteEvidence(p) PROVE Quiet(p)
  BY <1>0, <1>1, <1>7, GatesBring DEF PromoteApproval, PromoteEvidence, At, Quiet
<1>8. ASSUME NEW p \in Procs, Lease(p) PROVE Quiet(p)
  BY <1>0, <1>1, <1>8, LeaseBrings DEF Lease, At, Quiet
<1>9. ASSUME NEW p \in Procs, LoadPolicy(p) PROVE Quiet(p)
  BY <1>0, <1>1, <1>9, PolicyBrings DEF LoadPolicy, At, Quiet
<1>10. ASSUME NEW p \in Procs, NextCandidate(p) PROVE Quiet(p)
  BY <1>0, <1>1, <1>10, NextBrings DEF NextCandidate, At, Quiet
<1>11. ASSUME NEW p \in Procs, PromotionBlocked(p) PROVE Quiet(p)
  BY <1>0, <1>1, <1>11, WalkBrings DEF PromotionBlocked, At, Quiet
<1>12. ASSUME NEW p \in Procs, Admit(p) PROVE Quiet(p)
  BY <1>0, <1>1, <1>12, AdmitBrings DEF Admit, At, Quiet
<1> QED
  BY <1>2, <1>3, <1>4, <1>5, <1>6, <1>7, <1>8, <1>9, <1>10, <1>11, <1>12 DEF Next, Writes

\* What a swap of notes.Add does to the chain, if it succeeds.
LEMMA AppendGrows ==
  ASSUME NEW S, NEW chain \in Seq(S), NEW e \in S
  PROVE  /\ Append(chain, e) \in Seq(S) /\ Append(chain, e) # <<>>
         /\ Len(chain) \in Nat /\ Len(Append(chain, e)) = Len(chain) + 1
         /\ \A i \in 1..Len(chain) : Append(chain, e)[i] = chain[i]
         /\ Append(chain, e)[Len(chain) + 1] = e
OBVIOUS

\* The verbs' refs and histories only grow, but for what the store loses to a collection.
Grew ==
    /\ \A s \in Slots : /\ Len(notes[s]) <= Len(notes'[s])
                        /\ \A i \in 1..Len(notes[s]) : notes'[s][i] = notes[s][i]
    /\ Len(updates) <= Len(updates') /\ \A i \in 1..Len(updates) : updates'[i] = updates[i]

\* A chain is a sequence of the slot's payloads.
LEMMA NotesAreSeqs ==
  ASSUME TypeOK, NEW s \in Slots
  PROVE  /\ Len(notes[s]) \in Nat /\ DOMAIN notes[s] = 1..Len(notes[s])
         /\ notes[s] = <<>> <=> Len(notes[s]) = 0
         /\ \A i \in 1..Len(notes[s]) : notes[s][i] \in PayloadsOf(s)
BY LenProperties, EmptySeq, ElementOfSeq DEF TypeOK

\* AddSwap adds one note or none.
LEMMA SwapGrows ==
  ASSUME IInv, NEW p \in Procs, AddSwap(p)
  PROVE  \/ notes' = notes /\ Return(p)
         \/ /\ Pin(p) /\ DOMAIN notes' = Slots /\ proc[p].slot \in Slots /\ proc[p].pc = "swap"
            /\ notes'[proc[p].slot] = Append(notes[proc[p].slot], proc[p].pay)
            /\ notes[proc[p].slot] \in Seq(PayloadsOf(proc[p].slot))
            /\ proc[p].pay \in PayloadsOf(proc[p].slot)
            /\ \A s \in Slots \ {proc[p].slot} : notes'[s] = notes[s]
<1> DEFINE k == proc[p]
<1>1. k.pc = "swap" /\ Sound(k)
  BY DEF IInv, Everyone, AddSwap, At
<1>2. k.slot \in Slots /\ k.pay \in PayloadsOf(k.slot)
  BY <1>1 DEF Sound, Writing
<1>3. DOMAIN notes = Slots /\ notes[k.slot] \in Seq(PayloadsOf(k.slot))
  BY <1>2 DEF IInv, TypeOK
<1> QED
  BY <1>1, <1>2, <1>3 DEF AddSwap

\* Notes and updates of the chart are only ever added.
LEMMA NextGrew ==
  ASSUME IInv, [Next]_vars
  PROVE  Grew
<1>1. \A s \in Slots : Len(notes[s]) \in Nat
  BY NotesAreSeqs DEF IInv
<1>2. Len(updates) \in Nat
  BY LenProperties DEF IInv, ChartKept
<1>3. ASSUME notes' = notes, updates' = updates PROVE Grew
  BY <1>1, <1>2, <1>3 DEF Grew
<1>4. ASSUME NEW p \in Procs, AddSwap(p) PROVE Grew
  <2> DEFINE k == proc[p]
  <2>1. updates' = updates
    BY <1>4 DEF AddSwap, history
  <2>2. CASE notes' = notes
    BY <1>3, <2>1, <2>2
  <2>3. CASE /\ notes'[k.slot] = Append(notes[k.slot], k.pay)
             /\ notes[k.slot] \in Seq(PayloadsOf(k.slot)) /\ k.pay \in PayloadsOf(k.slot)
             /\ \A s \in Slots \ {k.slot} : notes'[s] = notes[s]
    <3>1. ASSUME NEW s \in Slots
          PROVE  /\ Len(notes[s]) <= Len(notes'[s])
                 /\ \A i \in 1..Len(notes[s]) : notes'[s][i] = notes[s][i]
      <4>1. CASE s = k.slot
        BY <2>3, <4>1, AppendGrows
      <4>2. CASE s # k.slot
        BY <1>1, <2>3, <4>2
      <4> QED
        BY <4>1, <4>2
    <3> QED
      BY <1>2, <2>1, <3>1 DEF Grew
  <2> QED
    BY <1>4, <2>2, <2>3, SwapGrows
<1>5. ASSUME NEW p \in Procs, PrincipalSwap(p) PROVE Grew
  <2> DEFINE u == [call |-> Call(p), chart |-> proc[p].new]
  <2>1. notes' = notes
    BY <1>5 DEF PrincipalSwap
  <2>2. CASE updates' = Append(updates, u)
    <3>1. updates \in Seq(Updates \cup {u})
      BY SeqMonotonic DEF IInv, ChartKept
    <3> HIDE DEF u
    <3>2. Len(updates') = Len(updates) + 1 /\ \A i \in 1..Len(updates) : updates'[i] = updates[i]
      BY <2>2, <3>1, AppendGrows
    <3> QED
      BY <1>1, <1>2, <2>1, <3>2 DEF Grew
  <2>3. CASE updates' = updates
    BY <1>3, <2>1, <2>3
  <2> QED
    BY <1>5, <2>2, <2>3 DEF PrincipalSwap
<1>6. ASSUME NEW p \in Procs, \/ AttachArtifact(p) \/ ReviseSwap(p) \/ PolicySwap(p) \/ Move(p) \/ Crash(p)
      PROVE  Grew
  BY <1>3, <1>6 DEF AttachArtifact, ReviseSwap, PolicySwap, Move, Crash, history, refs
<1>7. ASSUME NEW p \in Procs, Quiet(p) PROVE Grew
  BY <1>3, <1>7 DEF Quiet, refs, history
<1>8. CASE Collect \/ UNCHANGED vars
  BY <1>3, <1>8 DEF Collect, vars, refs, history
<1> QED
  BY <1>4, <1>5, <1>6, <1>7, <1>8, NextCases DEF Writes

\* What a promotion is about.
LEMMA MoveFields ==
  ASSUME IInv, NEW p \in Procs, proc[p].pc = "move"
  PROVE  /\ Call(p).op \in {"promote", "force", "spec"} /\ proc[p].best \in Changes
         /\ Call(p).op # "spec" => proc[p].best = Call(p).on
         /\ proc[p].vetoed \subseteq Revs \cup Changes /\ proc[p].checks \in Nat
         /\ proc[p].skipped \subseteq Changes
<1> DEFINE k == proc[p]
<1>1. k \in Locals /\ Sound(k) /\ Call(p) = k.call /\ k.pc = "move"
  BY DEF IInv, Everyone, Call
<1>2. k.call \in CallsOn(Revs) \cup {[op |-> None]} /\ k.call.op \in {"promote", "force", "spec"}
  BY <1>1, CallAt DEF IInv, Call, Serves
<1>3. k.call.on \in Changes
  BY <1>2, CallFields
<1>4. /\ k.best \in Changes \cup {None} /\ k.vetoed \subseteq Revs \cup Changes /\ k.checks \in Nat
      /\ k.skipped \subseteq Changes
  BY <1>1, LocalFields
<1>5. (k.call.op = "spec" => k.best # None) /\ (k.call.op # "spec" => k.best = k.call.on)
  BY <1>1 DEF Sound, Picking
<1> QED
  BY <1>1, <1>2, <1>3, <1>4, <1>5

\* The chart to be swapped in.
LEMMA NewChart ==
  ASSUME IInv, NEW p \in Procs, proc[p].pc = "chartSwap"
  PROVE  proc[p].new \in Charts /\ Call(p) \in CallsOn(Revs) /\ Call(p).op = "principal"
<1> DEFINE k == proc[p]
<1>1. k \in Locals /\ Sound(k) /\ Call(p) = k.call /\ k.pc = "chartSwap"
  BY DEF IInv, Everyone, Call
<1>2. k.call \in CallsOn(Revs) \cup {[op |-> None]} /\ k.call.op = "principal"
  BY <1>1, CallAt DEF IInv, Call, Serves
<1>3. k.call \in CallsOn(Revs)
  BY <1>2 DEF None
<1>4. PICK b \in 0..Len(updates) : k.new = Mutate(k.call, ChartAt(b))
  BY <1>1 DEF Sound, Charting
<1>5. ChartAt(b) \in Charts
  <2>1. updates \in Seq(Updates) /\ Len(updates) \in Nat
    BY LenProperties DEF IInv, ChartKept
  <2>2. CASE b = 0
    BY <2>2 DEF ChartAt, Charts
  <2>3. CASE b # 0
    <3>1. updates[b] \in Updates
      BY <2>1, <2>3, ElementOfSeq
    <3> QED
      BY <2>3, <3>1 DEF ChartAt, Updates
  <2> QED
    BY <2>2, <2>3
<1>6. k.new \in Charts
  BY <1>2, <1>4, <1>5, CallFields, MutateTyped
<1> QED
  BY <1>1, <1>2, <1>3, <1>6

\* The state stays well formed.
LEMMA NextTypeOK == IInv /\ [Next]_vars => TypeOK'
<1> SUFFICES ASSUME IInv, [Next]_vars PROVE TypeOK'
  OBVIOUS
<1>1. TypeOK
  BY DEF IInv
<1>2. /\ MaxCrashes \in Nat /\ MaxRevs \in Nat
  BY GovernanceAssumption
<1>3. ASSUME NEW p \in Procs, Quiet(p) PROVE TypeOK'
  BY <1>1, <1>3 DEF Quiet, refs, history, TypeOK
<1>4. ASSUME NEW p \in Procs, AddSwap(p) PROVE TypeOK'
  <2> DEFINE k == proc[p]
  <2>1. UNCHANGED <<chart, head, branch, policy, objs, calls, crashes, history>>
    BY <1>4 DEF AddSwap
  <2>2. CASE notes' = notes
    BY <1>1, <2>1, <2>2 DEF TypeOK, history
  <2>3. CASE /\ DOMAIN notes' = Slots /\ notes'[k.slot] = Append(notes[k.slot], k.pay)
             /\ notes[k.slot] \in Seq(PayloadsOf(k.slot)) /\ k.pay \in PayloadsOf(k.slot)
             /\ \A s \in Slots \ {k.slot} : notes'[s] = notes[s]
    <3>1. ASSUME NEW s \in Slots PROVE notes'[s] \in Seq(PayloadsOf(s))
      <4>1. Append(notes[k.slot], k.pay) \in Seq(PayloadsOf(k.slot))
        BY <2>3, AppendGrows
      <4>2. CASE s = k.slot
        BY <2>3, <4>1, <4>2
      <4>3. CASE s # k.slot
        BY <1>1, <2>3, <4>3 DEF TypeOK
      <4> QED
        BY <4>2, <4>3
    <3> QED
      BY <1>1, <2>1, <2>3, <3>1 DEF TypeOK, history
  <2> QED
    BY <1>4, <2>2, <2>3, SwapGrows
<1>5. ASSUME NEW p \in Procs, AttachArtifact(p) PROVE TypeOK'
  BY <1>1, <1>5 DEF AttachArtifact, TypeOK, history
<1>6. ASSUME NEW p \in Procs, PrincipalSwap(p) PROVE TypeOK'
  <2>1. chart' \in Charts
    BY <1>1, <1>6, NewChart DEF PrincipalSwap, At, TypeOK
  <2> QED
    BY <1>1, <1>6, <2>1 DEF PrincipalSwap, TypeOK
<1>7. ASSUME NEW p \in Procs, ReviseSwap(p) PROVE TypeOK'
  <2>1. head' \in Revs
    BY <1>1, <1>2, <1>7 DEF ReviseSwap, TypeOK, Revs
  <2> QED
    BY <1>1, <1>7, <2>1 DEF ReviseSwap, TypeOK, history
<1>8. ASSUME NEW p \in Procs, PolicySwap(p) PROVE TypeOK'
  <2>1. Call(p) \in CallsOn(Revs) \cup {[op |-> None]} /\ Call(p).op = "policy"
    BY <1>8, CallAt DEF IInv, PolicySwap, At, Serves
  <2>2. Call(p).set \in BOOLEAN
    BY <2>1, CallFields
  <2>3. policy' = Call(p).set \/ policy' = policy
    BY <1>8, Zenon DEF PolicySwap
  <2>4. policy' \in BOOLEAN
    BY <1>1, <2>2, <2>3, Zenon DEF TypeOK
  <2> QED
    BY <1>1, <1>8, <2>4 DEF PolicySwap, TypeOK, history
<1>9. ASSUME NEW p \in Procs, Move(p) PROVE TypeOK'
  <2>1. /\ Call(p).op \in {"promote", "force", "spec"} /\ proc[p].best \in Changes
        /\ proc[p].vetoed \subseteq Revs \cup Changes /\ proc[p].checks \in Nat
        /\ proc[p].skipped \subseteq Changes
    BY <1>9, MoveFields DEF Move, At
  <2>2. branch' \in Changes \cup {None}
    BY <1>1, <1>9, <2>1 DEF Move, TypeOK
  <2>3. moves' \subseteq moves \cup {[op |-> Call(p).op, change |-> proc[p].best,
                                      vetoed |-> proc[p].vetoed, checks |-> proc[p].checks,
                                      unread |-> proc[p].skipped]}
    BY <1>9 DEF Move
  <2>4. moves' \subseteq [op : {"promote", "force", "spec"}, change : Changes,
                          vetoed : SUBSET (Revs \cup Changes), checks : Nat, unread : SUBSET Changes]
    BY <1>1, <2>1, <2>3 DEF TypeOK
  <2> QED
    BY <1>1, <1>9, <2>2, <2>4 DEF Move, TypeOK
<1>10. ASSUME NEW p \in Procs, Crash(p) PROVE TypeOK'
  BY <1>1, <1>2, <1>10 DEF Crash, TypeOK, refs
<1>11. CASE Collect \/ UNCHANGED vars
  BY <1>1, <1>11 DEF Collect, TypeOK, vars, refs, history
<1> QED
  BY <1>3, <1>4, <1>5, <1>6, <1>7, <1>8, <1>9, <1>10, <1>11, NextCases DEF Writes

-----------------------------------------------------------------------------
(* What a verb knows stays true while others write.                         *)

\* A veto stays, and so do an approval, a piece of evidence and a state of the chart.
LEMMA ReadsStay ==
  ASSUME IInv, TypeOK', ChartKept', Grew
  PROVE  /\ \A t \in Revs \cup Changes : Vetoed(t) => Vetoed(t)'
         /\ \A c \in Changes, vs \in SUBSET (Revs \cup Changes) : Authorised(c, vs) => Authorised(c, vs)'
         /\ \A c \in Changes, n \in Nat : Evidenced(c, n) => Evidenced(c, n)'
         /\ \A i \in 0..Len(updates) : ChartAt(i)' = ChartAt(i)
         /\ Len(updates) \in Nat /\ Len(updates') \in Nat
<1>1. Len(updates) \in Nat /\ Len(updates') \in Nat
  BY LenProperties DEF IInv, ChartKept
<1>2. \A s \in Slots : /\ Len(notes[s]) \in Nat /\ DOMAIN notes[s] = 1..Len(notes[s])
                       /\ Len(notes'[s]) \in Nat /\ DOMAIN notes'[s] = 1..Len(notes'[s])
                       /\ Len(notes[s]) <= Len(notes'[s])
                       /\ \A i \in 1..Len(notes[s]) : notes'[s][i] = notes[s][i]
  BY LenProperties DEF IInv, TypeOK, Grew
<1>3. \A s \in Slots : Range(notes[s]) \subseteq Range(notes'[s])
  BY <1>2 DEF Range
<1>4. ASSUME NEW t \in Revs \cup Changes PROVE Atts(t) \subseteq Atts(t)'
  BY <1>3, SlotsAre DEF Atts
<1>5. ASSUME NEW t \in Revs \cup Changes, Vetoed(t) PROVE Vetoed(t)'
  BY <1>4, <1>5 DEF Vetoed
<1>6. ASSUME NEW c \in Changes, NEW vs \in SUBSET (Revs \cup Changes), Authorised(c, vs)
      PROVE  Authorised(c, vs)'
  <2>1. FulfillsOf[c] # 0 => FulfillsOf[c] \in Revs
    BY GovernanceAssumption DEF Revs
  <2> QED
    BY <1>4, <1>6, <2>1 DEF Authorised
<1>7. ASSUME NEW c \in Changes, NEW n \in Nat, Evidenced(c, n) PROVE Evidenced(c, n)'
  <2>1. <<"check", c>> \in Slots
    BY SlotsAre
  <2>2. CASE n = 0
    BY <2>2 DEF Evidenced
  <2>3. CASE n > 0
    <3>1. PICK i \in n..Len(notes[<<"check", c>>]) : notes[<<"check", c>>][i].pass
      BY <1>7, <2>3 DEF Evidenced
    <3>2. i \in n..Len(notes'[<<"check", c>>]) /\ i \in 1..Len(notes[<<"check", c>>])
      BY <1>2, <2>1, <2>3, <3>1
    <3>3. notes'[<<"check", c>>][i] = notes[<<"check", c>>][i]
      BY <1>2, <2>1, <3>2
    <3>4. notes'[<<"check", c>>][i].pass
      BY <3>1, <3>3, Zenon
    <3> QED
      BY <3>2, <3>4 DEF Evidenced
  <2> QED
    BY <2>2, <2>3
<1>8. ASSUME NEW i \in 0..Len(updates) PROVE ChartAt(i)' = ChartAt(i)
  <2>1. CASE i = 0
    BY <2>1 DEF ChartAt
  <2>2. CASE i # 0
    <3>1. updates'[i] = updates[i]
      BY <1>1, <2>2 DEF Grew
    <3> QED
      BY <2>2, <3>1 DEF ChartAt
  <2> QED
    BY <2>1, <2>2
<1> QED
  BY <1>1, <1>5, <1>6, <1>7, <1>8

\* So a verb that makes no step stays sound, whoever else does, unless the artifact it is about
\* to list has gone.
LEMMA StaysSound ==
  ASSUME IInv, TypeOK', ChartKept', Grew, NEW l, Sound(l),
         l.pc \in {"tip", "swap"} => objs \subseteq objs'
  PROVE  Sound(l)'
<1>1. l \in Locals /\ Serving(l) /\ Walking(l) /\ Picking(l)
  BY DEF Sound
<1>2. (l \in Locals)' /\ Serving(l)' /\ Walking(l)' /\ Picking(l)'
  BY <1>1 DEF Serving, Walking, Picking
<1>3. /\ l.vetoed \subseteq Revs \cup Changes /\ l.checks \in Nat
      /\ l.call \in CallsOn(Revs) \cup {[op |-> None]}
  BY <1>1, LocalFields DEF Made
<1>4. l.call.op = "promote" => l.call.on \in Changes
  BY <1>3, CallFields
<1>5. Writing(l)'
  <2>1. ASSUME l.pc = "swap", l.chain # <<>> PROVE notes'[l.slot] # <<>>
    <3>1. l.slot \in Slots /\ notes[l.slot] # <<>>
      BY <2>1 DEF Sound, Writing
    <3>2. Len(notes[l.slot]) \in Nat /\ Len(notes[l.slot]) # 0 /\ Len(notes[l.slot]) <= Len(notes'[l.slot])
      BY <3>1, NotesAreSeqs DEF IInv, Grew
    <3>3. Len(notes'[l.slot]) # 0
      BY <3>1, <3>2, LenProperties DEF TypeOK
    <3> QED
      BY <3>3, EmptySeq
  <2> QED
    BY <2>1 DEF Sound, Writing
<1>6. Charting(l)'
  <2>1. /\ \A i \in 0..Len(updates) : ChartAt(i)' = ChartAt(i)
        /\ \A i \in 0..Len(updates) : i \in 0..Len(updates')
    <3>1. Len(updates) <= Len(updates')
      BY DEF Grew
    <3> QED
      BY <3>1, ReadsStay
  <2>2. ASSUME l.pc = "entries" PROVE \E a \in 0..Len(updates') : l.old = ChartAt(a)'
    BY <2>1, <2>2 DEF Sound, Charting
  <2>3. ASSUME l.pc = "chartSwap"
        PROVE  \E a, b \in 0..Len(updates') :
                  a <= b /\ l.old = ChartAt(a)' /\ l.new = Mutate(l.call, ChartAt(b)')
    BY <2>1, <2>3 DEF Sound, Charting
  <2> QED
    BY <2>2, <2>3 DEF Charting, Mutate
<1>7. Remembering(l)'
  <2>1. \A t \in l.vetoed : Vetoed(t)'
    BY <1>3, ReadsStay DEF Sound, Remembering
  <2>2. ASSUME l.call.op = "promote" PROVE l.checks <= Len(notes'[<<"check", l.call.on>>])
    <3>1. <<"check", l.call.on>> \in Slots
      BY <1>4, <2>2, SlotsAre
    <3>2. /\ Len(notes[<<"check", l.call.on>>]) \in Nat /\ Len(notes'[<<"check", l.call.on>>]) \in Nat
          /\ Len(notes[<<"check", l.call.on>>]) <= Len(notes'[<<"check", l.call.on>>])
      BY <3>1, LenProperties DEF IInv, TypeOK, Grew
    <3> QED
      BY <1>3, <2>2, <3>2 DEF Sound, Remembering
  <2> QED
    BY <2>1, <2>2 DEF Remembering
<1>8. Heeding(l)'
  BY <1>3, <1>4, ReadsStay DEF Sound, Heeding
<1> QED
  BY <1>2, <1>5, <1>6, <1>7, <1>8 DEF Sound

-----------------------------------------------------------------------------
(* The chart.                                                               *)

\* What a swap of the chart records.
LEMMA ChartSwaps ==
  ASSUME IInv, NEW p \in Procs, PrincipalSwap(p), chart = proc[p].old
  PROVE  \E a, b \in 0..Len(updates) :
            /\ a <= b /\ ChartAt(a) = ChartAt(Len(updates)) /\ Len(updates) \in Nat
            /\ Len(updates') = Len(updates) + 1
            /\ updates' \in Seq(Updates)
            /\ updates'[Len(updates) + 1].chart = chart'
            /\ updates'[Len(updates) + 1].call = Call(p)
            /\ chart' = Mutate(Call(p), ChartAt(b))
<1> DEFINE k == proc[p]
           u == [call |-> Call(p), chart |-> k.new]
<1>1. k.pc = "chartSwap" /\ Sound(k) /\ Call(p) = k.call
  BY DEF IInv, Everyone, PrincipalSwap, At, Call
<1>2. PICK a, b \in 0..Len(updates) :
         a <= b /\ k.old = ChartAt(a) /\ k.new = Mutate(k.call, ChartAt(b))
  BY <1>1 DEF Sound, Charting
<1>3. chart' = k.new /\ updates' = Append(updates, u)
  BY DEF PrincipalSwap
<1>4. u \in Updates
  BY <1>1, NewChart DEF Updates
<1>5. u.chart = k.new /\ u.call = Call(p)
  OBVIOUS
<1> HIDE DEF u, k
<1>6. updates \in Seq(Updates) /\ chart = ChartAt(Len(updates))
  BY DEF IInv, ChartKept
<1>7. /\ Len(updates') = Len(updates) + 1 /\ Len(updates) \in Nat
      /\ updates' \in Seq(Updates)
      /\ updates'[Len(updates) + 1] = u
  BY <1>3, <1>4, <1>6, AppendGrows
<1> QED
  BY <1>1, <1>2, <1>3, <1>5, <1>6, <1>7 DEF k

\* Who does not swap the chart leaves it, and its history, alone.
LEMMA ChartStays ==
  ASSUME IInv, [Next]_vars,
         ~\E p \in Procs : PrincipalSwap(p) /\ chart = proc[p].old
  PROVE  UNCHANGED <<chart, updates>>
<1>1. ASSUME NEW p \in Procs, Quiet(p) PROVE UNCHANGED <<chart, updates>>
  BY <1>1 DEF Quiet, refs, history
<1>2. ASSUME NEW p \in Procs, Writes(p) PROVE UNCHANGED <<chart, updates>>
  BY <1>2 DEF Writes, AddSwap, AttachArtifact, PrincipalSwap, ReviseSwap, PolicySwap, Move, Crash,
              refs, history
<1>3. CASE Collect \/ UNCHANGED vars
  BY <1>3 DEF Collect, vars, refs, history
<1> QED
  BY <1>1, <1>2, <1>3, NextCases

\* The chart is what the last update made it.
LEMMA NextChartKept == IInv /\ [Next]_vars => ChartKept'
<1> SUFFICES ASSUME IInv, [Next]_vars PROVE ChartKept'
  OBVIOUS
<1>1. CASE \E p \in Procs : PrincipalSwap(p) /\ chart = proc[p].old
  <2>1. /\ Len(updates') = Len(updates) + 1 /\ Len(updates) \in Nat /\ updates' \in Seq(Updates)
        /\ updates'[Len(updates) + 1].chart = chart'
    BY <1>1, ChartSwaps
  <2>2. ChartAt(Len(updates))' = chart'
    BY <2>1 DEF ChartAt
  <2> QED
    BY <2>1, <2>2 DEF ChartKept
<1>2. CASE UNCHANGED <<chart, updates>>
  BY <1>2 DEF IInv, ChartKept, ChartAt
<1> QED
  BY <1>1, <1>2, ChartStays

\* The charts there have been, by the number of updates: the form the proofs use.
ChartsApart == \A i, j \in 0..Len(updates) : ChartAt(i) = ChartAt(j) => i = j
UpdatesSerial == \A i \in 1..Len(updates) : updates[i].chart = Mutate(updates[i].call, ChartAt(i - 1))

\* The property says what that form does.
LEMMA ChartSerialForm ==
  ASSUME ChartKept
  PROVE  ChartSerial <=> (ChartsApart => UpdatesSerial)
<1> DEFINE none == [k \in Keys |-> None]
           later == [i \in DOMAIN updates |-> updates[i].chart]
           charts == <<none>> \o later
<1>1. Len(updates) \in Nat /\ DOMAIN updates = 1..Len(updates)
  BY LenProperties DEF ChartKept
<1>2. \A i \in 1..Len(updates) : updates[i] \in Updates
  BY ElementOfSeq DEF ChartKept
<1>3. \A i \in 1..Len(updates) : updates[i].chart \in Charts
  BY <1>2 DEF Updates
<1>4. later \in Seq(Charts) /\ Len(later) = Len(updates)
  BY <1>1, <1>3
<1>5. <<none>> \in Seq(Charts) /\ Len(<<none>>) = 1
  <2>1. none \in Charts
    BY DEF Charts
  <2> QED
    BY <2>1
<1>6. \A i \in 1..Len(updates) : later[i] = updates[i].chart
  BY <1>1
<1> HIDE DEF later
<1>7. charts \in Seq(Charts) /\ Len(charts) = Len(updates) + 1
  BY <1>1, <1>4, <1>5, ConcatProperties
<1>8. ASSUME NEW i \in 1..Len(updates) + 1 PROVE charts[i] = ChartAt(i - 1)
  <2>1. charts[i] = IF i <= 1 THEN <<none>>[i] ELSE later[i - 1]
    BY <1>1, <1>4, <1>5, ConcatProperties
  <2>2. CASE i = 1
    BY <2>1, <2>2 DEF ChartAt
  <2>3. CASE i # 1
    <3>1. i - 1 \in 1..Len(updates) /\ i - 1 # 0 /\ ~(i <= 1)
      BY <1>1, <2>3
    <3>2. charts[i] = updates[i - 1].chart
      BY <1>6, <2>1, <3>1
    <3> QED
      BY <3>1, <3>2 DEF ChartAt
  <2> QED
    BY <2>2, <2>3
<1>9. DOMAIN charts = 1..Len(updates) + 1
  BY <1>7, LenProperties
<1> DEFINE Apart == \A i, j \in DOMAIN charts : charts[i] = charts[j] => i = j
           Serial == \A i \in DOMAIN updates : updates[i].chart = Mutate(updates[i].call, Before(i))
<1>10. ChartSerial <=> (Apart => Serial)
  BY DEF ChartSerial, later
<1> HIDE DEF charts
<1>11. Apart <=> ChartsApart
  <2>1. ASSUME Apart, NEW i \in 0..Len(updates), NEW j \in 0..Len(updates), ChartAt(i) = ChartAt(j)
        PROVE  i = j
    <3>1. i + 1 \in 1..Len(updates) + 1 /\ j + 1 \in 1..Len(updates) + 1
      BY <1>1
    <3>2. charts[i + 1] = ChartAt((i + 1) - 1) /\ charts[j + 1] = ChartAt((j + 1) - 1)
      BY <1>8, <3>1
    <3>3. charts[i + 1] = charts[j + 1]
      <4>1. (i + 1) - 1 = i /\ (j + 1) - 1 = j
        BY <1>1
      <4> QED
        BY <2>1, <3>2, <4>1
    <3>4. i + 1 = j + 1
      BY <1>9, <2>1, <3>1, <3>3
    <3> QED
      BY <1>1, <3>4
  <2>2. ASSUME ChartsApart, NEW i \in DOMAIN charts, NEW j \in DOMAIN charts, charts[i] = charts[j]
        PROVE  i = j
    <3>1. i - 1 \in 0..Len(updates) /\ j - 1 \in 0..Len(updates) /\ i \in Int /\ j \in Int
      BY <1>1, <1>9
    <3>2. ChartAt(i - 1) = ChartAt(j - 1)
      BY <1>8, <1>9, <2>2
    <3>3. i - 1 = j - 1
      BY <2>2, <3>1, <3>2 DEF ChartsApart
    <3> QED
      BY <3>1, <3>3
  <2> QED
    BY <2>1, <2>2 DEF ChartsApart
<1>12. Serial <=> UpdatesSerial
  <2>1. ASSUME NEW i \in 1..Len(updates) PROVE Before(i) = ChartAt(i - 1)
    BY <1>1 DEF Before, ChartAt
  <2> QED
    BY <1>1, <2>1 DEF UpdatesSerial
<1> QED
  BY <1>10, <1>11, <1>12

\* A change to the chart that is swapped in was made to the chart that was there, unless a
\* chart came back: the two reads of the ref saw the same update.
LEMMA NextChartSerial ==
  ASSUME IInv, [Next]_vars, Grew, TypeOK', ChartKept'
  PROVE  ChartSerial'
<1>1. (ChartsApart => UpdatesSerial) /\ Len(updates) \in Nat
  BY ChartSerialForm, LenProperties DEF IInv, ChartKept
<1>2. SUFFICES ASSUME ChartsApart' PROVE UpdatesSerial'
  BY ChartSerialForm, PTL
<1>3. \A i \in 0..Len(updates) : ChartAt(i)' = ChartAt(i)
  BY ReadsStay
<1>4. CASE \E p \in Procs : PrincipalSwap(p) /\ chart = proc[p].old
  <2> DEFINE n == Len(updates)
  <2>1. PICK p \in Procs : PrincipalSwap(p) /\ chart = proc[p].old
    BY <1>4
  <2>2. PICK a, b \in 0..n :
            /\ a <= b /\ ChartAt(a) = ChartAt(n)
            /\ Len(updates') = n + 1
            /\ updates'[n + 1].chart = chart'
            /\ updates'[n + 1].call = Call(p)
            /\ chart' = Mutate(Call(p), ChartAt(b))
    BY <2>1, ChartSwaps
  <2>3. ASSUME NEW i \in 0..n, NEW j \in 0..n, ChartAt(i) = ChartAt(j) PROVE i = j
    <3>1. i \in 0..Len(updates') /\ j \in 0..Len(updates') /\ ChartAt(i)' = ChartAt(j)'
      BY <1>1, <1>3, <2>2, <2>3
    <3> QED
      BY <1>2, <3>1 DEF ChartsApart
  <2>4. UpdatesSerial
    BY <1>1, <2>3 DEF ChartsApart
  <2>5. a = n /\ b = n
    BY <1>1, <2>2, <2>3
  <2>6. ASSUME NEW i \in 1..Len(updates')
        PROVE  updates'[i].chart = Mutate(updates'[i].call, ChartAt(i - 1)')
    <3>1. CASE i = n + 1
      <4>1. i - 1 = n /\ n \in 0..Len(updates)
        BY <1>1, <3>1
      <4>2. ChartAt(i - 1)' = ChartAt(n)
        BY <1>3, <4>1
      <4> QED
        BY <2>2, <2>5, <3>1, <4>2
    <3>2. CASE i # n + 1
      <4>1. i \in 1..n /\ i - 1 \in 0..n
        BY <1>1, <2>2, <3>2
      <4>2. updates'[i] = updates[i] /\ ChartAt(i - 1)' = ChartAt(i - 1)
        BY <1>3, <4>1 DEF Grew
      <4> QED
        BY <2>4, <4>1, <4>2 DEF UpdatesSerial
    <3> QED
      BY <3>1, <3>2
  <2> QED
    BY <2>6 DEF UpdatesSerial, Mutate
<1>5. CASE UNCHANGED <<chart, updates>>
  BY <1>1, <1>2, <1>5 DEF ChartsApart, UpdatesSerial, ChartAt
<1> QED
  BY <1>4, <1>5, ChartStays

-----------------------------------------------------------------------------
(* The verbs.                                                               *)

\* One verb moves on; the others stay where they are.
LEMMA EveryoneStays ==
  ASSUME IInv, TypeOK', ChartKept', Grew, NEW p \in Procs, NEW l, Sound(l)',
         proc' = [proc EXCEPT ![p] = l],
         \A q \in Procs \ {p} : proc[q].pc \in {"tip", "swap"} => objs \subseteq objs'
  PROVE  Everyone'
<1>1. proc \in [Procs -> Locals]
  BY DEF IInv, Everyone
<1>2. l \in Locals
  BY DEF Sound
<1>3. proc' \in [Procs -> Locals]
  BY <1>1, <1>2
<1>4. ASSUME NEW q \in Procs PROVE Sound(proc[q])'
  <2>1. CASE q = p
    <3>1. proc'[q] = l
      BY <1>1, <2>1
    <3> QED
      BY <3>1
  <2>2. CASE q # p
    <3>1. PICK m : m = proc[q]
      OBVIOUS
    <3>2. Sound(m) /\ (m.pc \in {"tip", "swap"} => objs \subseteq objs')
      BY <2>2, <3>1 DEF IInv, Everyone
    <3>3. Sound(m)'
      BY <3>2, StaysSound
    <3>4. proc'[q] = m
      BY <1>1, <2>2, <3>1
    <3> QED
      BY <3>3, <3>4
  <2> QED
    BY <2>1, <2>2
<1> QED
  BY <1>3, <1>4 DEF Everyone

\* A verb that only reads, or returns.
LEMMA EveryoneAfter ==
  ASSUME IInv, TypeOK', ChartKept', Grew, NEW p \in Procs, Brings(p), objs' = objs
  PROVE  Everyone'
<1>1. PICK l : Sound(l) /\ proc' = [proc EXCEPT ![p] = l]
  BY DEF Brings
<1>2. Sound(l)'
  BY <1>1, StaysSound
<1> QED
  BY <1>1, <1>2, EveryoneStays

\* After its swap, notes.Add returns or goes on to the pin of the artifact.
LEMMA PinBrings ==
  ASSUME IInv, NEW p \in Procs, AddSwap(p)
  PROVE  /\ Brings(p)
         /\ notes' # notes /\ proc[p].slot[1] = "artifacts" => proc'[p].slot = PinSlot
<1> DEFINE k == proc[p]
<1>1. k.pc = "swap" /\ Sound(k) /\ k \in Locals
  BY DEF IInv, Everyone, AddSwap, At
<1>2. k.slot \in Slots /\ k.pay \in PayloadsOf(k.slot)
  BY <1>1 DEF Sound, Writing
<1>3. CASE Return(p) /\ notes' = notes
  BY <1>3, Returned
<1>4. CASE Pin(p)
  <2>1. CASE k.slot[1] = "artifacts"
    <3>1. k.pay = Artifact
      BY <1>2, <2>1 DEF PayloadsOf
    <3>2. Add(p, PinSlot, Ticket)
      BY <1>4, <2>1, <3>1 DEF Pin, PinSlot
    <3>3. PinSlot \in Slots /\ Ticket \in PayloadsOf(PinSlot) /\ PinSlot[1] # "artifacts"
      BY SlotsAre, PayloadsAre DEF PinSlot
    <3>4. Brings(p)
      BY <3>2, <3>3, Added DEF IInv
    <3>5. proc'[p].slot = PinSlot
      BY <1>1, <3>2 DEF Add, IInv, Everyone, Locals
    <3> QED
      BY <3>4, <3>5
  <2>2. CASE k.slot[1] # "artifacts"
    BY <1>4, <2>2, Returned DEF Pin
  <2> QED
    BY <2>1, <2>2
<1> QED
  BY <1>3, <1>4 DEF AddSwap

\* Whoever steps has what it should, and the others keep it.
LEMMA NextEveryone ==
  ASSUME IInv, [Next]_vars, TypeOK', ChartKept', Grew
  PROVE  Everyone'
<1>1. ASSUME NEW p \in Procs, Quiet(p) PROVE Everyone'
  BY <1>1, EveryoneAfter DEF Quiet, refs
<1>2. ASSUME NEW p \in Procs, AddSwap(p) PROVE Everyone'
  BY <1>2, PinBrings, EveryoneAfter DEF AddSwap
<1>3. ASSUME NEW p \in Procs, PrincipalSwap(p) \/ ReviseSwap(p) \/ PolicySwap(p) \/ Move(p) \/ Crash(p)
      PROVE  Everyone'
  <2>1. Return(p) /\ objs' = objs
    BY <1>3 DEF PrincipalSwap, ReviseSwap, PolicySwap, Move, Crash, refs
  <2> QED
    BY <2>1, Returned, EveryoneAfter
<1>4. ASSUME NEW p \in Procs, AttachArtifact(p) PROVE Everyone'
  <2> DEFINE slot == <<"artifacts", Ticket>>
  <2>1. PICK k : k = proc[p]
    OBVIOUS
  <2> DEFINE m == Adding(k, slot, Artifact)
  <2>2. k \in Locals /\ Sound(k) /\ k.pc = "put"
    BY <1>4, <2>1 DEF IInv, Everyone, AttachArtifact, At
  <2>3. proc' = [proc EXCEPT ![p] = m]
    BY <1>4, <2>1, <2>2 DEF AttachArtifact, Add, Adding, IInv, Everyone, Locals
  <2>4. slot \in Slots /\ Artifact \in PayloadsOf(slot)
    BY SlotsAre, PayloadsAre
  <2>5. objs' = objs \cup {Artifact}
    BY <1>4 DEF AttachArtifact
  <2>6. Sound(k)'
    BY <2>2, <2>5, StaysSound
  <2> HIDE DEF slot
  <2>7. m \in Locals
    BY <2>2, <2>4 DEF Adding, Locals, Pcs, Payloads
  <2>8. /\ m.pc = "tip" /\ m.slot = slot /\ m.pay = Artifact
        /\ m.call = k.call /\ m.vetoed = k.vetoed /\ m.checks = k.checks /\ m.best = k.best
        /\ m.skipped = k.skipped
    BY <2>2 DEF Adding, Locals
  <2> HIDE DEF m
  <2>9. Serving(m)' /\ Charting(m)' /\ Heeding(m)' /\ Walking(m)'
    BY <2>8 DEF Serving, Serves, Charting, Heeding, Walking
  <2>10. Writing(m)'
    BY <2>4, <2>5, <2>8 DEF Writing
  <2>11. Remembering(m)' /\ Picking(m)'
    BY <2>6, <2>8 DEF Sound, Remembering, Picking
  <2>12. Sound(m)'
    BY <2>7, <2>9, <2>10, <2>11 DEF Sound
  <2> QED
    BY <2>3, <2>5, <2>12, EveryoneStays
<1>5. ASSUME proc' = proc, \A q \in Procs : proc[q].pc \in {"tip", "swap"} => objs \subseteq objs'
      PROVE  Everyone'
  <2>1. ASSUME NEW q \in Procs PROVE Sound(proc[q])'
    <3>1. PICK m : m = proc[q]
      OBVIOUS
    <3>2. Sound(m) /\ (m.pc \in {"tip", "swap"} => objs \subseteq objs')
      BY <1>5, <3>1 DEF IInv, Everyone
    <3>3. Sound(m)' /\ proc'[q] = m
      BY <1>5, <3>1, <3>2, StaysSound
    <3> QED
      BY <3>3
  <2> QED
    BY <1>5, <2>1 DEF IInv, Everyone
<1>6. CASE Collect
  <2>1. proc' = proc /\ \A q \in Procs : proc[q].pc = "idle"
    BY <1>6 DEF Collect, At
  <2> QED
    BY <1>5, <2>1
<1>7. CASE UNCHANGED vars
  BY <1>5, <1>7 DEF vars, refs
<1> QED
  BY <1>1, <1>2, <1>3, <1>4, <1>6, <1>7, NextCases DEF Writes

-----------------------------------------------------------------------------
(* Artifacts.                                                               *)

\* Who does not write the chain of the artifacts, or of the pin, leaves it alone; who writes
\* the one goes on to the other; who fails to write the pin finds it written.
LEMMA ArtifactSwaps ==
  ASSUME IInv, NEW p \in Procs, AddSwap(p)
  PROVE  /\ attachedRefIDs(Ticket)' # attachedRefIDs(Ticket) =>
              proc[p].slot[1] = "artifacts" /\ Artifact \in objs /\ proc'[p].slot = PinSlot
         /\ proc[p].slot = PinSlot => notes'[PinSlot] # <<>>
         /\ notes[PinSlot] # <<>> => notes'[PinSlot] # <<>>
<1> DEFINE k == proc[p]
<1>1. k.pc = "swap" /\ Sound(k)
  BY DEF IInv, Everyone, AddSwap, At
<1>2. /\ k.slot \in Slots /\ (k.slot[1] = "artifacts" => Artifact \in objs)
      /\ k.chain # <<>> => notes[k.slot] # <<>>
  BY <1>1 DEF Sound, Writing
<1>3. CASE notes' = notes
  <2>1. attachedRefIDs(Ticket)' = attachedRefIDs(Ticket)
    BY <1>3 DEF attachedRefIDs
  <2>2. ASSUME k.slot = PinSlot, notes[PinSlot] = <<>> PROVE FALSE
    <3>1. notes[k.slot] = k.chain
      BY <1>2, <2>2
    <3>2. notes'[k.slot] = Append(notes[k.slot], k.pay)
      BY <1>2, <3>1 DEF AddSwap, IInv, TypeOK
    <3>3. notes[k.slot] \in Seq(PayloadsOf(k.slot)) /\ k.pay \in PayloadsOf(k.slot)
      BY <1>1, <1>2 DEF IInv, TypeOK, Sound, Writing
    <3> QED
      BY <1>3, <2>2, <3>2, <3>3, AppendGrows
  <2> QED
    BY <1>3, <2>1, <2>2
<1>4. CASE notes' # notes
  <2>1. /\ notes'[k.slot] = Append(notes[k.slot], k.pay)
        /\ notes[k.slot] \in Seq(PayloadsOf(k.slot)) /\ k.pay \in PayloadsOf(k.slot)
        /\ \A s \in Slots \ {k.slot} : notes'[s] = notes[s]
    BY <1>4, SwapGrows
  <2>2. notes'[k.slot] # <<>>
    BY <2>1, AppendGrows
  <2>3. <<"artifacts", Ticket>> \in Slots /\ PinSlot \in Slots
    BY SlotsAre
  <2>4. ASSUME attachedRefIDs(Ticket)' # attachedRefIDs(Ticket) PROVE k.slot = <<"artifacts", Ticket>>
    BY <2>1, <2>3, <2>4 DEF attachedRefIDs
  <2>5. notes[PinSlot] # <<>> => notes'[PinSlot] # <<>>
    BY <2>1, <2>2, <2>3
  <2> QED
    BY <1>2, <1>4, <2>2, <2>4, <2>5, PinBrings
<1> QED
  BY <1>3, <1>4

\* Other steps leave both chains alone.
LEMMA ArtifactsStay ==
  ASSUME IInv, [Next]_vars, ~\E p \in Procs : AddSwap(p)
  PROVE  notes' = notes /\ attachedRefIDs(Ticket)' = attachedRefIDs(Ticket)
<1>1. ASSUME NEW p \in Procs, Quiet(p) PROVE notes' = notes
  BY <1>1 DEF Quiet, refs
<1>2. ASSUME NEW p \in Procs, Writes(p) PROVE notes' = notes
  BY <1>2 DEF Writes, AttachArtifact, PrincipalSwap, ReviseSwap, PolicySwap, Move, Crash, refs
<1>3. ASSUME Collect \/ UNCHANGED vars PROVE notes' = notes
  BY <1>3 DEF Collect, vars, refs
<1> QED
  BY <1>1, <1>2, <1>3, NextCases DEF attachedRefIDs

\* While all are idle nobody is about to pin an artifact.
LEMMA CollectsUnpinned ==
  ASSUME IInv, Collect, Artifact \in attachedRefIDs(Ticket)
  PROVE  Artifact \in torn
<1>1. notes[PinSlot] = <<>> /\ \A p \in Procs : proc[p].pc = "idle"
  BY DEF Collect, At, PinSlot
<1>2. \A p \in Procs : proc[p].slot = <<>>
  BY <1>1 DEF IInv, Everyone, Sound, Writing
<1>3. PinSlot # <<>>
  BY DEF PinSlot
<1> QED
  BY <1>1, <1>2, <1>3 DEF IInv, Pinned

\* An artifact that is listed is stored.
LEMMA NextListed == IInv /\ [Next]_vars => Listed'
<1> SUFFICES ASSUME IInv, [Next]_vars, Artifact \in attachedRefIDs(Ticket)' PROVE Artifact \in objs' \cup torn'
  BY DEF Listed
<1>1. ASSUME NEW p \in Procs, AddSwap(p) PROVE Artifact \in objs' \cup torn'
  <2>1. objs' = objs /\ torn' = torn
    BY <1>1 DEF AddSwap, history
  <2> QED
    BY <1>1, <2>1, ArtifactSwaps DEF IInv, Listed
<1>2. CASE ~\E p \in Procs : AddSwap(p)
  <2>1. Artifact \in attachedRefIDs(Ticket)
    BY <1>2, ArtifactsStay
  <2>2. Artifact \in objs \cup torn
    BY <2>1 DEF IInv, Listed
  <2>3. ASSUME NEW p \in Procs, Quiet(p) PROVE Artifact \in objs' \cup torn'
    BY <2>2, <2>3 DEF Quiet, refs, history
  <2>4. ASSUME NEW p \in Procs, Writes(p) PROVE Artifact \in objs' \cup torn'
    BY <1>2, <2>2, <2>4 DEF Writes, AttachArtifact, PrincipalSwap, ReviseSwap, PolicySwap, Move, Crash,
                            refs, history
  <2>5. CASE Collect
    BY <2>1, <2>5, CollectsUnpinned DEF Collect, history
  <2>6. CASE UNCHANGED vars
    BY <2>2, <2>6 DEF vars, refs, history
  <2> QED
    BY <2>3, <2>4, <2>5, <2>6, NextCases
<1> QED
  BY <1>1, <1>2

\* An artifact that is listed is pinned, or about to be.
LEMMA NextPinned ==
  ASSUME IInv, [Next]_vars, Everyone'
  PROVE  Pinned'
<1> SUFFICES ASSUME Artifact \in attachedRefIDs(Ticket)'
             PROVE  \/ notes'[PinSlot] # <<>> \/ Artifact \in torn'
                    \/ \E q \in Procs : proc'[q].slot = PinSlot
  BY DEF Pinned, PinSlot
<1>0. proc \in [Procs -> Locals] /\ PinSlot # <<>>
  BY DEF IInv, Everyone, PinSlot
<1>1. ASSUME NEW p \in Procs, AddSwap(p), Artifact \in attachedRefIDs(Ticket)
      PROVE  notes'[PinSlot] # <<>> \/ Artifact \in torn' \/ \E q \in Procs : proc'[q].slot = PinSlot
  <2>1. torn' = torn
    BY <1>1 DEF AddSwap, history
  <2>2. ASSUME NEW q \in Procs \ {p} PROVE proc'[q] = proc[q]
    <3>1. PICK l : proc' = [proc EXCEPT ![p] = l]
      BY <1>1, PinBrings DEF Brings
    <3> QED
      BY <1>0, <3>1
  <2>3. \/ notes[PinSlot] # <<>> \/ Artifact \in torn
        \/ \E q \in Procs : proc[q].slot = PinSlot
    BY <1>1 DEF IInv, Pinned
  <2> QED
    BY <1>1, <2>1, <2>2, <2>3, ArtifactSwaps
<1>2. ASSUME NEW p \in Procs, AddSwap(p), Artifact \notin attachedRefIDs(Ticket)
      PROVE  \E q \in Procs : proc'[q].slot = PinSlot
  BY <1>2, ArtifactSwaps
<1>3. CASE ~\E p \in Procs : AddSwap(p)
  <2>1. notes' = notes /\ Artifact \in attachedRefIDs(Ticket)
    BY <1>3, ArtifactsStay
  <2>2. \/ notes[PinSlot] # <<>> \/ Artifact \in torn
        \/ \E q \in Procs : proc[q].slot = PinSlot
    BY <2>1 DEF IInv, Pinned
  <2>3. torn \subseteq torn'
    <3>1. ASSUME NEW p \in Procs, Quiet(p) PROVE torn' = torn
      BY <3>1 DEF Quiet, history
    <3>2. ASSUME NEW p \in Procs, Writes(p) PROVE torn \subseteq torn'
      BY <1>3, <3>2 DEF Writes, AttachArtifact, PrincipalSwap, ReviseSwap, PolicySwap, Move, Crash, history
    <3>3. CASE Collect \/ UNCHANGED vars
      BY <3>3 DEF Collect, vars, history
    <3> QED
      BY <3>1, <3>2, <3>3, NextCases
  <2>4. ASSUME NEW q \in Procs, proc[q].slot = PinSlot
        PROVE  Artifact \in torn' \/ proc'[q].slot = PinSlot
    <3>1. proc[q].pc \in {"tip", "swap"}
      BY <1>0, <2>4 DEF IInv, Everyone, Sound, Writing
    <3>2. ASSUME NEW p \in Procs, Quiet(p) PROVE proc'[q].slot = PinSlot
      <4>1. CASE p = q
        BY <1>0, <2>4, <3>2, <4>1 DEF Quiet, Holds
      <4>2. CASE p # q
        <5>1. PICK l : proc' = [proc EXCEPT ![p] = l]
          BY <3>2 DEF Quiet, Brings
        <5> QED
          BY <1>0, <2>4, <4>2, <5>1
      <4> QED
        BY <4>1, <4>2
    <3>3. ASSUME NEW p \in Procs, Writes(p) PROVE Artifact \in torn' \/ proc'[q].slot = PinSlot
      <4>1. CASE Crash(p)
        BY <4>1 DEF Crash
      <4>2. CASE ~Crash(p)
        <5>1. proc[p].pc \notin {"tip", "swap"}
          BY <1>3, <3>3, <4>2 DEF Writes, AttachArtifact, PrincipalSwap, ReviseSwap, PolicySwap, Move, At
        <5>2. p # q
          BY <3>1, <5>1
        <5>3. proc'[q] = proc[q]
          BY <1>0, <1>3, <3>3, <4>2, <5>2
             DEF Writes, AttachArtifact, PrincipalSwap, ReviseSwap, PolicySwap, Move, Return, Add
        <5> QED
          BY <2>4, <5>3
      <4> QED
        BY <4>1, <4>2
    <3>4. CASE Collect \/ UNCHANGED vars
      BY <2>4, <3>4 DEF Collect, vars
    <3> QED
      BY <3>2, <3>3, <3>4, NextCases
  <2> QED
    BY <2>1, <2>2, <2>3, <2>4
<1> QED
  BY <1>1, <1>2, <1>3

-----------------------------------------------------------------------------
(* Promotions.                                                              *)

\* What each promotion has to have heeded: PromotionHeeds, one promotion at a time.
Heeds(m) ==
    /\ m.op = "promote" => Authorised(m.change, m.vetoed) /\ Evidenced(m.change, m.checks)
    /\ m.op = "spec" => Ancestors(m.change, m.unread) \cap m.vetoed = {}

\* The property says what that form does.
LEMMA HeedsForm == PromotionHeeds <=> \A m \in moves : Heeds(m)
BY DEF PromotionHeeds, Heeds, Authorised, Evidenced

\* A promotion is recorded with what its verb has heeded, and stays so.
LEMMA NextPromotionHeeds ==
  ASSUME IInv, [Next]_vars, TypeOK', ChartKept', Grew
  PROVE  PromotionHeeds'
<1> DEFINE Moves == [op : {"promote", "force", "spec"}, change : Changes,
                     vetoed : SUBSET (Revs \cup Changes), checks : Nat, unread : SUBSET Changes]
<1>1. \A m \in moves : Heeds(m)
  BY HeedsForm DEF IInv
<1>2. ASSUME NEW m \in Moves, Heeds(m) PROVE Heeds(m)'
  <2>1. m.change \in Changes /\ m.vetoed \in SUBSET (Revs \cup Changes) /\ m.checks \in Nat
    OBVIOUS
  <2> HIDE DEF Moves
  <2> QED
    BY <1>2, <2>1, ReadsStay DEF Heeds
<1>3. moves \subseteq Moves /\ moves' \subseteq Moves
  BY DEF IInv, TypeOK
<1> HIDE DEF Moves
<1>4. SUFFICES \A m \in moves' \ moves : Heeds(m)
  <2>1. \A m \in moves' : Heeds(m)'
    BY <1>1, <1>2, <1>3, <1>4
  <2> QED
    BY <2>1 DEF PromotionHeeds, Heeds, Authorised, Evidenced
<1>5. ASSUME NEW p \in Procs, Move(p) PROVE \A m \in moves' \ moves : Heeds(m)
  <2> DEFINE k == proc[p]
             m == [op |-> Call(p).op, change |-> k.best, vetoed |-> k.vetoed, checks |-> k.checks,
                   unread |-> k.skipped]
  <2>1. k.pc = "move" /\ Sound(k) /\ Call(p) = k.call
    BY <1>5 DEF IInv, Everyone, Move, At, Call
  <2>2. moves' \subseteq moves \cup {m}
    BY <1>5 DEF Move
  <2>3. /\ k.call.op # "spec" => k.best = k.call.on
        /\ k.call.op = "spec" => k.best # None
    BY <2>1 DEF Sound, Picking
  <2>4. k.call.op = "promote" => Authorised(k.call.on, k.vetoed) /\ Evidenced(k.call.on, k.checks)
    BY <2>1 DEF Sound, Heeding
  <2>5. k.call.op = "spec" => Ancestors(k.best, k.skipped) \cap k.vetoed = {}
    BY <2>1, <2>3 DEF Sound, Picking
  <2>6. /\ m.op = k.call.op /\ m.change = k.best /\ m.vetoed = k.vetoed /\ m.checks = k.checks
        /\ m.unread = k.skipped
    BY <2>1
  <2> HIDE DEF m, k
  <2>7. Heeds(m)
    BY <2>3, <2>4, <2>5, <2>6 DEF Heeds
  <2> QED
    BY <2>2, <2>7
<1>6. ASSUME NEW p \in Procs, Quiet(p) PROVE moves' = moves
  BY <1>6 DEF Quiet, history
<1>7. ASSUME NEW p \in Procs, Writes(p), ~Move(p) PROVE moves' = moves
  BY <1>7 DEF Writes, AddSwap, AttachArtifact, PrincipalSwap, ReviseSwap, PolicySwap, Crash, history
<1>8. ASSUME Collect \/ UNCHANGED vars PROVE moves' = moves
  BY <1>8 DEF Collect, vars, history
<1> QED
  BY <1>5, <1>6, <1>7, <1>8, NextCases DEF Writes

-----------------------------------------------------------------------------
(* The theorems.                                                            *)

\* The invariant holds at the start.
LEMMA InitIInv == Init => IInv
<1> SUFFICES ASSUME Init PROVE IInv
  OBVIOUS
<1>1. TypeOK
  <2>1. \A s \in Slots : notes[s] = <<>> /\ <<>> \in Seq(PayloadsOf(s))
    BY DEF Init
  <2>2. DOMAIN notes = Slots
    BY DEF Init
  <2>3. chart \in Charts /\ head \in Revs
    BY GovernanceAssumption DEF Init, Charts, Revs
  <2>4. calls \in 0..MaxCalls /\ crashes \in 0..MaxCrashes
    BY GovernanceAssumption DEF Init
  <2> QED
    BY <2>1, <2>2, <2>3, <2>4 DEF Init, TypeOK
<1>2. Everyone
  BY IdleIsLocal, IdleSound DEF Init, Everyone
<1>3. attachedRefIDs(Ticket) = {}
  BY SlotsAre DEF Init, attachedRefIDs, Range
<1>4. Listed /\ Pinned
  BY <1>3 DEF Listed, Pinned
<1>5. updates = <<>> /\ Len(updates) = 0 /\ DOMAIN updates = {}
  BY DEF Init
<1>6. ChartKept
  BY <1>5 DEF Init, ChartKept, ChartAt
<1>7. ChartSerial
  BY <1>5 DEF ChartSerial
<1>8. PromotionHeeds
  BY DEF Init, PromotionHeeds
<1> QED
  BY <1>1, <1>2, <1>4, <1>6, <1>7, <1>8 DEF IInv

\* The invariant holds in every state the verbs can bring about.
THEOREM Invariance == Spec => []IInv
<1>1. IInv /\ [Next]_vars => IInv'
  <2> SUFFICES ASSUME IInv, [Next]_vars PROVE IInv'
    OBVIOUS
  <2>1. TypeOK' /\ ChartKept' /\ Grew
    BY NextTypeOK, NextChartKept, NextGrew
  <2>2. Everyone' /\ ChartSerial' /\ PromotionHeeds' /\ Listed'
    BY <2>1, NextEveryone, NextChartSerial, NextPromotionHeeds, NextListed
  <2>3. Pinned'
    BY <2>2, NextPinned
  <2> QED
    BY <2>1, <2>2, <2>3 DEF IInv
<1> QED
  BY <1>1, InitIInv, PTL DEF Spec

\* An artifact that a ticket lists is in the store (ticket/artifact.go Artifacts), whatever
\* collections and other verbs run, unless the verb that attached it was killed between its
\* two notes: it is pinned before a collection can run.
THEOREM ListedArtifactsStay == Spec => []ArtifactsReadable
<1>1. IInv => ArtifactsReadable
  <2> SUFFICES ASSUME IInv PROVE ArtifactsReadable
    OBVIOUS
  <2>1. <<"artifacts", Ticket>> \in Slots /\ PayloadsOf(<<"artifacts", Ticket>>) = {Artifact}
    BY SlotsAre, PayloadsAre
  <2>2. attachedRefIDs(Ticket) \subseteq {Artifact}
    BY <2>1, NotesAreSeqs DEF IInv, attachedRefIDs, Range
  <2> QED
    BY <2>2 DEF IInv, Listed, ArtifactsReadable
<1> QED
  BY <1>1, Invariance, PTL

\* What was decided before a promotion began binds it: no interleaving of decisions, evidence
\* and promotions lets `promote` past a veto, without a strong approval or on evidence that
\* failed last, nor `spec promote` past a veto on the change or on an ancestor it reaches through
\* changes it could read; behind one it could not, a veto is not seen (attest/status.go:149-155).
THEOREM PromotionsHeed == Spec => []PromotionHeeds
BY Invariance, PTL DEF IInv

\* The org chart is the outcome of its updates one after another although each reads the ref
\* twice, as long as no chart comes back that had been there before.
THEOREM ChartUpdatesSerial == Spec => []ChartSerial
BY Invariance, PTL DEF IInv

\* No note is ever lost or replaced, whatever verbs race for a chain.
THEOREM NotesNeverLost == Spec => NotesOnlyGrow
<1>1. IInv /\ [Next]_vars => [\A s \in Slots : IsPrefix(notes[s], notes'[s])]_notes
  <2> SUFFICES ASSUME IInv, [Next]_vars, NEW s \in Slots PROVE IsPrefix(notes[s], notes'[s])
    OBVIOUS
  <2>1. TypeOK /\ TypeOK' /\ Grew
    BY NextTypeOK, NextGrew DEF IInv
  <2> DEFINE old == notes[s]
             new == notes'[s]
             P == PayloadsOf(s)
  <2>2. /\ old \in Seq(P) /\ new \in Seq(P) /\ Len(old) \in Nat /\ Len(new) \in Nat
        /\ Len(old) <= Len(new) /\ \A i \in 1..Len(old) : new[i] = old[i]
    BY <2>1, LenProperties DEF TypeOK, Grew
  <2> HIDE DEF old, new, P
  <2>3. SubSeq(old, 1, Len(old)) = SubSeq(new, 1, Len(old))
    BY <2>2
  <2> QED
    BY <2>2, <2>3 DEF IsPrefix, old, new
<1> QED
  BY <1>1, Invariance, PTL DEF Spec, NotesOnlyGrow

=============================================================================
