----------------------------- MODULE Governance -----------------------------
(***************************************************************************)
(* Decisions and the promotions that depend on them: attestations (package  *)
(* attest), the org chart (principal), a ticket and what is attached to it  *)
(* (ticket, idchain, deps, blocked, assertion), check evidence (check), and *)
(* the two verbs that move a branch, `promote` and `spec promote`.          *)
(*                                                                          *)
(* Every verb is a process of its own.  It reads refs, decides, and swaps   *)
(* one ref at a time; others run between any two of its reads and swaps,    *)
(* and it may be killed there.  Almost everything is a note: a chain per    *)
(* namespace and target, whose ref is swapped once (notes.Add).  Refs are   *)
(* the atomic registers of RefRegister.  Signatures verify.                 *)
(***************************************************************************)
EXTENDS Naturals, Sequences, FiniteSets, SequencesExt

CONSTANTS
    Procs,       \* people and agents at work
    Calls,       \* the calls they may make: records, see Begin
    Keys,        \* signing keys
    Changes,     \* proposed changes, the candidates of one task
    ParentOf,    \* ParentOf[c]: the changes c is based on
    FulfillsOf,  \* FulfillsOf[c]: the revision c implements, 0 for none
    ScoreOf,     \* ScoreOf[c]: its score, distinct numbers
    Ticket, Artifact, Claim,  \* the ticket, an artifact, an asserted edge
    Scopes,      \* what a revision may declare and an agent may ask for
    MaxRevs,     \* bound: revisions of the ticket
    MaxCalls,    \* bound: calls made
    MaxAsides,   \* bound: calls after which only verbs about decisions begin
    MaxCrashes    \* bound: verbs killed

ASSUME GovernanceAssumption ==
    /\ ParentOf \in [Changes -> SUBSET Changes]
    /\ FulfillsOf \in [Changes -> 0..MaxRevs]
    /\ ScoreOf \in [Changes -> Nat]
    /\ \A c, d \in Changes : ScoreOf[c] = ScoreOf[d] => c = d
    /\ MaxRevs \in Nat \ {0} /\ MaxCalls \in Nat /\ MaxAsides \in Nat /\ MaxCrashes \in Nat

None == "none"
Kinds == {"human", "bridge"}     \* an agent is bound by the rules of a human
Strengths == {"weak", "strong"}  \* delegated is to these rules what strong is not
Charts == [Keys -> Kinds \cup {None}]
Revs == 1..MaxRevs

\* The verbs and their arguments, where the ticket may be named by a member of T.
CallsOn(T) ==
    [op : {"attest"}, key : Keys, dec : {"approve", "veto"}, str : Strengths, on : T \cup Changes]
    \cup [op : {"principal"}, key : Keys, kind : Kinds \cup {None}]
    \cup [op : {"check", "promote", "force", "spec"}, on : Changes]
    \cup [op : {"revise", "comment", "artifact", "claim", "widen"}, on : T]
    \cup [op : {"blocked", "scope"}, on : T, scope : Scopes]
    \cup [op : {"policy"}, on : {None}, set : BOOLEAN]
    \cup [op : {"claimPromote"}, on : {Claim}, key : Keys, str : Strengths]

ASSUME CallsAssumption == Calls \subseteq CallsOn({Ticket}) /\ Ticket \notin Changes \cup {None, Claim}

\* A note chain is named by its namespace and its target.
Slots == ({"attest"} \X (Revs \cup Changes \cup {Claim})) \cup ({"check"} \X Changes)
         \cup ({"blocked", "scope"} \X Revs) \cup ({"artifacts", "discussion", "edges"} \X {Ticket})
         \cup {<<"artifact-ref", Artifact>>}

VARIABLES
    notes,   \* notes[s]: the payloads of chain s, oldest first
    chart,   \* refs/varvig/principals
    head,    \* the ticket's ref; revisions are numbered
    branch,  \* the ref promotions move
    policy,  \* refs/varvig/policy: is a module set?
    objs,    \* artifact objects in the store
    proc,    \* proc[p]: program counter and locals
    calls, crashes,
    updates, \* history: the chart's updates that succeeded, with their outcome
    moves,   \* history: promotions that succeeded
    torn     \* history: artifacts whose attaching was killed between its two notes

refs == <<notes, chart, head, branch, policy, objs>>
history == <<updates, moves, torn>>
vars == <<refs, proc, calls, crashes, history>>

Idle == [pc |-> "idle", call |-> [op |-> None], slot |-> <<>>, pay |-> None, chain |-> <<>>,
         old |-> None, new |-> None, walk |-> {}, cands |-> {}, best |-> None,
         unread |-> {}, skipped |-> {}, vetoed |-> {}, checks |-> 0]

Init ==
    /\ notes = [s \in Slots |-> <<>>]
    /\ chart = [k \in Keys |-> None]
    /\ head = 1 /\ branch = None /\ policy = FALSE /\ objs = {}
    /\ proc = [p \in Procs |-> Idle]
    /\ calls = 0 /\ crashes = 0
    /\ updates = <<>> /\ moves = {} /\ torn = {}

At(p, pc) == proc[p].pc = pc
Call(p) == proc[p].call
Goto(p, pc) == proc' = [proc EXCEPT ![p].pc = pc]
Return(p) == proc' = [proc EXCEPT ![p] = Idle]

-----------------------------------------------------------------------------
(* What attestations and evidence say.                                      *)

Atts(t) == Range(notes[<<"attest", t>>])
Vetoed(t) == \E a \in Atts(t) : a.dec = "veto"

MutantApproved(t) == \E a \in Atts(t) : a.dec = "approve" /\ a.str = "strong"

\* Derive(atts, strong) = approved: a veto is decisive, then a strong approval counts.
Approved(t) == ~ Vetoed(t) /\ \E a \in Atts(t) : a.dec = "approve" /\ a.str = "strong"

\* check.Promotion: the newest evidence for the change's tree, if there is any evidence.
EvidenceAdmits(c) ==
    LET chain == notes[<<"check", c>>]
        fresh == {i \in DOMAIN chain : chain[i].tree = c}
    IN  \/ chain = <<>>
        \/ \E i \in fresh : chain[i].pass /\ \A j \in fresh : j <= i

\* CheckStrengthKind for a registered signer; an unregistered one may sign anything.
KindAdmits(k, str) ==
    CASE chart[k] = "bridge" -> str = "weak"
      [] chart[k] = "human"  -> str # "weak"
      [] OTHER -> TRUE

-----------------------------------------------------------------------------
(* notes.Add: read the tip, store a note whose parent it is, swap once.     *)

Add(p, slot, pay) == proc' = [proc EXCEPT ![p].pc = "tip", ![p].slot = slot, ![p].pay = pay]

AddTip(p) ==
    /\ At(p, "tip")
    /\ proc' = [proc EXCEPT ![p].pc = "swap", ![p].chain = notes[proc[p].slot]]
    /\ UNCHANGED <<refs, calls, crashes, history>>

MutantPin(p) == Return(p)

\* AttachArtifact goes on to the note that pins the artifact once its index note is there.
Pin(p) ==
    IF proc[p].slot[1] = "artifacts"
      THEN Add(p, <<"artifact-ref", proc[p].pay>>, Ticket)
      ELSE Return(p)

MutantAddSwap(p) ==
    /\ At(p, "swap")
    /\ notes' = [notes EXCEPT ![proc[p].slot] = Append(proc[p].chain, proc[p].pay)]
    /\ Pin(p)
    /\ UNCHANGED <<chart, head, branch, policy, objs, calls, crashes, history>>

\* A chain that has grown is an error to the caller; nothing retries.
AddSwap(p) ==
    /\ At(p, "swap")
    /\ IF notes[proc[p].slot] = proc[p].chain
         THEN /\ notes' = [notes EXCEPT ![proc[p].slot] = Append(proc[p].chain, proc[p].pay)]
              /\ Pin(p)
         ELSE Return(p) /\ UNCHANGED notes
    /\ UNCHANGED <<chart, head, branch, policy, objs, calls, crashes, history>>

-----------------------------------------------------------------------------
(* Beginning a verb.  What decides a promotion is remembered as it was then. *)

\* An argument that names the ticket is resolved to its head when the verb begins.
resolveTicketHead(c) == IF c.op # "principal" /\ c.on = Ticket THEN [c EXCEPT !.on = head] ELSE c

Begin(p, c, pc) ==
    /\ At(p, "idle") /\ calls < MaxCalls
    /\ calls' = calls + 1
    /\ proc' = [proc EXCEPT ![p] =
         [Idle EXCEPT !.pc = pc, !.call = resolveTicketHead(c),
                      !.vetoed = IF c.op \in {"promote", "spec"} THEN {t \in Revs \cup Changes : Vetoed(t)} ELSE {},
                      !.checks = IF c.op = "promote" THEN Len(notes[<<"check", c.on>>]) ELSE 0]]
    /\ UNCHANGED <<refs, crashes, history>>

\* Verbs that no decision and no promotion reads from come early, to bound the runs.
Aside == calls < MaxAsides

\* The calls of one verb.
Of(op) == {c \in Calls : c.op = op}

cmdAttest(p) == \E c \in Of("attest") : Begin(p, c, "kind")
cmdPrincipal(p) == \E c \in Of("principal") : Begin(p, c, "old")
cmdCheck(p) == \E c \in Of("check") : Begin(p, c, "run")
cmdSpecPromote(p) == \E c \in Of("spec") : Begin(p, c, "policy")

\* A change that implements a revision was written when that revision was there; --force
\* asks nobody.
cmdPromote(p) ==
    \/ \E c \in Of("promote") : FulfillsOf[c.on] <= head /\ Begin(p, c, "approval")
    \/ \E c \in Of("force") : FulfillsOf[c.on] <= head /\ Begin(p, c, "lease")

attestPolicy(p) == \E c \in Of("policy") : Begin(p, c, "polRead")
assertAdd(p) == \E c \in Of("claim") : Aside /\ Begin(p, c, "list")
assertPromote(p) == \E c \in Of("claimPromote") : Aside /\ Begin(p, c, "sign")
toolReportBlocked(p) == \E c \in Of("blocked") : Aside /\ Begin(p, c, "report")
blockedWiden(p) == \E c \in Of("widen") : Aside /\ Begin(p, c, "requests")
ticketsRevise(p) == \E c \in Of("revise") : Begin(p, c, "base")
ticketsScope(p) == \E c \in Of("scope") : Aside /\ Begin(p, c, "declare")
ticketsComment(p) == \E c \in Of("comment") : Aside /\ Begin(p, c, "say")
ticketsAttachArtifact(p) == \E c \in Of("artifact") : Aside /\ Begin(p, c, "put")

Verb(p) ==
    \/ cmdAttest(p) \/ cmdPrincipal(p) \/ cmdCheck(p) \/ cmdSpecPromote(p) \/ cmdPromote(p)
    \/ attestPolicy(p) \/ assertAdd(p) \/ assertPromote(p)
    \/ toolReportBlocked(p) \/ blockedWiden(p)
    \/ ticketsRevise(p) \/ ticketsScope(p) \/ ticketsComment(p) \/ ticketsAttachArtifact(p)

\* attest.Sign: the payload of an attestation.
Signed(key, dec, str) == [key |-> key, dec |-> dec, str |-> str]

\* signAndAttach: the rule of the signer's kind, then the note.
Attest(p) ==
    /\ At(p, "kind")
    /\ IF KindAdmits(Call(p).key, Call(p).str)
         THEN Add(p, <<"attest", Call(p).on>>, Signed(Call(p).key, Call(p).dec, Call(p).str))
         ELSE Return(p)
    /\ UNCHANGED <<refs, calls, crashes, history>>

\* assert promote: the approval of an edge, without that rule.
ClaimPromote(p) ==
    /\ At(p, "sign") /\ notes[<<"edges", Ticket>>] # <<>>
    /\ Add(p, <<"attest", Claim>>, Signed(Call(p).key, "approve", Call(p).str))
    /\ UNCHANGED <<refs, calls, crashes, history>>

\* assert add: edge.PutOnce lists the chain first.
ClaimAdd(p) ==
    /\ At(p, "list")
    /\ IF Claim \in Range(notes[<<"edges", Ticket>>]) THEN Return(p) ELSE Add(p, <<"edges", Ticket>>, Claim)
    /\ UNCHANGED <<refs, calls, crashes, history>>

\* check.Run: the commands pass, or one fails.
Evidence(tree) == {[tree |-> tree, pass |-> pass] : pass \in BOOLEAN}

\* check: the tree is the change's own.
Check(p) ==
    /\ At(p, "run")
    /\ \E e \in Evidence(Call(p).on) : Add(p, <<"check", Call(p).on>>, e)
    /\ UNCHANGED <<refs, calls, crashes, history>>

\* varvig_report_blocked, with the scope the task was granted.
ReportBlocked(p) ==
    /\ At(p, "report")
    /\ Add(p, <<"blocked", Call(p).on>>, [kind |-> "request", scope |-> Call(p).scope])
    /\ UNCHANGED <<refs, calls, crashes, history>>

\* The scope the newest request asks for, if there is one.
Requested(t) ==
    LET chain == notes[<<"blocked", t>>]
        reqs == {i \in DOMAIN chain : chain[i].kind = "request"}
    IN  IF reqs = {} THEN {None} ELSE {chain[i].scope : i \in {r \in reqs : \A q \in reqs : q <= r}}

\* blocked widen: from that scope.
Widen(p) ==
    /\ At(p, "requests")
    /\ \E s \in Requested(Call(p).on) :
         Add(p, <<"blocked", Call(p).on>>, [kind |-> "widening", scope |-> s])
    /\ UNCHANGED <<refs, calls, crashes, history>>

\* tickets scope, on the head; tickets comment, on the ticket.
SetScope(p) ==
    /\ At(p, "declare")
    /\ Add(p, <<"scope", Call(p).on>>, Call(p).scope)
    /\ UNCHANGED <<refs, calls, crashes, history>>

Comment(p) ==
    /\ At(p, "say")
    /\ Add(p, <<"discussion", Ticket>>, p)
    /\ UNCHANGED <<refs, calls, crashes, history>>

\* AttachArtifact: the object, the index note, the pin note.
AttachArtifact(p) ==
    /\ At(p, "put")
    /\ objs' = objs \cup {Artifact}
    /\ Add(p, <<"artifacts", Ticket>>, Artifact)
    /\ UNCHANGED <<notes, chart, head, branch, policy, calls, crashes, history>>

\* What the index notes of a ticket name.  (Artifacts also lists those that the head change and
\* the commits that fulfill the ticket name themselves: they are left out.)
attachedRefIDs(t) == Range(notes[<<"artifacts", t>>])

\* gc, run while nothing else is: an artifact is a root by its pin note alone.
Collect ==
    /\ \A p \in Procs : At(p, "idle")
    /\ notes[<<"artifact-ref", Artifact>>] = <<>> /\ objs # {}
    /\ objs' = {}
    /\ UNCHANGED <<notes, chart, head, branch, policy, proc, calls, crashes, history>>

-----------------------------------------------------------------------------
(* The chart, the ticket, the policy: two reads and a swap, or one.         *)

Mutate(c, ch) == [ch EXCEPT ![c.key] = c.kind]

PrincipalOld(p) ==
    /\ At(p, "old")
    /\ proc' = [proc EXCEPT ![p].pc = "entries", ![p].old = chart]
    /\ UNCHANGED <<refs, calls, crashes, history>>

\* entries() resolves the ref a second time.
PrincipalEntries(p) ==
    /\ At(p, "entries")
    /\ proc' = [proc EXCEPT ![p].pc = "chartSwap", ![p].new = Mutate(Call(p), chart)]
    /\ UNCHANGED <<refs, calls, crashes, history>>

MutantPrincipalSwap(p) ==
    /\ At(p, "chartSwap")
    /\ chart' = proc[p].new
    /\ updates' = Append(updates, [call |-> Call(p), chart |-> proc[p].new])
    /\ Return(p)
    /\ UNCHANGED <<notes, head, branch, policy, objs, calls, crashes, moves, torn>>

PrincipalSwap(p) ==
    /\ At(p, "chartSwap")
    /\ IF chart = proc[p].old
         THEN /\ chart' = proc[p].new
              /\ updates' = Append(updates, [call |-> Call(p), chart |-> proc[p].new])
         ELSE UNCHANGED <<chart, updates>>
    /\ Return(p)
    /\ UNCHANGED <<notes, head, branch, policy, objs, calls, crashes, moves, torn>>

ReviseHead(p) ==
    /\ At(p, "base")
    /\ proc' = [proc EXCEPT ![p].pc = "revSwap", ![p].old = head]
    /\ UNCHANGED <<refs, calls, crashes, history>>

ReviseSwap(p) ==
    /\ At(p, "revSwap") /\ head < MaxRevs
    /\ head' = IF head = proc[p].old THEN head + 1 ELSE head
    /\ Return(p)
    /\ UNCHANGED <<notes, chart, branch, policy, objs, calls, crashes, history>>

PolicyRead(p) ==
    /\ At(p, "polRead")
    /\ proc' = [proc EXCEPT ![p].pc = "polSwap", ![p].old = policy]
    /\ UNCHANGED <<refs, calls, crashes, history>>

\* attest policy set and clear: a swap against what was read.
PolicySwap(p) ==
    /\ At(p, "polSwap")
    /\ policy' = IF policy = proc[p].old THEN Call(p).set ELSE policy
    /\ Return(p)
    /\ UNCHANGED <<notes, chart, head, branch, objs, calls, crashes, history>>

-----------------------------------------------------------------------------
(* promote: the approval of the revision the change implements, the evidence *)
(* on the change, the lease, the swap.                                      *)

PromoteApproval(p) ==
    /\ At(p, "approval")
    /\ LET rev == FulfillsOf[Call(p).on]
       IN  IF rev = 0 \/ Approved(rev) THEN Goto(p, "evidence") ELSE Return(p)
    /\ UNCHANGED <<refs, calls, crashes, history>>

PromoteEvidence(p) ==
    /\ At(p, "evidence")
    /\ IF EvidenceAdmits(Call(p).on) THEN Goto(p, "lease") ELSE Return(p)
    /\ UNCHANGED <<refs, calls, crashes, history>>

Lease(p) ==
    /\ At(p, "lease")
    /\ proc' = [proc EXCEPT ![p].pc = "move", ![p].old = branch,
                            ![p].best = IF Call(p).op = "spec" THEN @ ELSE Call(p).on]
    /\ UNCHANGED <<refs, calls, crashes, history>>

Move(p) ==
    /\ At(p, "move")
    /\ IF branch = proc[p].old
         THEN /\ branch' = proc[p].best
              /\ moves' = moves \cup {[op |-> Call(p).op, change |-> proc[p].best,
                                       vetoed |-> proc[p].vetoed, checks |-> proc[p].checks,
                                       unread |-> proc[p].skipped]}
         ELSE UNCHANGED <<branch, moves>>
    /\ Return(p)
    /\ UNCHANGED <<notes, chart, head, policy, objs, calls, crashes, updates, torn>>

-----------------------------------------------------------------------------
(* spec promote: every candidate passes the gates or is left out, and the    *)
(* best of those admitted is promoted.                                      *)

\* LoadPolicy, and on to the first candidate.
LoadPolicy(p) ==
    /\ At(p, "policy")
    /\ proc' = [proc EXCEPT ![p].pc = "next", ![p].new = policy, ![p].cands = Changes]
    /\ UNCHANGED <<refs, calls, crashes, history>>

\* The candidates are taken in the order the pool lists them, which says nothing.
NextCandidate(p) ==
    /\ At(p, "next")
    /\ \/ \E c \in proc[p].cands :
            proc' = [proc EXCEPT ![p].pc = "walk", ![p].walk = {c}, ![p].chain = <<c>>,
                                 ![p].cands = @ \ {c}]
       \/ /\ proc[p].cands = {}
          /\ IF proc[p].best = None THEN Return(p) ELSE Goto(p, "lease")
    /\ UNCHANGED <<refs, calls, crashes, history>>

\* Does a revision on the way up carry a veto?
Blocks(t) == Vetoed(t)

\* The candidate is left out.
Disqualify(p) ==
    proc' = [proc EXCEPT ![p].pc = "next", ![p].walk = {}, ![p].chain = <<>>, ![p].unread = {}]

\* A change is done with, and some parents are next; chain holds what the walk has seen.
Pass(p, t, parents) ==
    proc' = [proc EXCEPT ![p].walk = (@ \cup parents) \ (Range(proc[p].chain) \cup {t}),
                         ![p].chain = Append(@, t),
                         ![p].unread = IF parents = ParentOf[t] THEN @ ELSE @ \cup {t}]

\* PromotionBlocked pops a change, reads its attestations and pushes its parents.  If the
\* attestations cannot be read, that is an error and Admit refuses; if the change itself
\* cannot, its parents are not looked at and the walk goes on without a word.
PromotionBlocked(p) ==
    /\ At(p, "walk") /\ proc[p].walk # {}
    /\ \E t \in proc[p].walk :
         \/ Disqualify(p)
         \/ ~ Blocks(t) /\ Pass(p, t, ParentOf[t])
         \/ ~ Blocks(t) /\ Pass(p, t, {})
    /\ UNCHANGED <<refs, calls, crashes, history>>

Outdoes(c, best) == best # None => ScoreOf[c] > ScoreOf[best]

\* No veto found: the module, if one was loaded, has the last word, and the better score wins.
Admit(p) ==
    /\ At(p, "walk") /\ proc[p].walk = {}
    /\ LET c == Head(proc[p].chain)
           best == proc[p].best
       IN  \/ /\ Outdoes(c, best)
              /\ proc' = [proc EXCEPT ![p].pc = "next", ![p].chain = <<>>, ![p].unread = {},
                                      ![p].best = c, ![p].skipped = proc[p].unread]
           \/ /\ proc[p].new \/ ~ Outdoes(c, best)
              /\ proc' = [proc EXCEPT ![p].pc = "next", ![p].chain = <<>>, ![p].unread = {}]
    /\ UNCHANGED <<refs, calls, crashes, history>>

-----------------------------------------------------------------------------
\* AttachArtifact, the one verb that swaps twice, is killed between its notes; a verb killed
\* before its first swap might as well not have been run.
Crash(p) ==
    /\ proc[p].slot = <<"artifact-ref", Artifact>> /\ crashes < MaxCrashes
    /\ crashes' = crashes + 1
    /\ torn' = torn \cup {Artifact}
    /\ Return(p)
    /\ UNCHANGED <<refs, calls, updates, moves>>

Next ==
    \/ \E p \in Procs :
         \/ Verb(p)
         \/ AddTip(p) \/ AddSwap(p)
         \/ Attest(p) \/ ClaimPromote(p) \/ ClaimAdd(p) \/ Check(p) \/ ReportBlocked(p)
         \/ Widen(p) \/ SetScope(p) \/ Comment(p) \/ AttachArtifact(p)
         \/ PrincipalOld(p) \/ PrincipalEntries(p) \/ PrincipalSwap(p)
         \/ ReviseHead(p) \/ ReviseSwap(p) \/ PolicyRead(p) \/ PolicySwap(p)
         \/ PromoteApproval(p) \/ PromoteEvidence(p) \/ Lease(p) \/ Move(p)
         \/ LoadPolicy(p) \/ NextCandidate(p) \/ PromotionBlocked(p) \/ Admit(p)
         \/ Crash(p)
    \/ Collect

Spec == Init /\ [][Next]_vars

-----------------------------------------------------------------------------
(* Properties.                                                              *)

\* What the notes of a chain say.
PayloadsOf(s) ==
    CASE s[1] = "attest" -> [key : Keys, dec : {"approve", "veto"}, str : Strengths]
      [] s[1] = "check" -> Evidence(s[2])
      [] s[1] = "blocked" -> [kind : {"request", "widening"}, scope : Scopes \cup {None}]
      [] s[1] = "scope" -> Scopes
      [] s[1] = "artifacts" -> {Artifact}
      [] s[1] = "artifact-ref" -> {Ticket}
      [] s[1] = "discussion" -> Procs
      [] s[1] = "edges" -> {Claim}

TypeOK ==
    /\ DOMAIN notes = Slots /\ \A s \in Slots : notes[s] \in Seq(PayloadsOf(s))
    /\ chart \in Charts /\ head \in Revs /\ branch \in Changes \cup {None}
    /\ policy \in BOOLEAN /\ objs \subseteq {Artifact}
    /\ calls \in 0..MaxCalls /\ crashes \in 0..MaxCrashes
    /\ torn \subseteq {Artifact} /\ moves \subseteq [op : {"promote", "force", "spec"}, change : Changes,
                                                     vetoed : SUBSET (Revs \cup Changes), checks : Nat,
                                                     unread : SUBSET Changes]

\* The listing of a ticket's artifacts (ticket/artifact.go Artifacts fails as a whole when one
\* object is gone): every artifact attached to the ticket is in the store, unless
\* a verb was killed between the note that lists it and the note that pins it; and the state is
\* well formed.
ArtifactsReadable == TypeOK /\ attachedRefIDs(Ticket) \subseteq objs \cup torn

\* A change with what leads up from it, but not through changes that were not read.
Closed(S, unread) == \A x \in S \ unread : ParentOf[x] \subseteq S
Ancestors(c, unread) ==
    {d \in Changes : \A S \in SUBSET Changes : c \in S /\ Closed(S, unread) => d \in S}

\* What was decided before a promotion began binds it.  `promote`: the revision that the change
\* implements has a strong approval, had no veto, and evidence that failed was followed by
\* evidence that passed.  `spec promote`: neither the change nor an ancestor had a veto, but for
\* ancestors that are behind a change it could not read: PromotionBlocked passes over such a
\* change (attest/status.go:149-155) and the closure check its comment relies on is not made
\* (spec/spec.go:308-312).  (promote.go checkPromotionNotStale and
\* checkPromotionEvidenceNotStale, attest/status.go Derive and PromotionBlocked.)
PromotionHeeds ==
    \A m \in moves :
      /\ m.op = "promote" =>
           LET rev == FulfillsOf[m.change]
               chain == notes[<<"check", m.change>>]
           IN  /\ rev # 0 => /\ rev \notin m.vetoed
                             /\ \E a \in Atts(rev) : a.dec = "approve" /\ a.str = "strong"
               /\ m.checks > 0 => \E i \in m.checks..Len(chain) : chain[i].pass
      /\ m.op = "spec" => Ancestors(m.change, m.unread) \cap m.vetoed = {}

Before(i) == IF i = 1 THEN [k \in Keys |-> None] ELSE updates[i - 1].chart

\* The org chart (principal.go update, which resolves the ref twice): it is the outcome of its
\* updates one after another, unless a chart came back that had been there before.
ChartSerial ==
    LET charts == <<[k \in Keys |-> None]>> \o [i \in DOMAIN updates |-> updates[i].chart]
    IN  (\A i, j \in DOMAIN charts : charts[i] = charts[j] => i = j) =>
            \A i \in DOMAIN updates : updates[i].chart = Mutate(updates[i].call, Before(i))

\* "There is deliberately no delete": whatever verbs race, no note that was ever attached is
\* lost or replaced (notes.go Add).
NotesOnlyGrow == [][\A s \in Slots : IsPrefix(notes[s], notes'[s])]_notes
=============================================================================
