---------------------------- MODULE MCGovernance ----------------------------
(* An instance of Governance: two people, and two changes of which the second
   is based on the first and implements the second revision.                *)
EXTENDS Governance, TLC

CONSTANTS c1, c2, k1, k2

\* The people are interchangeable.
Sym == Permutations(Procs)

MCChanges == {c1, c2}
MCParentOf == (c1 :> {}) @@ (c2 :> {c1})
MCFulfillsOf == (c1 :> 1) @@ (c2 :> 2)
MCScoreOf == (c1 :> 1) @@ (c2 :> 2)

Decision(key, dec, str, on) == [op |-> "attest", key |-> key, dec |-> dec, str |-> str, on |-> on]
Principal(k, kind) == [op |-> "principal", key |-> k, kind |-> kind]
Plain(op, on) == [op |-> op, on |-> on]

MCCalls ==
    {Decision(k1, "approve", "strong", Ticket), Decision(k1, "veto", "strong", Ticket),
     Decision(k1, "veto", "strong", c1), Decision(k2, "approve", "weak", Ticket)}
    \cup {Principal(k1, "bridge"), Principal(k2, "human")}
    \cup {Plain("revise", Ticket), Plain("check", c1), Plain("promote", c1),
          Plain("force", c1), Plain("spec", c1), Plain("artifact", Ticket), Plain("comment", Ticket),
          Plain("claim", Ticket), Plain("widen", Ticket)}
    \cup {[op |-> "policy", on |-> None, set |-> TRUE]}
    \cup {[op |-> "claimPromote", on |-> Claim, key |-> k1, str |-> "strong"]}
    \cup {[op |-> op, on |-> Ticket, scope |-> "s"] : op \in {"blocked", "scope"}}
=============================================================================
