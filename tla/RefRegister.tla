---------------------------- MODULE RefRegister ----------------------------
(* What package refs promises: a family of named registers updated by atomic
   compare-and-swap.  A call is pending from its invocation until a single
   instant at which it either moves the register or is refused; what happens
   on disk, which lock is taken and who crashes is RefStore's business.     *)
CONSTANTS Procs,   \* callers: processes and goroutines sharing a repository
          Names,   \* ref names
          Ids,     \* object identities a ref may point at
          NoId     \* nil: the ref is absent

VARIABLES refs,    \* refs[n]: the identity n points at, or NoId
          call     \* call[p]: the compare-and-swap p has under way

vars == <<refs, call>>

Vals == Ids \cup {NoId}

Idle == [state |-> "idle"]

Swap(n, old, new, s) == [state |-> s, name |-> n, old |-> old, new |-> new]

Init == /\ refs \in [Names -> Vals]
        /\ call = [p \in Procs |-> Idle]

\* A caller asks for name n to go from old to new.
Invoke(p, n, old, new) ==
    /\ call[p] = Idle
    /\ call' = [call EXCEPT ![p] = Swap(n, old, new, "pending")]
    /\ UNCHANGED refs

\* The instant at which the swap takes effect: the register holds exactly the
\* expected value and takes the new one, for every observer at once.
Move(p) ==
    /\ call[p].state = "pending"
    /\ refs[call[p].name] = call[p].old
    /\ refs' = [refs EXCEPT ![call[p].name] = call[p].new]
    /\ call' = [call EXCEPT ![p] = Swap(call[p].name, call[p].old,
                                        call[p].new, "moved")]

\* The instant at which the swap is refused: the register holds another value.
Refuse(p) ==
    /\ call[p].state = "pending"
    /\ refs[call[p].name] # call[p].old
    /\ call' = [call EXCEPT ![p] = Swap(call[p].name, call[p].old,
                                        call[p].new, "refused")]
    /\ UNCHANGED refs

\* The call ends without having touched the register: a timeout, an I/O error
\* or a crash before the swap took effect.
GiveUp(p) ==
    /\ call[p].state = "pending"
    /\ call' = [call EXCEPT ![p] = Idle]
    /\ UNCHANGED refs

\* A decided call ends.
Return(p) ==
    /\ call[p].state \in {"moved", "refused"}
    /\ call' = [call EXCEPT ![p] = Idle]
    /\ UNCHANGED refs

Next == \E p \in Procs :
           \/ \E n \in Names, old \in Vals, new \in Vals : Invoke(p, n, old, new)
           \/ Move(p) \/ Refuse(p) \/ GiveUp(p) \/ Return(p)

Spec == Init /\ [][Next]_vars
=============================================================================
