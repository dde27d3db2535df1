-------------------------- MODULE RefStoreProofs --------------------------
(* Machine-checked proofs about RefStore, for any number of processes, names,
   identities, timestamps, calls and faults.                                *)
EXTENDS RefStore, FiniteSetTheorems, SequenceTheorems, TLAPS

\* A step's place in a call tells what kind of call it is.
PhaseMatches ==
    \A p \in Procs :
       /\ pc[p] \in {"check", "remove"} => op[p].kind = "swap"
       /\ pc[p] \in {"temp", "fill", "rename"} => op[p].kind \in {"swap", "expire"}
       /\ pc[p] = "append" => op[p].kind \in {"swap", "audit"}
       /\ pc[p] = "expire" => op[p].kind = "expire"

\* The inductive invariant: mutual exclusion alone is not inductive for the
\* refinement, which also needs the value compared under the lock to be the
\* value replaced under it.
IInv == TypeOK /\ LockExclusive /\ CheckedValueHolds /\ PhaseMatches

-----------------------------------------------------------------------------
(* Type correctness.                                                        *)

\* A log that does not end in a cut line ends somehow.
LEMMA EndType ==
  ASSUME NEW at \in {"clean", "open", "damaged"}
  PROVE  End(at) \in Ends
BY DEF End, Ends, Vals

\* The initial state has the declared types.
LEMMA InitTypeOK == Init => TypeOK
<1>1. (CHOOSE n \in Names : TRUE) \in Names
  BY RefStoreAssumption DEF RefStoreAssumption
<1> SUFFICES ASSUME Init PROVE TypeOK
  OBVIOUS
<1>2. op \in [Procs -> Op]
  BY <1>1 DEF Init, Op, Vals
<1>3. moves \in [Names -> Seq(Vals \X Vals)]
  BY DEF Init
<1>4. expired \in [Names -> BOOLEAN]
  BY DEF Init
<1>5. End("clean") \in Ends
  BY EndType
<1>6. QED
  BY <1>2, <1>3, <1>4, <1>5 DEF Init, TypeOK, Vals, PCs

\* A line appended to a log is a log entry.
LEMMA LineType ==
  ASSUME TypeOK, NEW p \in Procs, NEW t \in Times
  PROVE  Line(p, t) \in LogEntry
  BY DEF TypeOK, Line, LogEntry, Op

\* Adding a line keeps the log, its size and the history typed.
LEMMA AddLineType ==
  ASSUME TypeOK, NEW p \in Procs, NEW t \in Times, AddLine(p, t)
  PROVE  /\ log' \in [Names -> SUBSET LogEntry]
         /\ size' \in [Names -> Nat]
         /\ logged' \in [Names -> SUBSET Nat]
<1> DEFINE n == op[p].name
<1>1. n \in Names
  BY DEF TypeOK, Op
<1>2. log' \in [Names -> SUBSET LogEntry]
  BY <1>1, LineType DEF AddLine, TypeOK
<1>3. size' \in [Names -> Nat]
  BY <1>1 DEF AddLine, TypeOK
<1>4. Len(moves[n]) \in Nat
  BY <1>1 DEF TypeOK
<1>5. logged' \in [Names -> SUBSET Nat]
  BY <1>1, <1>4 DEF AddLine, TypeOK
<1>6. QED
  BY <1>2, <1>3, <1>5

\* What is read of two lines glued together is a line, and no swap's.
LEMMA GluedLine ==
  ASSUME TypeOK, NEW p \in Procs, AddGlued(p)
  PROVE  \E e \in LogEntry :
            /\ log' = [log EXCEPT ![op[p].name] = @ \cup {e}]
            /\ e.pos = size[op[p].name] /\ e.kind = "glued"
<1>1. PICK ts \in Times \cup {0} : \E e \in Glued(p, ts) : log' = [log EXCEPT ![op[p].name] = @ \cup {e}]
  BY DEF AddGlued
<1>2. PICK e \in Glued(p, ts) : log' = [log EXCEPT ![op[p].name] = @ \cup {e}]
  BY <1>1
<1>3. /\ op[p].name \in Names /\ op[p].old \in Vals /\ size[op[p].name] \in Nat
      /\ tail[op[p].name].half \in Vals \X Vals
  BY DEF TypeOK, Op, Ends
<1>4. \E new \in Vals : e = [pos |-> size[op[p].name], old |-> tail[op[p].name].half[1], new |-> new,
                            ts |-> ts, kind |-> "glued"]
  BY <1>2, <1>3 DEF Glued
<1>5. e \in LogEntry /\ e.pos = size[op[p].name] /\ e.kind = "glued"
  BY <1>3, <1>4 DEF LogEntry
<1>6. QED
  BY <1>2, <1>5

\* So does everything that a write, whole or interrupted, can leave behind.
LEMMA WriteType ==
  ASSUME TypeOK, NEW p \in Procs, NEW t \in Times, WriteLine(p, t) \/ TearLine(p, t)
  PROVE  /\ log' \in [Names -> SUBSET LogEntry]
         /\ size' \in [Names -> Nat]
         /\ tail' \in [Names -> Ends]
         /\ logged' \in [Names -> SUBSET Nat]
<1>1. op[p].name \in Names
  BY DEF TypeOK, Op
<1>2. tail' \in [Names -> Ends]
  BY <1>1 DEF WriteLine, TearLine, EndsNow, End, Ends, TypeOK, Op, Vals
<1>3. CASE AddLine(p, t)
  BY <1>2, <1>3, AddLineType
<1>4. CASE UNCHANGED <<log, size, logged>>
  BY <1>2, <1>4 DEF TypeOK
<1>5. CASE AddGlued(p)
  <2>1. PICK e : log' = [log EXCEPT ![op[p].name] = @ \cup {e}] /\ e \in LogEntry
    BY <1>5, GluedLine
  <2>2. log' \in [Names -> SUBSET LogEntry]
    BY <1>1, <2>1 DEF TypeOK
  <2>3. QED
    BY <1>1, <1>2, <1>5, <2>2 DEF AddGlued, TypeOK
<1>6. QED
  BY <1>3, <1>4, <1>5 DEF WriteLine, TearLine

\* Every step keeps the declared types.
LEMMA NextTypeOK == TypeOK /\ [Next]_vars => TypeOK'
<1> SUFFICES ASSUME TypeOK, [Next]_vars PROVE TypeOK'
  OBVIOUS
<1> USE DEF store, proc, hist
<1>1. CASE UNCHANGED vars
  BY <1>1 DEF TypeOK, vars
<1>2. CASE BreakLock
  BY <1>2 DEF TypeOK, BreakLock
<1>3. ASSUME NEW p \in Procs, NEW o \in Op, Begin(p, o) PROVE TypeOK'
  BY <1>3 DEF TypeOK, Begin, PCs
<1>4. ASSUME NEW p \in Procs, Call(p) PROVE TypeOK'
  <2>1. ASSUME NEW n \in Names, NEW old \in Vals, NEW new \in Vals,
               CompareAndSwap(p, n, old, new)
        PROVE  TypeOK'
    BY <1>3, <2>1 DEF CompareAndSwap, Op
  <2>2. ASSUME NEW n \in Names, AppendLog(p, n) PROVE TypeOK'
    <3>1. refs[n] \in Vals
      BY DEF TypeOK
    <3>2. QED
      BY <1>3, <2>2, <3>1 DEF AppendLog, Op
  <2>3. ASSUME NEW n \in Names, NEW k \in Keeps, NEW c \in Times, ExpireLog(p, n, k, c)
        PROVE  TypeOK'
    BY <1>3, <2>3 DEF ExpireLog, Op, Vals
  <2>4. QED
    BY <1>4, <2>1, <2>2, <2>3 DEF Call
<1>5. ASSUME NEW p \in Procs, Step(p) PROVE TypeOK'
  <2> USE DEF Goto, Finish, PCs
  <2>0. op[p] \in Op /\ op[p].name \in Names /\ op[p].old \in Vals /\ op[p].new \in Vals
    BY DEF TypeOK, Op
  <2>1. CASE Acquire(p)
    BY <2>1 DEF TypeOK, Acquire, FirstStep
  <2>2. CASE TimeOut(p)
    BY <2>2 DEF TypeOK, TimeOut
  <2>3. CASE Unlock(p)
    BY <2>3 DEF TypeOK, Unlock
  <2>4. CASE Check(p)
    BY <2>4 DEF TypeOK, Check
  <2>5. CASE CreateTemp(p)
    BY <2>5 DEF TypeOK, CreateTemp
  <2>6. CASE FillTemp(p)
    BY <2>6 DEF TypeOK, FillTemp
  <2>7. CASE SetRef(p)
    BY <2>0, <2>7 DEF TypeOK, SetRef
  <2>8. ASSUME NEW t \in Times, appendLog(p, t) PROVE TypeOK'
    <3>1. WriteLine(p, t)
      BY <2>8 DEF appendLog
    <3>2. QED
      BY <2>8, <3>1, WriteType DEF TypeOK, appendLog
  <2>9. CASE ExpireRead(p)
    <3>1. /\ log' = log \/ log' = [log EXCEPT ![op[p].name] = {}]
          /\ tail' = tail \/ tail' = [tail EXCEPT ![op[p].name] = End("clean")]
          /\ expired' = expired \/ expired' = [expired EXCEPT ![op[p].name] = TRUE]
          /\ out' = out \/ out' = [out EXCEPT ![p] = "ok"] \/ out' = [out EXCEPT ![p] = "error"]
          /\ pc' = [pc EXCEPT ![p] = "unlock"] \/ pc' = [pc EXCEPT ![p] = "temp"]
          /\ UNCHANGED <<lockFile, refs, size, op, ops, faults, moves, logged>>
      BY <2>9 DEF ExpireRead
    <3>2. log' \in [Names -> SUBSET LogEntry]
      BY <2>0, <3>1 DEF TypeOK
    <3>3. tail' \in [Names -> Ends]
      <4>1. tail \in [Names -> Ends] /\ End("clean") \in Ends
        BY EndType DEF TypeOK
      <4> QED
        BY <3>1, <4>1
    <3>4. /\ pc' \in [Procs -> PCs] /\ expired' \in [Names -> BOOLEAN]
          /\ out' \in [Procs -> {"none", "ok", "conflict", "error", "logerror", "timeout"}]
      BY <3>1 DEF TypeOK
    <3>5. QED
      BY <3>1, <3>3, <3>4, <3>2 DEF TypeOK
  <2>10. CASE RewriteLog(p)
    BY <2>0, <2>10, EndType DEF TypeOK, RewriteLog, Kept
  <2>11. QED
    BY <1>5, <2>1, <2>2, <2>3, <2>4, <2>5, <2>6, <2>7, <2>8, <2>9, <2>10
    DEF Step, Rename, RemoveRef
<1>6. ASSUME NEW p \in Procs, Failure(p) PROVE TypeOK'
  <2> USE DEF Goto, Finish, PCs, Fault
  <2>1. CASE LockError(p)
    BY <2>1 DEF TypeOK, LockError
  <2>2. CASE IOError(p)
    BY <2>2 DEF TypeOK, IOError
  <2>3. CASE Restart(p)
    BY <2>3 DEF TypeOK, Restart
  <2>4. ASSUME NEW t \in Times, AppendError(p, t) PROVE TypeOK'
    <3>1. WriteLine(p, t) \/ TearLine(p, t)
      BY <2>4 DEF AppendError
    <3>2. QED
      BY <2>4, <3>1, WriteType DEF TypeOK, AppendError
  <2>5. ASSUME NEW t \in Times, Crash(p, t) PROVE TypeOK'
    <3>1. /\ log' \in [Names -> SUBSET LogEntry]
          /\ size' \in [Names -> Nat]
          /\ tail' \in [Names -> Ends]
          /\ logged' \in [Names -> SUBSET Nat]
      BY <2>5, WriteType DEF TypeOK, Crash
    <3>2. QED
      BY <2>5, <3>1 DEF TypeOK, Crash
  <2>6. QED
    BY <1>6, <2>1, <2>2, <2>3, <2>4, <2>5 DEF Failure
<1>7. QED
  BY <1>1, <1>2, <1>4, <1>5, <1>6 DEF Next

\* The state of the store, of the callers and of the history keeps its types.
THEOREM TypeCorrect == Spec => []TypeOK
  BY InitTypeOK, NextTypeOK, PTL DEF Spec

-----------------------------------------------------------------------------
(* The lock and the precondition.                                           *)

\* Nothing is under way in the initial state.
LEMMA InitIInv == Init => IInv
<1> SUFFICES ASSUME Init PROVE IInv
  OBVIOUS
<1>1. TypeOK
  BY InitTypeOK
<1>2. LockExclusive /\ CheckedValueHolds /\ PhaseMatches
  BY DEF Init, LockExclusive, CheckedValueHolds, PhaseMatches, Critical
<1>3. QED
  BY <1>1, <1>2 DEF IInv

\* A step of p that neither moves a ref, nor touches an argument, nor takes or
\* drops the lock keeps the invariant if it stays within p's kind of call.
LEMMA QuietStep ==
  ASSUME IInv, NEW p \in Procs, NEW l \in PCs,
         pc' = [pc EXCEPT ![p] = l],
         UNCHANGED <<lockFile, refs, op>>,
         l \in Critical => pc[p] \in Critical,
         l \in {"remove", "temp", "fill", "rename"} /\ op[p].kind = "swap"
            => refs[op[p].name] = op[p].old,
         l \in {"check", "remove"} => op[p].kind = "swap",
         l \in {"temp", "fill", "rename"} => op[p].kind \in {"swap", "expire"},
         l = "append" => op[p].kind \in {"swap", "audit"},
         l = "expire" => op[p].kind = "expire"
  PROVE  LockExclusive' /\ CheckedValueHolds' /\ PhaseMatches'
<1>0. pc \in [Procs -> PCs]
  BY DEF IInv, TypeOK
<1>1. LockExclusive'
  BY <1>0 DEF IInv, LockExclusive
<1>2. CheckedValueHolds'
  BY <1>0 DEF IInv, CheckedValueHolds
<1>3. PhaseMatches'
  BY <1>0 DEF IInv, PhaseMatches
<1>4. QED
  BY <1>1, <1>2, <1>3

\* Every step keeps mutual exclusion and the compared value.
LEMMA NextIInv == IInv /\ [Next]_vars => IInv'
<1> SUFFICES ASSUME IInv, [Next]_vars PROVE IInv'
  OBVIOUS
<1> USE DEF store, proc, hist
<1>0. TypeOK'
  BY NextTypeOK DEF IInv
<1>a. pc \in [Procs -> PCs] /\ op \in [Procs -> Op]
  BY DEF IInv, TypeOK
<1> SUFFICES LockExclusive' /\ CheckedValueHolds' /\ PhaseMatches'
  BY <1>0 DEF IInv
<1>1. CASE UNCHANGED vars
  BY <1>1 DEF IInv, LockExclusive, CheckedValueHolds, PhaseMatches, vars
<1>2. CASE BreakLock
  BY <1>2 DEF IInv, BreakLock, LockExclusive, CheckedValueHolds, PhaseMatches
<1>3. ASSUME NEW p \in Procs, Call(p)
      PROVE  LockExclusive' /\ CheckedValueHolds' /\ PhaseMatches'
  <2>1. PICK o : Begin(p, o)
    BY <1>3 DEF Call, CompareAndSwap, AppendLog, ExpireLog
  <2>2. pc' = [pc EXCEPT ![p] = "lock"] /\ op' = [op EXCEPT ![p] = o]
        /\ UNCHANGED <<lockFile, refs>>
    BY <2>1 DEF Begin
  <2>3. QED
    BY <1>a, <2>2 DEF IInv, LockExclusive, CheckedValueHolds, PhaseMatches, Critical
<1>4. ASSUME NEW p \in Procs, Step(p)
      PROVE  LockExclusive' /\ CheckedValueHolds' /\ PhaseMatches'
  <2> USE DEF Goto, Finish
  <2>1. CASE Acquire(p)
    <3>1. \A q \in Procs : pc[q] \notin Critical
      BY <2>1 DEF Acquire, IInv, LockExclusive
    <3>2. QED
      BY <1>a, <2>1, <3>1
      DEF Acquire, FirstStep, IInv, LockExclusive, CheckedValueHolds, PhaseMatches, Critical
  <2>2. CASE TimeOut(p)
    BY <2>2, QuietStep DEF TimeOut, Critical, PCs
  <2>3. CASE Unlock(p)
    <3>1. \A q \in Procs : q # p => pc[q] \notin Critical
      BY <2>3 DEF Unlock, IInv, LockExclusive, Critical
    <3>2. QED
      BY <1>a, <2>3, <3>1
      DEF Unlock, IInv, LockExclusive, CheckedValueHolds, PhaseMatches, Critical
  <2>4. CASE Check(p)
    <3>1. op[p].kind = "swap"
      BY <2>4 DEF Check, IInv, PhaseMatches
    <3>2. CASE refs[op[p].name] # op[p].old
      BY <2>4, <3>2, QuietStep DEF Check, Critical, PCs
    <3>3. CASE refs[op[p].name] = op[p].old
      BY <2>4, <3>1, <3>3, QuietStep DEF Check, Critical, PCs
    <3>4. QED
      BY <3>2, <3>3
  <2>5. CASE CreateTemp(p)
    BY <2>5, QuietStep DEF CreateTemp, Critical, PCs, IInv, CheckedValueHolds, PhaseMatches
  <2>6. CASE FillTemp(p)
    BY <2>6, QuietStep DEF FillTemp, Critical, PCs, IInv, CheckedValueHolds, PhaseMatches
  <2>7. ASSUME SetRef(p), pc[p] \in Critical, op[p].kind = "swap"
        PROVE  LockExclusive' /\ CheckedValueHolds' /\ PhaseMatches'
    <3>1. \A q \in Procs : q # p => pc[q] \notin Critical
      BY <2>7 DEF IInv, LockExclusive
    <3>2. QED
      BY <1>a, <2>7, <3>1
      DEF SetRef, IInv, LockExclusive, CheckedValueHolds, PhaseMatches, Critical
  <2>8. ASSUME NEW t \in Times, appendLog(p, t)
        PROVE  LockExclusive' /\ CheckedValueHolds' /\ PhaseMatches'
    BY <2>8, QuietStep DEF appendLog, Critical, PCs
  <2>9. CASE ExpireRead(p)
    <3>1. op[p].kind = "expire"
      BY <2>9 DEF ExpireRead, IInv, PhaseMatches
    <3>2. QED
      BY <2>9, <3>1, QuietStep DEF ExpireRead, Critical, PCs
  <2>10. CASE RewriteLog(p)
    BY <2>10, QuietStep DEF RewriteLog, Critical, PCs
  <2>11. QED
    BY <1>4, <2>1, <2>2, <2>3, <2>4, <2>5, <2>6, <2>7, <2>8, <2>9, <2>10
    DEF Step, Rename, RemoveRef, Critical, IInv, PhaseMatches
<1>5. ASSUME NEW p \in Procs, Failure(p)
      PROVE  LockExclusive' /\ CheckedValueHolds' /\ PhaseMatches'
  <2> USE DEF Goto, Finish, Critical, PCs
  <2>1. CASE LockError(p)
    BY <2>1, QuietStep DEF LockError
  <2>2. CASE IOError(p)
    BY <2>2, QuietStep DEF IOError
  <2>3. CASE Restart(p)
    BY <2>3, QuietStep DEF Restart
  <2>4. ASSUME NEW t \in Times, AppendError(p, t)
        PROVE  LockExclusive' /\ CheckedValueHolds' /\ PhaseMatches'
    BY <2>4, QuietStep DEF AppendError
  <2>5. ASSUME NEW t \in Times, Crash(p, t)
        PROVE  LockExclusive' /\ CheckedValueHolds' /\ PhaseMatches'
    BY <2>5, QuietStep DEF Crash
  <2>6. QED
    BY <1>5, <2>1, <2>2, <2>3, <2>4, <2>5 DEF Failure
<1>6. QED
  BY <1>1, <1>2, <1>3, <1>4, <1>5 DEF Next

\* The inductive invariant holds in every reachable state.
THEOREM Inductive == Spec => []IInv
  BY InitIInv, NextIInv, PTL DEF Spec

\* The lock file excludes: at most one running process is in its critical
\* section, and the file is there while one is.
THEOREM MutualExclusion == Spec => []LockExclusive
<1>1. IInv => LockExclusive
  BY DEF IInv
<1>2. QED
  BY <1>1, Inductive, PTL

\* The value compared under the lock is the value replaced under it.
THEOREM NoLostUpdate == Spec => []CheckedValueHolds
<1>1. IInv => CheckedValueHolds
  BY DEF IInv
<1>2. QED
  BY <1>1, Inductive, PTL

-----------------------------------------------------------------------------
(* RefStore implements RefRegister.                                         *)

calls == [p \in Procs |-> CallOf(p)]

\* A step of p leaves the calls of the others as they are.
LEMMA OtherCalls ==
  ASSUME NEW p \in Procs,
         \A q \in Procs \ {p} : pc'[q] = pc[q] /\ op'[q] = op[q] /\ out'[q] = out[q]
  PROVE  calls' = [calls EXCEPT ![p] = CallOf(p)']
<1>1. \A q \in Procs \ {p} : CallOf(q)' = CallOf(q)
  BY DEF CallOf, CallAs
<1>2. QED
  BY <1>1 DEF calls

\* The initial state is one of the register's.
LEMMA InitRefines == Init => Register!Init
<1> SUFFICES ASSUME Init PROVE Register!Init
  OBVIOUS
<1>1. \A p \in Procs : CallOf(p) = [state |-> "idle"]
  BY DEF Init, CallOf
<1>2. refs \in [Names -> Register!Vals]
  BY DEF Init, Register!Vals
<1>3. QED
  BY <1>1, <1>2 DEF Register!Init, Register!Idle

\* Every step is a step of the register or leaves it as it is.
LEMMA NextRefines ==
  ASSUME IInv, [Next]_vars
  PROVE  [Register!Next]_(Register!vars)
<1> USE DEF store, proc, hist
<1>a. pc \in [Procs -> PCs] /\ op \in [Procs -> Op]
      /\ out \in [Procs -> {"none", "ok", "conflict", "error", "logerror", "timeout"}]
  BY DEF IInv, TypeOK
<1>s. ASSUME UNCHANGED <<refs, calls>> PROVE [Register!Next]_(Register!vars)
  BY <1>s DEF Register!vars, calls
<1>1. CASE UNCHANGED vars
  BY <1>1, <1>s DEF vars, calls, CallOf, CallAs
<1>2. CASE BreakLock
  BY <1>2, <1>s DEF BreakLock, calls, CallOf, CallAs
<1>g. ASSUME NEW p \in Procs, UNCHANGED refs, calls' = [calls EXCEPT ![p] = CallOf(p)'],
             CallOf(p)' = CallOf(p)
      PROVE  [Register!Next]_(Register!vars)
  BY <1>g, <1>s DEF calls
<1>i. ASSUME NEW p \in Procs, UNCHANGED refs, calls' = [calls EXCEPT ![p] = CallOf(p)'],
             CallOf(p)' = [state |-> "idle"],
             CallOf(p).state \in {"pending", "moved", "refused"}
      PROVE  [Register!Next]_(Register!vars)
  <2>1. Register!GiveUp(p) \/ Register!Return(p)
    BY <1>i DEF Register!GiveUp, Register!Return, Register!Idle, calls
  <2>2. QED
    BY <2>1 DEF Register!Next
<1>3. ASSUME NEW p \in Procs, Call(p) PROVE [Register!Next]_(Register!vars)
  <2>1. PICK o : Begin(p, o)
    BY <1>3 DEF Call, CompareAndSwap, AppendLog, ExpireLog
  <2>2. calls' = [calls EXCEPT ![p] = CallOf(p)'] /\ UNCHANGED refs
    BY <1>a, <2>1, OtherCalls DEF Begin
  <2>3. CallOf(p) = [state |-> "idle"]
    BY <2>1 DEF Begin, CallOf
  <2>4. ASSUME NEW n \in Names, NEW old \in Vals, NEW new \in Vals,
               CompareAndSwap(p, n, old, new)
        PROVE  [Register!Next]_(Register!vars)
    <3>1. CallOf(p)' = [state |-> "pending", name |-> n, old |-> old, new |-> new]
      BY <1>a, <2>4 DEF CompareAndSwap, Begin, CallOf, CallAs
    <3>2. Register!Invoke(p, n, old, new)
      BY <2>2, <2>3, <3>1
      DEF Register!Invoke, Register!Idle, Register!Swap, calls
    <3>3. QED
      BY <3>2 DEF Register!Next, Register!Vals, Vals
  <2>5. ASSUME NEW n \in Names,
               AppendLog(p, n) \/ \E k \in Keeps, c \in Times : ExpireLog(p, n, k, c)
        PROVE  [Register!Next]_(Register!vars)
    <3>1. op'[p].kind # "swap"
      BY <1>a, <2>5 DEF AppendLog, ExpireLog, Begin
    <3>2. CallOf(p)' = [state |-> "idle"]
      BY <3>1 DEF CallOf
    <3>3. QED
      BY <2>2, <2>3, <3>2, <1>g
  <2>6. QED
    BY <1>3, <2>4, <2>5 DEF Call
<1>4. ASSUME NEW p \in Procs, Step(p) PROVE [Register!Next]_(Register!vars)
  <2> USE DEF Goto, Finish
  <2>1. CASE Acquire(p)
    <3>1. calls' = [calls EXCEPT ![p] = CallOf(p)']
      BY <1>a, <2>1, OtherCalls DEF Acquire
    <3>2. CallOf(p)' = CallOf(p)
      BY <1>a, <2>1 DEF Acquire, FirstStep, CallOf, CallAs
    <3>3. QED
      BY <2>1, <3>1, <3>2, <1>g DEF Acquire
  <2>2. CASE TimeOut(p) \/ Unlock(p)
    <3>1. calls' = [calls EXCEPT ![p] = CallOf(p)'] /\ UNCHANGED refs
      BY <1>a, <2>2, OtherCalls DEF TimeOut, Unlock
    <3>2. CallOf(p)' = [state |-> "idle"]
      BY <1>a, <2>2 DEF TimeOut, Unlock, CallOf
    <3>3. CallOf(p) = [state |-> "idle"] \/ CallOf(p).state \in {"pending", "moved", "refused"}
      BY DEF CallOf, CallAs
    <3>4. QED
      BY <3>1, <3>2, <3>3, <1>g, <1>i
  <2>4. CASE Check(p)
    <3>0. op[p].kind = "swap" /\ UNCHANGED <<refs, op>>
      BY <2>4 DEF Check, IInv, PhaseMatches
    <3>1. calls' = [calls EXCEPT ![p] = CallOf(p)']
      BY <1>a, <2>4, OtherCalls DEF Check
    <3>2. CASE refs[op[p].name] # op[p].old
      <4>1. CallOf(p) = CallAs(p, "pending") /\ CallOf(p)' = CallAs(p, "refused")
        BY <1>a, <2>4, <3>0, <3>2 DEF Check, CallOf, CallAs
      <4>2. /\ CallOf(p).state = "pending" /\ CallOf(p).name = op[p].name
            /\ CallOf(p).old = op[p].old /\ CallOf(p).new = op[p].new
        BY <4>1 DEF CallAs
      <4>3. CallOf(p)' = Register!Swap(CallOf(p).name, CallOf(p).old, CallOf(p).new, "refused")
        BY <4>1, <4>2 DEF CallAs, Register!Swap
      <4>4. Register!Refuse(p)
        BY <3>0, <3>1, <3>2, <4>2, <4>3 DEF Register!Refuse, calls
      <4>5. QED
        BY <4>4 DEF Register!Next
    <3>3. CASE refs[op[p].name] = op[p].old
      <4>1. CallOf(p)' = CallOf(p)
        BY <1>a, <2>4, <3>0, <3>3 DEF Check, CallOf, CallAs
      <4>2. QED
        BY <3>0, <3>1, <4>1, <1>g
    <3>4. QED
      BY <3>2, <3>3
  <2>5. CASE CreateTemp(p) \/ FillTemp(p)
    <3>1. calls' = [calls EXCEPT ![p] = CallOf(p)'] /\ UNCHANGED refs
      BY <1>a, <2>5, OtherCalls DEF CreateTemp, FillTemp
    <3>2. CallOf(p)' = CallOf(p)
      BY <1>a, <2>5 DEF CreateTemp, FillTemp, CallOf, CallAs
    <3>3. QED
      BY <3>1, <3>2, <1>g
  <2>6. CASE Rename(p) \/ RemoveRef(p)
    <3>0. op[p].kind = "swap" /\ SetRef(p) /\ pc[p] \in {"rename", "remove"}
      BY <2>6 DEF Rename, RemoveRef, IInv, PhaseMatches
    <3>1. calls' = [calls EXCEPT ![p] = CallOf(p)']
      BY <1>a, <3>0, OtherCalls DEF SetRef
    <3>2. CallOf(p) = CallAs(p, "pending") /\ CallOf(p)' = CallAs(p, "moved")
      BY <1>a, <3>0 DEF SetRef, CallOf, CallAs
    <3>3. refs[op[p].name] = op[p].old
      BY <3>0 DEF IInv, CheckedValueHolds
    <3>4. /\ CallOf(p).state = "pending" /\ CallOf(p).name = op[p].name
          /\ CallOf(p).old = op[p].old /\ CallOf(p).new = op[p].new
      BY <3>2 DEF CallAs
    <3>5. CallOf(p)' = Register!Swap(CallOf(p).name, CallOf(p).old, CallOf(p).new, "moved")
      BY <3>0, <3>2, <3>4 DEF CallAs, Register!Swap
    <3>6. Register!Move(p)
      BY <3>0, <3>1, <3>3, <3>4, <3>5 DEF Register!Move, calls, SetRef
    <3>7. QED
      BY <3>6 DEF Register!Next
  <2>7. ASSUME NEW t \in Times, appendLog(p, t) PROVE [Register!Next]_(Register!vars)
    <3>1. calls' = [calls EXCEPT ![p] = CallOf(p)'] /\ UNCHANGED refs
      BY <1>a, <2>7, OtherCalls DEF appendLog
    <3>2. CallOf(p)' = CallOf(p)
      BY <1>a, <2>7 DEF appendLog, CallOf, CallAs
    <3>3. QED
      BY <3>1, <3>2, <1>g
  <2>8. CASE ExpireRead(p) \/ RewriteLog(p)
    <3>0. op[p].kind = "expire" /\ UNCHANGED <<refs, op>>
      BY <2>8 DEF ExpireRead, RewriteLog, IInv, PhaseMatches
    <3>1. calls' = [calls EXCEPT ![p] = CallOf(p)']
      BY <1>a, <2>8, OtherCalls DEF ExpireRead, RewriteLog
    <3>2. CallOf(p)' = CallOf(p)
      BY <3>0 DEF CallOf
    <3>3. QED
      BY <3>0, <3>1, <3>2, <1>g
  <2>9. QED
    BY <1>4, <2>1, <2>2, <2>4, <2>5, <2>6, <2>7, <2>8 DEF Step
<1>5. ASSUME NEW p \in Procs, Failure(p) PROVE [Register!Next]_(Register!vars)
  <2> USE DEF Goto, Finish
  <2>0. CallOf(p) = [state |-> "idle"] \/ CallOf(p).state \in {"pending", "moved", "refused"}
    BY DEF CallOf, CallAs
  <2>1. CASE LockError(p) \/ IOError(p) \/ Restart(p) \/ \E t \in Times : Crash(p, t)
    <3>1. calls' = [calls EXCEPT ![p] = CallOf(p)'] /\ UNCHANGED refs
      BY <1>a, <2>1, OtherCalls DEF LockError, IOError, Restart, Crash
    <3>2. CallOf(p)' = [state |-> "idle"]
      BY <1>a, <2>1 DEF LockError, IOError, Restart, Crash, CallOf
    <3>3. QED
      BY <2>0, <3>1, <3>2, <1>g, <1>i
  <2>2. ASSUME NEW t \in Times, AppendError(p, t) PROVE [Register!Next]_(Register!vars)
    <3>1. calls' = [calls EXCEPT ![p] = CallOf(p)'] /\ UNCHANGED refs
      BY <1>a, <2>2, OtherCalls DEF AppendError
    <3>2. CallOf(p)' = CallOf(p)
      BY <1>a, <2>2 DEF AppendError, CallOf, CallAs
    <3>3. QED
      BY <3>1, <3>2, <1>g
  <2>3. QED
    BY <1>5, <2>1, <2>2 DEF Failure
<1>6. QED
  BY <1>1, <1>2, <1>3, <1>4, <1>5 DEF Next

\* The lock-file implementation, with its faults and crashes, implements the
\* atomic compare-and-swap register.
THEOREM Refinement == Spec => ImplementsRegister
<1>2. IInv /\ [Next]_vars => [Register!Next]_(Register!vars)
  BY NextRefines
<1>3. QED
  BY InitRefines, Inductive, <1>2, PTL DEF Spec, ImplementsRegister, Register!Spec

-----------------------------------------------------------------------------
(* The reflogs tell the history.                                            *)

\* f tells which line is about which move: the lines S are about the moves of mv that are numbered
\* in L, in that order.
Tells(f, L, S, mv) ==
    /\ f \in [L -> S]
    /\ \A e \in S : \E i \in L : f[i] = e
    /\ \A i, j \in L : i < j => f[i].pos < f[j].pos
    /\ \A i \in L : mv[i] = <<f[i].old, f[i].new>>

\* Positions grow along a file.
Numbered == \A n \in Names : \A e \in log[n] : e.pos < size[n]

\* A ref holds what it was moved to last, and was moved there from what it held before.
Chained ==
    \A n \in Names :
       /\ logged[n] \subseteq 1 .. Len(moves[n])
       /\ refs[n] = IF Len(moves[n]) = 0 THEN NoId ELSE moves[n][Len(moves[n])][2]
       /\ \A i \in 1 .. Len(moves[n]) - 1 : moves[n][i + 1][1] = moves[n][i][2]

\* A swap that is about to append its line has made the last move of its ref, and no line tells it yet.
Untold ==
    \A p \in Procs :
       (pc[p] = "append" /\ op[p].kind = "swap") =>
          LET m == moves[op[p].name] IN
          Len(m) \in Nat \ {0} /\ Len(m) \notin logged[op[p].name] /\ m[Len(m)] = <<op[p].old, op[p].new>>

\* Until lines are dropped, the swap lines of a reflog tell the moves that were logged.
Telling == \A n \in Names : ~expired[n] => \E f : Tells(f, logged[n], SwapLines(n), moves[n])

\* The inductive invariant: what the lock protects, and what the lines say.
HInv == IInv /\ Numbered /\ Chained /\ Untold /\ Telling

\* A line and a move that as many others come before are about each other.
Ranked(f, L, S) ==
    \A e \in S, i \in L :
       Cardinality({g \in S : g.pos < e.pos}) = Cardinality({j \in L : j < i}) => f[i] = e

\* Lines tell the moves whose rank is theirs, so the one with the rank of a move is its line.
LEMMA SameRank ==
  ASSUME NEW f, NEW L \in SUBSET Nat, NEW S, NEW mv, IsFiniteSet(L), Tells(f, L, S, mv),
         \A e \in S : e.pos \in Nat
  PROVE  IsFiniteSet(S) /\ Cardinality(S) = Cardinality(L) /\ Ranked(f, L, S)
<1> DEFINE below(e) == {g \in S : g.pos < e.pos}
           before(i) == {j \in L : j < i}
<1>1. \A i, j \in L : /\ f[i] \in S /\ f[i].pos \in Nat /\ i \in Nat
                      /\ i < j <=> f[i].pos < f[j].pos
  BY DEF Tells
<1>0. \A i, j \in L : f[i] = f[j] => i = j
  <2> SUFFICES ASSUME NEW i \in L, NEW j \in L, f[i] = f[j] PROVE i = j
    OBVIOUS
  <2>1. ~(f[i].pos < f[j].pos) /\ ~(f[j].pos < f[i].pos)
    <3>1. f[i].pos \in Nat /\ f[j].pos = f[i].pos
      BY <1>1
    <3> QED
      BY <3>1
  <2>2. ~(i < j) /\ ~(j < i)
    BY <1>1, <2>1
  <2>3. i \in Nat /\ j \in Nat
    OBVIOUS
  <2> HIDE DEF below, before
  <2> QED
    BY <2>2, <2>3
<1>2. f \in Bijection(L, S)
  <2>1. f \in Injection(L, S)
    BY <1>0 DEF Tells, Injection, IsInjective
  <2> QED
    BY <2>1 DEF Tells, Bijection, Surjection
<1>3. IsFiniteSet(S) /\ Cardinality(S) = Cardinality(L)
  BY <1>2, FS_Bijection DEF ExistsBijection
<1>4. ASSUME NEW i \in L PROVE Cardinality(below(f[i])) = Cardinality(before(i))
  <2> DEFINE g == [j \in before(i) |-> f[j]]
  <2>1. g \in [before(i) -> below(f[i])]
    BY <1>1
  <2>2. \A a, b \in before(i) : g[a] = g[b] => a = b
    BY <1>0
  <2>3. \A e \in below(f[i]) : \E j \in before(i) : g[j] = e
    BY <1>1 DEF Tells
  <2>5. IsFiniteSet(before(i))
    BY FS_Subset
  <2> HIDE DEF g, before, below
  <2>4. g \in Bijection(before(i), below(f[i]))
    BY <2>1, <2>2, <2>3 DEF Bijection, Surjection, Injection, IsInjective
  <2> QED
    BY <2>4, <2>5, FS_Bijection DEF ExistsBijection
<1>5. ASSUME NEW i \in L, NEW k \in L, i < k PROVE Cardinality(below(f[i])) # Cardinality(below(f[k]))
  <2>0. f[i].pos \in Nat /\ f[k].pos \in Nat /\ f[i].pos < f[k].pos /\ f[i] \in S
    BY <1>1, <1>5
  <2>1. below(f[i]) \subseteq below(f[k]) /\ f[i] \in below(f[k]) /\ f[i] \notin below(f[i])
    BY <2>0
  <2>2. IsFiniteSet(below(f[k]))
    BY <1>3, FS_Subset
  <2> HIDE DEF below
  <2> QED
    BY <2>1, <2>2, FS_Subset
<1>6. ASSUME NEW e \in S, NEW i \in L, Cardinality(below(e)) = Cardinality(before(i)) PROVE f[i] = e
  <2>1. PICK k \in L : f[k] = e
    BY DEF Tells
  <2>2. Cardinality(below(f[i])) = Cardinality(below(f[k]))
    BY <1>4, <1>6, <2>1
  <2>3. ~(i < k) /\ ~(k < i)
    BY <1>5, <2>2
  <2> QED
    BY <1>1, <2>1, <2>3
<1> QED
  BY <1>3, <1>6 DEF Ranked

\* One more line, after all the others, about the last of the moves.
LEMMA TellsOneMore ==
  ASSUME NEW f, NEW L, NEW S, NEW mv, NEW n \in Nat, Tells(f, L, S, mv), L \subseteq 1 .. n, n \notin L,
         NEW e, mv[n] = <<e.old, e.new>>, \A g \in S : g.pos < e.pos, e.pos \in Nat
  PROVE  \E h : Tells(h, L \cup {n}, S \cup {e}, mv)
<1> DEFINE h == [i \in L \cup {n} |-> IF i = n THEN e ELSE f[i]]
<1>1. h[n] = e /\ \A i \in L : h[i] = f[i] /\ i # n /\ i < n /\ f[i] \in S
  BY DEF Tells
<1>2. h \in [L \cup {n} -> S \cup {e}]
  BY DEF Tells
<1> HIDE DEF h
<1>3. \A g \in S \cup {e} : \E i \in L \cup {n} : h[i] = g
  BY <1>1 DEF Tells
<1>4. \A i, j \in L \cup {n} : i < j => h[i].pos < h[j].pos
  BY <1>1 DEF Tells
<1>5. \A i \in L \cup {n} : mv[i] = <<h[i].old, h[i].new>>
  BY <1>1 DEF Tells
<1> QED
  BY <1>2, <1>3, <1>4, <1>5 DEF Tells

\* A step that moves no ref, adds no line and drops none.
LEMMA HistoryStays ==
  ASSUME HInv, IInv', UNCHANGED <<refs, log, size, moves, logged, expired>>,
         \A q \in Procs : (pc'[q] = "append" /\ op'[q].kind = "swap") => (pc[q] = "append" /\ op'[q] = op[q])
  PROVE  HInv'
BY DEF HInv, Numbered, Chained, Untold, Telling, SwapLines

\* While one process is in the critical section, no other appends.
LEMMA Alone ==
  ASSUME IInv, NEW p \in Procs, pc[p] \in Critical
  PROVE  \A q \in Procs : q # p => pc[q] # "append"
BY DEF IInv, LockExclusive, Critical

\* A move: its line is still to be written.
LEMMA MoveTold ==
  ASSUME HInv, IInv', NEW p \in Procs, pc[p] \in {"remove", "rename"}, op[p].kind = "swap", SetRef(p)
  PROVE  HInv'
<1> DEFINE n == op[p].name
           mv == moves[n]
           m == <<op[p].old, op[p].new>>
<1>1. /\ n \in Names /\ m \in Vals \X Vals /\ mv \in Seq(Vals \X Vals) /\ Len(mv) \in Nat
      /\ refs[n] = op[p].old
  BY DEF HInv, IInv, TypeOK, Op, CheckedValueHolds
<1>2. /\ moves'[n] = Append(mv, m) /\ refs'[n] = op[p].new
      /\ \A k \in Names : k # n => moves'[k] = moves[k] /\ refs'[k] = refs[k]
      /\ UNCHANGED <<log, size, logged, expired, op>>
  BY <1>1 DEF SetRef, HInv, IInv, TypeOK
<1>3. /\ Len(moves'[n]) = Len(mv) + 1 /\ moves'[n][Len(mv) + 1] = m
      /\ \A i \in 1 .. Len(mv) : moves'[n][i] = mv[i]
  BY <1>1, <1>2, AppendProperties
<1>4. logged[n] \subseteq 1 .. Len(mv)
  BY <1>1 DEF HInv, Chained
<1>5. Chained'
  <2> SUFFICES ASSUME NEW k \in Names
               PROVE  /\ logged'[k] \subseteq 1 .. Len(moves'[k])
                      /\ refs'[k] = IF Len(moves'[k]) = 0 THEN NoId ELSE moves'[k][Len(moves'[k])][2]
                      /\ \A i \in 1 .. Len(moves'[k]) - 1 : moves'[k][i + 1][1] = moves'[k][i][2]
    BY DEF Chained
  <2>1. CASE k # n
    BY <1>2, <2>1 DEF HInv, Chained
  <2>2. CASE k = n
    <3>1. m[1] = op[p].old /\ m[2] = op[p].new
      OBVIOUS
    <3>2. Len(mv) # 0 => mv[Len(mv)][2] = op[p].old
      BY <1>1 DEF HInv, Chained
    <3>3. \A i \in 1 .. Len(mv) - 1 : mv[i + 1][1] = mv[i][2]
      BY <1>1 DEF HInv, Chained
    <3> HIDE DEF m, mv
    <3>4. PICK seq, len : seq = moves'[n] /\ len = Len(mv)
      OBVIOUS
    <3>5. /\ len \in Nat /\ Len(seq) = len + 1 /\ seq[len + 1] = m /\ \A i \in 1 .. len : seq[i] = mv[i]
      BY <1>1, <1>3, <3>4
    <3>6. \A i \in 1 .. len : seq[i + 1][1] = seq[i][2]
      <4> SUFFICES ASSUME NEW i \in 1 .. len PROVE seq[i + 1][1] = seq[i][2]
        OBVIOUS
      <4>1. CASE i = len
        BY <3>1, <3>2, <3>4, <3>5, <4>1
      <4>2. CASE i # len
        <5>1. i \in 1 .. len - 1 /\ i + 1 \in 1 .. len
          BY <3>5, <4>2
        <5> QED
          BY <3>3, <3>4, <3>5, <5>1
      <4> QED
        BY <4>1, <4>2
    <3>7. logged[n] \subseteq 1 .. len + 1 /\ len + 1 # 0 /\ (len + 1) - 1 = len
      BY <1>4, <3>4, <3>5
    <3>8. refs'[n] = seq[len + 1][2]
      BY <1>2, <3>1, <3>5
    <3>9. /\ logged[n] \subseteq 1 .. Len(seq)
          /\ refs'[n] = IF Len(seq) = 0 THEN NoId ELSE seq[Len(seq)][2]
          /\ \A i \in 1 .. Len(seq) - 1 : seq[i + 1][1] = seq[i][2]
      BY <3>5, <3>6, <3>7, <3>8
    <3> QED
      BY <1>2, <2>2, <3>4, <3>9
  <2> QED
    BY <2>1, <2>2
<1>6. Untold'
  <2>1. \A q \in Procs : q # p => pc'[q] # "append"
    BY Alone DEF HInv, IInv, TypeOK, Critical, SetRef, Goto
  <2>2. Len(mv) + 1 \notin logged'[n] /\ Len(mv) + 1 \in Nat \ {0}
    BY <1>1, <1>2, <1>4
  <2> QED
    BY <1>2, <1>3, <2>1, <2>2 DEF Untold
<1>7. Telling'
  <2> SUFFICES ASSUME NEW k \in Names, ~expired[k]
               PROVE  \E f : Tells(f, logged[k], SwapLines(k), moves'[k])
    BY <1>2 DEF Telling, SwapLines
  <2>1. PICK f : Tells(f, logged[k], SwapLines(k), moves[k])
    BY DEF HInv, Telling
  <2>2. \A i \in logged[k] : moves'[k][i] = moves[k][i]
    BY <1>2, <1>3, <1>4
  <2>3. Tells(f, logged[k], SwapLines(k), moves'[k])
    BY <2>1, <2>2 DEF Tells
  <2> QED
    BY <2>3
<1> QED
  BY <1>2, <1>5, <1>6, <1>7 DEF HInv, Numbered

\* A line that is written whole is the next one, about the move that was still to be told.
LEMMA LineTold ==
  ASSUME HInv, IInv', NEW p \in Procs, NEW t \in Times, pc[p] = "append", pc'[p] # "append",
         \A q \in Procs : q # p => pc'[q] = pc[q],
         AddLine(p, t), UNCHANGED <<refs, op, moves, expired>>
  PROVE  HInv'
<1> DEFINE n == op[p].name
           e == Line(p, t)
<1>1. n \in Names /\ size[n] \in Nat /\ log \in [Names -> SUBSET LogEntry]
  BY DEF HInv, IInv, TypeOK, Op
<1>2. /\ log'[n] = log[n] \cup {e} /\ size'[n] = size[n] + 1
      /\ \A k \in Names : k # n => log'[k] = log[k] /\ size'[k] = size[k]
  BY <1>1 DEF AddLine, HInv, IInv, TypeOK
<1>3. /\ e.pos = size[n] /\ e.old = op[p].old /\ e.new = op[p].new
      /\ op[p].kind = "swap" => e.kind = "swap"
      /\ op[p].kind # "swap" => e.kind # "swap"
  BY DEF Line
<1> HIDE DEF e
<1>4. Numbered'
  <2>1. \A g \in log[n] : g.pos \in Nat /\ g.pos < size[n]
    BY <1>1 DEF HInv, Numbered, LogEntry
  <2>2. \A g \in log'[n] : g.pos < size'[n]
    BY <1>1, <1>2, <1>3, <2>1
  <2>3. \A k \in Names : k # n => \A g \in log'[k] : g.pos < size'[k]
    BY <1>2 DEF HInv, Numbered
  <2> QED
    BY <2>2, <2>3 DEF Numbered
<1>5. \A q \in Procs : pc'[q] # "append"
  BY Alone DEF HInv, Critical
<1>6. Untold'
  BY <1>5 DEF Untold
<1>7. CASE op[p].kind # "swap"
  <2>1. logged' = logged
    BY <1>7 DEF AddLine
  <2>2. \A k \in Names : SwapLines(k)' = SwapLines(k)
    BY <1>2, <1>3, <1>7 DEF SwapLines
  <2>3. Chained' /\ Telling'
    BY <2>1, <2>2 DEF HInv, Chained, Telling
  <2> QED
    BY <1>4, <1>6, <2>3 DEF HInv
<1>8. CASE op[p].kind = "swap"
  <2> DEFINE len == Len(moves[n])
  <2>1. /\ len \in Nat \ {0} /\ len \notin logged[n] /\ moves[n][len] = <<op[p].old, op[p].new>>
    BY <1>8 DEF HInv, Untold
  <2>2. logged'[n] = logged[n] \cup {len} /\ \A k \in Names : k # n => logged'[k] = logged[k]
    BY <1>1, <1>8 DEF AddLine, HInv, IInv, TypeOK
  <2>3. SwapLines(n)' = SwapLines(n) \cup {e} /\ \A k \in Names : k # n => SwapLines(k)' = SwapLines(k)
    BY <1>2, <1>3, <1>8 DEF SwapLines
  <2>4. Chained'
    <3>1. \A k \in Names : logged'[k] \subseteq 1 .. Len(moves[k])
      <4>1. logged[n] \cup {len} \subseteq 1 .. len
        BY <1>1, <2>1 DEF HInv, Chained
      <4> QED
        BY <2>2, <4>1 DEF HInv, Chained
    <3> QED
      BY <3>1 DEF HInv, Chained
  <2>5. Telling'
    <3> SUFFICES ASSUME NEW k \in Names, ~expired[k]
                 PROVE  \E f : Tells(f, logged'[k], SwapLines(k)', moves[k])
      BY DEF Telling, SwapLines
    <3>1. PICK f : Tells(f, logged[k], SwapLines(k), moves[k])
      BY DEF HInv, Telling
    <3>2. CASE k # n
      BY <2>2, <2>3, <3>1, <3>2
    <3>3. CASE k = n
      <4>1. \A g \in SwapLines(n) : g.pos < e.pos
        BY <1>1, <1>3 DEF HInv, Numbered, SwapLines
      <4>2. logged[n] \subseteq 1 .. len /\ e.pos \in Nat /\ moves[n][len] = <<e.old, e.new>>
        BY <1>1, <1>3, <2>1 DEF HInv, Chained
      <4>3. Tells(f, logged[n], SwapLines(n), moves[n]) /\ len \in Nat /\ len \notin logged[n]
        BY <2>1, <3>1, <3>3
      <4> HIDE DEF len
      <4>4. \E h : Tells(h, logged[n] \cup {len}, SwapLines(n) \cup {e}, moves[n])
        BY <4>1, <4>2, <4>3, TellsOneMore
      <4> QED
        BY <2>2, <2>3, <3>3, <4>4
    <3> QED
      BY <3>2, <3>3
  <2> QED
    BY <1>4, <1>6, <2>4, <2>5 DEF HInv
<1> QED
  BY <1>7, <1>8

\* A line glued from two tells of no move.
LEMMA GluedTold ==
  ASSUME HInv, IInv', NEW p \in Procs, pc[p] = "append", \A q \in Procs : pc'[q] # "append",
         AddGlued(p), UNCHANGED <<refs, op, moves, expired>>
  PROVE  HInv'
<1> DEFINE n == op[p].name
<1>1. n \in Names /\ size[n] \in Nat /\ size \in [Names -> Nat] /\ log \in [Names -> SUBSET LogEntry]
  BY DEF HInv, IInv, TypeOK, Op
<1>2. PICK e \in LogEntry : log' = [log EXCEPT ![n] = @ \cup {e}] /\ e.pos = size[n] /\ e.kind = "glued"
  BY GluedLine DEF HInv, IInv
<1>3. /\ log'[n] = log[n] \cup {e} /\ size'[n] = size[n] + 1
      /\ \A k \in Names : k # n => log'[k] = log[k] /\ size'[k] = size[k]
      /\ logged' = logged
  BY <1>1, <1>2 DEF AddGlued
<1>4. Numbered'
  <2>1. \A g \in log[n] : g.pos \in Nat /\ g.pos < size[n]
    BY <1>1 DEF HInv, Numbered, LogEntry
  <2>2. \A g \in log'[n] : g.pos < size'[n]
    BY <1>1, <1>2, <1>3, <2>1
  <2>3. \A k \in Names : k # n => \A g \in log'[k] : g.pos < size'[k]
    BY <1>3 DEF HInv, Numbered
  <2> QED
    BY <2>2, <2>3 DEF Numbered
<1>5. Untold'
  BY DEF Untold
<1>6. \A k \in Names : SwapLines(k)' = SwapLines(k)
  BY <1>2, <1>3 DEF SwapLines
<1>7. Chained' /\ Telling'
  BY <1>3, <1>6 DEF HInv, Chained, Telling
<1> QED
  BY <1>4, <1>5, <1>7 DEF HInv

\* Whatever a write leaves behind, whole or interrupted.
LEMMA WriteTold ==
  ASSUME HInv, IInv', NEW p \in Procs, NEW t \in Times, NEW l \in PCs,
         pc[p] = "append", l # "append", pc' = [pc EXCEPT ![p] = l],
         WriteLine(p, t) \/ TearLine(p, t), UNCHANGED <<refs, op, moves, expired>>
  PROVE  HInv'
<1>1. pc'[p] # "append" /\ \A q \in Procs : q # p => pc'[q] = pc[q]
  BY DEF HInv, IInv, TypeOK
<1>2. CASE AddLine(p, t)
  BY <1>1, <1>2, LineTold
<1>3. CASE UNCHANGED <<log, size, logged>>
  BY <1>1, <1>3, HistoryStays
<1>4. CASE AddGlued(p)
  <2>1. \A q \in Procs : pc'[q] # "append"
    BY <1>1, Alone DEF HInv, Critical
  <2> QED
    BY <1>4, <2>1, GluedTold
<1> QED
  BY <1>2, <1>3, <1>4 DEF WriteLine, TearLine

\* Of a log that has lost lines nothing is claimed any more.
LEMMA Expiring ==
  ASSUME HInv, IInv', NEW n \in Names, NEW l \in SUBSET log[n],
         log' = [log EXCEPT ![n] = l], expired' = [expired EXCEPT ![n] = TRUE],
         UNCHANGED <<refs, size, moves, logged, op>>,
         \A q \in Procs : pc'[q] = "append" => pc[q] = "append"
  PROVE  HInv'
<1>1. /\ log'[n] \subseteq log[n] /\ expired'[n]
      /\ \A k \in Names : k # n => log'[k] = log[k] /\ expired'[k] = expired[k]
  BY DEF HInv, IInv, TypeOK
<1>2. Numbered'
  BY <1>1 DEF HInv, Numbered
<1>3. Chained' /\ Untold'
  BY DEF HInv, Chained, Untold
<1>4. Telling'
  BY <1>1 DEF HInv, Telling, SwapLines
<1> QED
  BY <1>2, <1>3, <1>4 DEF HInv

\* Nothing has happened in the initial state.
LEMMA InitHInv == Init => HInv
<1> SUFFICES ASSUME Init PROVE HInv
  OBVIOUS
<1>1. IInv
  BY InitIInv
<1>2. /\ \A n \in Names : log[n] = {} /\ moves[n] = <<>> /\ logged[n] = {} /\ refs[n] = NoId
      /\ \A p \in Procs : pc[p] = "idle"
  BY DEF Init
<1>3. Numbered /\ Chained /\ Untold
  BY <1>2 DEF Numbered, Chained, Untold
<1>4. Telling
  <2> SUFFICES ASSUME NEW n \in Names PROVE \E f : Tells(f, logged[n], SwapLines(n), moves[n])
    BY DEF Telling
  <2>1. SwapLines(n) = {} /\ logged[n] = {}
    BY <1>2 DEF SwapLines
  <2>2. Tells([i \in {} |-> {}], {}, {}, moves[n])
    BY DEF Tells
  <2> QED
    BY <2>1, <2>2
<1> QED
  BY <1>1, <1>3, <1>4 DEF HInv

\* Only the moves, the appends and the expiries touch the history; one step for each of them.
LEMMA NextHInv == HInv /\ [Next]_vars => HInv'
<1> SUFFICES ASSUME HInv, [Next]_vars PROVE HInv'
  OBVIOUS
<1> USE DEF store, proc, hist
<1>0. IInv'
  BY NextIInv DEF HInv
<1>a. pc \in [Procs -> PCs] /\ op \in [Procs -> Op]
  BY DEF HInv, IInv, TypeOK
<1>1. CASE UNCHANGED vars
  BY <1>0, <1>1, HistoryStays DEF vars
<1>2. CASE BreakLock
  BY <1>0, <1>2, HistoryStays DEF BreakLock
<1>q. ASSUME NEW p \in Procs, NEW l \in PCs, pc' = [pc EXCEPT ![p] = l],
             l = "append" => op[p].kind # "swap",
             UNCHANGED <<refs, log, size, op, moves, logged, expired>>
      PROVE  HInv'
  BY <1>0, <1>a, <1>q, HistoryStays
<1>3. ASSUME NEW p \in Procs, Call(p) PROVE HInv'
  <2>1. PICK o : Begin(p, o)
    BY <1>3 DEF Call, CompareAndSwap, AppendLog, ExpireLog
  <2>2. /\ pc' = [pc EXCEPT ![p] = "lock"] /\ op' = [op EXCEPT ![p] = o]
        /\ UNCHANGED <<refs, log, size, moves, logged, expired>>
    BY <2>1 DEF Begin
  <2>3. \A q \in Procs : pc'[q] = "append" => (pc[q] = "append" /\ op'[q] = op[q])
    BY <1>a, <2>2
  <2> QED
    BY <1>0, <2>2, <2>3, HistoryStays
<1>4. ASSUME NEW p \in Procs, Step(p) PROVE HInv'
  <2> USE DEF Goto, Finish, PCs
  <2>1. CASE Acquire(p)
    BY <2>1, <1>q DEF Acquire, FirstStep
  <2>2. CASE TimeOut(p)
    BY <2>2, <1>q DEF TimeOut
  <2>3. CASE Unlock(p)
    BY <2>3, <1>q DEF Unlock
  <2>4. CASE Check(p)
    BY <2>4, <1>q DEF Check
  <2>5. CASE CreateTemp(p)
    BY <2>5, <1>q DEF CreateTemp
  <2>6. CASE FillTemp(p)
    BY <2>6, <1>q DEF FillTemp
  <2>7. CASE Rename(p)
    BY <1>0, <2>7, MoveTold DEF Rename
  <2>8. CASE RemoveRef(p)
    BY <1>0, <2>8, MoveTold DEF RemoveRef, HInv, IInv, PhaseMatches
  <2>9. ASSUME NEW t \in Times, appendLog(p, t) PROVE HInv'
    BY <1>0, <2>9, WriteTold DEF appendLog
  <2>10. CASE ExpireRead(p)
    <3> DEFINE n == op[p].name
    <3>1. n \in Names
      BY <1>a DEF Op
    <3>2. CASE UNCHANGED <<log, expired>>
      BY <2>10, <3>2, <1>q DEF ExpireRead
    <3>3. CASE /\ log' = [log EXCEPT ![n] = {}] /\ expired' = [expired EXCEPT ![n] = TRUE]
               /\ pc' = [pc EXCEPT ![p] = "unlock"]
      <4>1. \A q \in Procs : pc'[q] = "append" => pc[q] = "append"
        BY <1>a, <3>3
      <4> QED
        BY <1>0, <2>10, <3>1, <3>3, <4>1, Expiring DEF ExpireRead
    <3> QED
      BY <2>10, <3>2, <3>3 DEF ExpireRead
  <2>11. CASE RewriteLog(p)
    <3> DEFINE n == op[p].name
               l == Kept(log[n], op[p].keep, op[p].cutoff)
    <3>1. n \in Names /\ l \in SUBSET log[n]
      BY <1>a DEF Op, Kept
    <3>2. log' = [log EXCEPT ![n] = l]
      BY <2>11 DEF RewriteLog
    <3> HIDE DEF l
    <3>3. \A q \in Procs : pc'[q] = "append" => pc[q] = "append"
      BY <1>a, <2>11 DEF RewriteLog
    <3> QED
      BY <1>0, <2>11, <3>1, <3>2, <3>3, Expiring DEF RewriteLog
  <2> QED
    BY <1>4, <2>1, <2>2, <2>3, <2>4, <2>5, <2>6, <2>7, <2>8, <2>9, <2>10, <2>11 DEF Step
<1>5. ASSUME NEW p \in Procs, Failure(p) PROVE HInv'
  <2> USE DEF Goto, Finish, PCs
  <2>1. CASE LockError(p)
    BY <2>1, <1>q DEF LockError
  <2>2. CASE IOError(p)
    BY <2>2, <1>q DEF IOError
  <2>3. CASE Restart(p)
    BY <2>3, <1>q DEF Restart
  <2>4. ASSUME NEW t \in Times, AppendError(p, t) PROVE HInv'
    BY <1>0, <2>4, WriteTold DEF AppendError
  <2>5. ASSUME NEW t \in Times, Crash(p, t) PROVE HInv'
    <3>1. CASE pc[p] = "append"
      BY <1>0, <2>5, <3>1, WriteTold DEF Crash
    <3>2. CASE pc[p] # "append"
      BY <2>5, <3>2, <1>q DEF Crash
    <3> QED
      BY <3>1, <3>2
  <2> QED
    BY <1>5, <2>1, <2>2, <2>3, <2>4, <2>5 DEF Failure
<1> QED
  BY <1>1, <1>2, <1>3, <1>4, <1>5 DEF Next

\* The reflog of a ref that was not expired tells, line by line, the moves that were logged, in the
\* order they happened, whoever made them; and every value the ref ever held is named by a line or is
\* its value still, as long as no two moves in a row lost their line (reflog.go, refs.go).
THEOREM HistoryTold == Spec => []HistoryKept
<1>1. HInv => HistoryKept
  <2> SUFFICES ASSUME HInv PROVE HistoryKept
    OBVIOUS
  <2>1. ASSUME NEW n \in Names
        PROVE  /\ log[n] \subseteq LogEntry /\ Len(moves[n]) \in Nat /\ moves[n] \in Seq(Vals \X Vals)
               /\ logged[n] \subseteq 1 .. Len(moves[n]) /\ logged[n] \subseteq Nat /\ IsFiniteSet(logged[n])
    <3>1. log[n] \subseteq LogEntry /\ Len(moves[n]) \in Nat /\ moves[n] \in Seq(Vals \X Vals)
      BY DEF HInv, IInv, TypeOK
    <3>2. logged[n] \subseteq 1 .. Len(moves[n])
      BY DEF HInv, Chained
    <3>3. IsFiniteSet(1 .. Len(moves[n]))
      <4>1. \A k \in Nat : IsFiniteSet(1 .. k)
        BY FS_Interval
      <4> QED
        BY <3>1, <4>1
    <3> QED
      BY <3>1, <3>2, <3>3, FS_Subset
  <2>2. ReflogInOrder
    <3> SUFFICES ASSUME NEW n \in Names, ~expired[n]
                 PROVE  /\ Cardinality(SwapLines(n)) = Cardinality(logged[n])
                        /\ \A e \in SwapLines(n), i \in logged[n] :
                              Cardinality({g \in SwapLines(n) : g.pos < e.pos})
                                = Cardinality({j \in logged[n] : j < i})
                              => moves[n][i] = <<e.old, e.new>>
      BY DEF ReflogInOrder
    <3>1. PICK f : Tells(f, logged[n], SwapLines(n), moves[n])
      BY DEF HInv, Telling
    <3>2. \A e \in SwapLines(n) : e.pos \in Nat
      BY <2>1 DEF SwapLines, LogEntry
    <3>3. Cardinality(SwapLines(n)) = Cardinality(logged[n]) /\ Ranked(f, logged[n], SwapLines(n))
      BY <2>1, <3>1, <3>2, SameRank
    <3> QED
      BY <3>1, <3>3 DEF Tells, Ranked
  <2>3. HeldRecoverable
    <3> SUFFICES ASSUME NEW n \in Names, ~expired[n],
                        \A i \in 1 .. Len(moves[n]) - 1 : i \in logged[n] \/ i + 1 \in logged[n],
                        NEW i \in 1 .. Len(moves[n])
                 PROVE  moves[n][i][2] \in {NoId, refs[n]} \cup {e.old : e \in log[n]} \cup {e.new : e \in log[n]}
      BY DEF HeldRecoverable
    <3>1. PICK f : Tells(f, logged[n], SwapLines(n), moves[n])
      BY DEF HInv, Telling
    <3>2. \A k \in logged[n] : f[k] \in log[n] /\ moves[n][k][1] = f[k].old /\ moves[n][k][2] = f[k].new
      BY <3>1 DEF Tells, SwapLines
    <3>3. CASE i = Len(moves[n])
      BY <2>1, <3>3 DEF HInv, Chained
    <3>4. CASE i \in logged[n]
      BY <3>2, <3>4
    <3>5. CASE i # Len(moves[n]) /\ i + 1 \in logged[n]
      <4>1. i \in 1 .. Len(moves[n]) - 1
        BY <2>1, <3>5
      <4>2. moves[n][i + 1][1] = moves[n][i][2]
        BY <4>1 DEF HInv, Chained
      <4> QED
        BY <3>2, <3>5, <4>2
    <3>6. i = Len(moves[n]) \/ i \in 1 .. Len(moves[n]) - 1
      BY <2>1
    <3> QED
      BY <3>3, <3>4, <3>5, <3>6
  <2> QED
    BY <2>2, <2>3 DEF HistoryKept
<1>2. Spec => []HInv
  BY InitHInv, NextHInv, PTL DEF Spec
<1> QED
  BY <1>1, <1>2, PTL
=============================================================================
