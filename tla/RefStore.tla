------------------------------ MODULE RefStore ------------------------------
(* Package refs (internal/refs): refs are files replaced by rename, every
   mutation runs under one O_EXCL lock file, and each compare-and-swap appends
   a line to the ref's reflog after it has moved the ref.  Several processes
   share the directory; each may fail an I/O call or be killed between any two
   of them.  Nothing but the three directories survives a crash, and nothing
   breaks a lock file left behind.                                          *)
EXTENDS Naturals, FiniteSets, Sequences

CONSTANTS Procs,     \* processes and goroutines using the store
          Names,     \* ref names
          Ids,       \* object identities
          NoId,      \* a nil multihash: no value
          Times,     \* timestamps the clock may return; it may step back
          Keeps,     \* keepMax arguments of ExpireLog
          MaxOps,    \* bound: calls started
          MaxFaults  \* bound: I/O errors and crashes

ASSUME RefStoreAssumption ==
    /\ NoId \notin Ids
    /\ Names # {}
    /\ Times \subseteq Nat
    /\ Keeps \subseteq Nat
    /\ MaxOps \in Nat
    /\ MaxFaults \in Nat

VARIABLES
    lockFile,  \* the lock file exists
    refs,      \* refs[n]: content of n's file, NoId when there is none
    log,       \* log[n]: the complete lines of n's reflog, numbered by pos
    size,      \* size[n]: lines ever written to n's reflog
    tail,      \* tail[n]: how n's reflog ends (see appendLog)
    pc,        \* pc[p]: the next step of p's call
    op,        \* op[p]: the arguments of p's call
    out,       \* out[p]: the outcome of p's last call
    ops,       \* calls started so far
    faults,    \* faults so far
    \* History, read by the properties only:
    moves,     \* moves[n]: the <<old, new>> pairs n has gone through
    logged,    \* logged[n]: indices into moves[n] whose line was written whole
    expired    \* expired[n]: ExpireLog has dropped lines of n's reflog

store == <<lockFile, refs, log, size, tail>>
proc  == <<pc, op, out, ops, faults>>
hist  == <<moves, logged, expired>>
vars  == <<store, proc, hist>>

Vals == Ids \cup {NoId}

\* A reflog line.  kind stands for the message: a swap's, or the audit of a
\* rejected update ("refupdate rejected: ..."); "glued" is the header of one line
\* with the message of the next (see Glued).
LogEntry == [pos : Nat, old : Vals, new : Vals, ts : Times \cup {0},
             kind : {"swap", "audit", "glued"}]

\* How a reflog ends: with a whole line, with one whose newline is missing, with
\* one cut in its header, about half, or somewhere before that nothing parses.
Ends == [at : {"clean", "open", "cut", "damaged"}, half : Vals \X Vals]
End(at) == [at |-> at, half |-> <<NoId, NoId>>]

Op == [kind : {"none", "swap", "audit", "expire"}, name : Names,
       old : Vals, new : Vals, keep : Keeps \cup {0}, cutoff : Times \cup {0}]

PCs == {"idle", "lock", "check", "remove", "temp", "fill", "rename",
        "append", "expire", "unlock", "dead"}

\* The program points between acquiring the lock file and removing it.
Critical == {"check", "remove", "temp", "fill", "rename", "append", "expire",
             "unlock"}

TypeOK ==
    /\ lockFile \in BOOLEAN
    /\ refs \in [Names -> Vals]
    /\ log \in [Names -> SUBSET LogEntry]
    /\ size \in [Names -> Nat]
    /\ tail \in [Names -> Ends]
    /\ pc \in [Procs -> PCs]
    /\ op \in [Procs -> Op]
    /\ out \in [Procs -> {"none", "ok", "conflict", "error", "logerror", "timeout"}]
    /\ ops \in Nat
    /\ faults \in Nat
    /\ moves \in [Names -> Seq(Vals \X Vals)]
    /\ logged \in [Names -> SUBSET Nat]
    /\ expired \in [Names -> BOOLEAN]

Init ==
    /\ lockFile = FALSE
    /\ refs = [n \in Names |-> NoId]
    /\ log = [n \in Names |-> {}]
    /\ size = [n \in Names |-> 0]
    /\ tail = [n \in Names |-> End("clean")]
    /\ pc = [p \in Procs |-> "idle"]
    /\ op = [p \in Procs |-> [kind |-> "none", name |-> CHOOSE n \in Names : TRUE,
                               old |-> NoId, new |-> NoId, keep |-> 0, cutoff |-> 0]]
    /\ out = [p \in Procs |-> "none"]
    /\ ops = 0
    /\ faults = 0
    /\ moves = [n \in Names |-> <<>>]
    /\ logged = [n \in Names |-> {}]
    /\ expired = [n \in Names |-> FALSE]

-----------------------------------------------------------------------------
(* Starting a call.                                                         *)

Begin(p, o) ==
    /\ pc[p] = "idle"
    /\ ops < MaxOps
    /\ ops' = ops + 1
    /\ op' = [op EXCEPT ![p] = o]
    /\ pc' = [pc EXCEPT ![p] = "lock"]
    /\ out' = [out EXCEPT ![p] = "none"]
    /\ UNCHANGED <<store, faults, hist>>

\* CompareAndSwap, Create (old = nil) and Delete (new = nil) on a valid name;
\* ValidName and the multihash check refuse the others before anything happens.
CompareAndSwap(p, n, old, new) ==
    Begin(p, [kind |-> "swap", name |-> n, old |-> old, new |-> new,
              keep |-> 0, cutoff |-> 0])

\* The audit of a rejected update: the caller resolves the ref first and only
\* then calls AppendLog, which takes the lock.
AppendLog(p, n) ==
    Begin(p, [kind |-> "audit", name |-> n, old |-> refs[n], new |-> refs[n],
              keep |-> 0, cutoff |-> 0])

ExpireLog(p, n, k, c) ==
    Begin(p, [kind |-> "expire", name |-> n, old |-> NoId, new |-> NoId,
              keep |-> k, cutoff |-> c])

-----------------------------------------------------------------------------
(* The lock file.                                                           *)

Goto(p, l) == pc' = [pc EXCEPT ![p] = l]

Finish(p, l, r) == Goto(p, l) /\ out' = [out EXCEPT ![p] = r]

FirstStep(kind) == CASE kind = "swap"   -> "check"
                     [] kind = "audit"  -> "append"
                     [] kind = "expire" -> "expire"
                     [] OTHER           -> "unlock"

\* Mutant: the file is opened without O_EXCL.
AcquireShared(p) ==
    /\ pc[p] = "lock"
    /\ lockFile' = TRUE
    /\ Goto(p, FirstStep(op[p].kind))
    /\ UNCHANGED <<refs, log, size, tail, op, out, ops, faults, hist>>

\* O_CREATE|O_EXCL succeeds: p owns the lock file.
Acquire(p) ==
    /\ pc[p] = "lock"
    /\ ~lockFile
    /\ lockFile' = TRUE
    /\ Goto(p, FirstStep(op[p].kind))
    /\ UNCHANGED <<refs, log, size, tail, op, out, ops, faults, hist>>

\* Mutant: the lock loop has no deadline.
TimeOutNever(p) == FALSE /\ UNCHANGED <<vars, p>>

\* The ten-second deadline passes with the file still there.
TimeOut(p) ==
    /\ pc[p] = "lock"
    /\ lockFile
    /\ Finish(p, "idle", "timeout")
    /\ UNCHANGED <<store, op, ops, faults, hist>>

\* The deferred unlock: the file is removed, whoever created it.
Unlock(p) ==
    /\ pc[p] = "unlock"
    /\ lockFile' = FALSE
    /\ Goto(p, "idle")
    /\ UNCHANGED <<refs, log, size, tail, op, out, ops, faults, hist>>

-----------------------------------------------------------------------------
(* The body of CompareAndSwap.                                              *)

\* Mutant: a creation does not look whether the ref is there.
CheckNoCreate(p) ==
    /\ pc[p] = "check"
    /\ IF op[p].old # NoId /\ refs[op[p].name] # op[p].old
         THEN Finish(p, "unlock", "conflict")
         ELSE /\ Goto(p, IF op[p].new = NoId THEN "remove" ELSE "temp")
              /\ UNCHANGED out
    /\ UNCHANGED <<store, op, ops, faults, hist>>

\* readRef and the switch on the precondition.
Check(p) ==
    /\ pc[p] = "check"
    /\ IF refs[op[p].name] # op[p].old
         THEN Finish(p, "unlock", "conflict")
         ELSE /\ Goto(p, IF op[p].new = NoId THEN "remove" ELSE "temp")
              /\ UNCHANGED out
    /\ UNCHANGED <<store, op, ops, faults, hist>>

\* writeRef and rewriteFile create a temporary file beside the target ...
CreateTemp(p) ==
    /\ pc[p] = "temp"
    /\ Goto(p, "fill")
    /\ UNCHANGED <<store, op, out, ops, faults, hist>>

\* ... write, sync and close it ...
FillTemp(p) ==
    /\ pc[p] = "fill"
    /\ Goto(p, "rename")
    /\ UNCHANGED <<store, op, out, ops, faults, hist>>

\* The ref takes its new value; from here on every reader sees it.
SetRef(p) ==
    LET n == op[p].name IN
    /\ refs' = [refs EXCEPT ![n] = op[p].new]
    /\ moves' = [moves EXCEPT ![n] = Append(@, <<op[p].old, op[p].new>>)]
    /\ Goto(p, "append")
    /\ UNCHANGED <<lockFile, log, size, tail, op, out, ops, faults,
                   logged, expired>>

\* ... and rename it over the ref.
Rename(p) == pc[p] = "rename" /\ op[p].kind = "swap" /\ SetRef(p)

\* A deletion removes the ref's file instead.
RemoveRef(p) == pc[p] = "remove" /\ SetRef(p)

\* Mutants: the old value is not recorded; the timestamp is in another unit.
LineNoOld(p, t) ==
    [pos |-> size[op[p].name], old |-> NoId, new |-> op[p].new, ts |-> t,
     kind |-> IF op[p].kind = "swap" THEN "swap" ELSE "audit"]

LineOtherUnit(p, t) ==
    [pos |-> size[op[p].name], old |-> op[p].old, new |-> op[p].new,
     ts |-> 1000 * t, kind |-> IF op[p].kind = "swap" THEN "swap" ELSE "audit"]

\* The line p is about to append, stamped t.  Positions grow along the file.
Line(p, t) ==
    [pos |-> size[op[p].name], old |-> op[p].old, new |-> op[p].new, ts |-> t,
     kind |-> IF op[p].kind = "swap" THEN "swap" ELSE "audit"]

\* The line is in the file with its header whole, so ReadLog returns it.
AddLine(p, t) ==
    LET n == op[p].name IN
    /\ log' = [log EXCEPT ![n] = @ \cup {Line(p, t)}]
    /\ size' = [size EXCEPT ![n] = @ + 1]
    /\ logged' = IF op[p].kind = "swap"
                 THEN [logged EXCEPT ![n] = @ \cup {Len(moves[n])}] ELSE logged

\* The line a cut one and p's make together, where they parse: an identity that
\* p's line begins with takes the place of a missing field, and what is left is
\* taken for the actor and the message.  A missing new value can only be p's old
\* one, when p's new one, absent, passes for the time.
Glued(p, ts) ==
    LET n == op[p].name
        half == tail[n].half
    IN  {[pos |-> size[n], old |-> half[1], new |-> new, ts |-> ts, kind |-> "glued"] :
            new \in {half[2]} \cup {v \in {op[p].old} : op[p].new = NoId}}

AddGlued(p) ==
    LET n == op[p].name IN
    /\ \E ts \in Times \cup {0} : \E e \in Glued(p, ts) : log' = [log EXCEPT ![n] = @ \cup {e}]
    /\ size' = [size EXCEPT ![n] = @ + 1]
    /\ UNCHANGED logged

EndsNow(p, end) == tail' = [tail EXCEPT ![op[p].name] = end]

\* What a complete write of p's line leaves in the file.  After a line that
\* lost its newline the new one is read as the rest of that line's message;
\* after a line cut in its header the two are read as one, or nothing is readable
\* any more.
WriteLine(p, t) ==
    LET at == tail[op[p].name].at IN
    \/ at = "clean" /\ AddLine(p, t) /\ UNCHANGED tail
    \/ at = "open" /\ EndsNow(p, End("clean")) /\ UNCHANGED <<log, size, logged>>
    \/ at = "cut" /\ AddGlued(p) /\ EndsNow(p, End("clean"))
    \/ at = "cut" /\ EndsNow(p, End("damaged")) /\ UNCHANGED <<log, size, logged>>
    \/ at = "damaged" /\ UNCHANGED <<log, size, tail, logged>>

\* What an interrupted write of p's line may leave: nothing (or text glued to a
\* header or a message), the header cut short, or the message cut short (the entry
\* reads, its newline is missing).
TearLine(p, t) ==
    LET at == tail[op[p].name].at IN
    \/ UNCHANGED <<log, size, tail, logged>>
    \/ /\ at = "clean"
       /\ EndsNow(p, [at |-> "cut", half |-> <<op[p].old, op[p].new>>])
       /\ UNCHANGED <<log, size, logged>>
    \/ at = "clean" /\ AddLine(p, t) /\ EndsNow(p, End("open"))
    \/ at = "cut" /\ AddGlued(p) /\ EndsNow(p, End("open"))
    \/ at = "cut" /\ EndsNow(p, End("damaged")) /\ UNCHANGED <<log, size, logged>>

\* Does ReadLog parse every line?
Readable(n) == tail[n].at \in {"clean", "open"}

\* appendLog: one O_APPEND write of the line and a sync.
appendLog(p, t) ==
    /\ pc[p] = "append"
    /\ WriteLine(p, t)
    /\ Finish(p, "unlock", "ok")
    /\ UNCHANGED <<lockFile, refs, op, ops, faults, moves, expired>>

-----------------------------------------------------------------------------
(* The body of ExpireLog.                                                   *)

\* The lines the policy keeps: the last keepMax and those at or after cutoff.
Kept(l, keep, cutoff) ==
    {e \in l : \/ Cardinality({f \in l : f.pos > e.pos}) < keep
               \/ e.ts >= cutoff}

\* ReadLog and the retention loop.  A log that does not parse is an error; if
\* nothing is dropped the file is left alone; if nothing is kept it is removed;
\* otherwise a temporary file is renamed over it.
ExpireRead(p) ==
    LET n == op[p].name
        k == Kept(log[n], op[p].keep, op[p].cutoff)
    IN /\ pc[p] = "expire"
       /\ \/ /\ ~ Readable(n)
             /\ Finish(p, "unlock", "error")
             /\ UNCHANGED <<log, tail, expired>>
          \/ /\ Readable(n) /\ k = log[n]
             /\ Finish(p, "unlock", "ok")
             /\ UNCHANGED <<log, tail, expired>>
          \/ /\ Readable(n) /\ k # log[n] /\ k = {}
             /\ log' = [log EXCEPT ![n] = {}]
             /\ tail' = [tail EXCEPT ![n] = End("clean")]
             /\ expired' = [expired EXCEPT ![n] = TRUE]
             /\ Finish(p, "unlock", "ok")
          \/ /\ Readable(n) /\ k # log[n] /\ k # {}
             /\ Goto(p, "temp")
             /\ UNCHANGED <<log, tail, expired, out>>
       /\ UNCHANGED <<lockFile, refs, size, op, ops, faults, moves, logged>>

\* rewriteFile's rename: the kept lines, each with its newline.
RewriteLog(p) ==
    LET n == op[p].name IN
    /\ pc[p] = "rename"
    /\ op[p].kind = "expire"
    /\ log' = [log EXCEPT ![n] = Kept(@, op[p].keep, op[p].cutoff)]
    /\ tail' = [tail EXCEPT ![n] = End("clean")]
    /\ expired' = [expired EXCEPT ![n] = TRUE]
    /\ Finish(p, "unlock", "ok")
    /\ UNCHANGED <<lockFile, refs, size, op, ops, faults, moves, logged>>

-----------------------------------------------------------------------------
(* Failures.                                                                *)

Fault == faults < MaxFaults /\ faults' = faults + 1

\* The lock file cannot be created for another reason than being there.
LockError(p) ==
    /\ Fault
    /\ pc[p] = "lock"
    /\ Finish(p, "idle", "error")
    /\ UNCHANGED <<store, op, ops, hist>>

\* An I/O error before the ref or the log changed.  The deferred os.Remove
\* takes the temporary file away.
IOError(p) ==
    /\ Fault
    /\ pc[p] \in {"check", "remove", "temp", "fill", "rename", "expire"}
    /\ Finish(p, "unlock", "error")
    /\ UNCHANGED <<store, op, ops, hist>>

\* The append fails.  A swap reports the error although the ref has moved.  A
\* failed sync leaves a whole line, a failed write any part of it.
AppendError(p, t) ==
    /\ Fault
    /\ pc[p] = "append"
    /\ \/ WriteLine(p, t)
       \/ TearLine(p, t)
    /\ Finish(p, "unlock", "logerror")
    /\ UNCHANGED <<lockFile, refs, op, ops, moves, expired>>

\* p is killed.  The lock file stays, and a line being appended stays as far
\* as it was written; a temporary file nobody reads stays too.
Crash(p, t) ==
    /\ Fault
    /\ pc[p] \notin {"idle", "dead"}
    /\ IF pc[p] = "append"
         THEN WriteLine(p, t) \/ TearLine(p, t)
         ELSE UNCHANGED <<log, size, tail, logged>>
    /\ Goto(p, "dead")
    /\ UNCHANGED <<lockFile, refs, op, out, ops, moves, expired>>

\* A new process takes p's place.
Restart(p) ==
    /\ pc[p] = "dead"
    /\ Goto(p, "idle")
    /\ UNCHANGED <<store, op, out, ops, faults, hist>>

\* The operator, told which file everyone timed out on, removes a lock file no
\* running process owns.
BreakLock ==
    /\ lockFile
    /\ \A p \in Procs : pc[p] \notin Critical
    /\ lockFile' = FALSE
    /\ UNCHANGED <<refs, log, size, tail, proc, hist>>

-----------------------------------------------------------------------------
Step(p) ==
    \/ Acquire(p) \/ TimeOut(p) \/ Unlock(p)
    \/ Check(p) \/ CreateTemp(p) \/ FillTemp(p) \/ Rename(p) \/ RemoveRef(p)
    \/ \E t \in Times : appendLog(p, t)
    \/ ExpireRead(p) \/ RewriteLog(p)

Call(p) ==
    \E n \in Names :
       \/ \E old \in Vals, new \in Vals : CompareAndSwap(p, n, old, new)
       \/ AppendLog(p, n)
       \/ \E k \in Keeps, c \in Times : ExpireLog(p, n, k, c)

Failure(p) ==
    \/ LockError(p) \/ IOError(p) \/ Restart(p)
    \/ \E t \in Times : AppendError(p, t) \/ Crash(p, t)

Next == BreakLock \/ \E p \in Procs : Step(p) \/ Call(p) \/ Failure(p)

Spec == Init /\ [][Next]_vars

\* A running process keeps executing: its lock loop ends by acquiring or by the
\* deadline, and the rest of the call has no loop.
FairSpec == Spec /\ \A p \in Procs : WF_vars(Step(p))

-----------------------------------------------------------------------------
(* Properties.                                                              *)

\* The lock file works: of all running processes at most one is between its
\* acquisition and its release, and while one is the file exists, so that
\* nobody's deferred os.Remove takes away a lock somebody else holds.
LockExclusive ==
    \A p, q \in Procs : pc[p] \in Critical /\ pc[q] \in Critical => p = q /\ lockFile

\* The read-check-write sequence of CompareAndSwap is atomic: when a process is
\* about to replace or remove the file, the ref still holds the value that the
\* process compared, however long ago that was.
CheckedValueHolds ==
    \A p \in Procs :
       pc[p] \in {"remove", "temp", "fill", "rename"} /\ op[p].kind = "swap"
         => refs[op[p].name] = op[p].old

SwapLines(n) == {e \in log[n] : e.kind = "swap"}

\* The reflog tells the history of the ref in the order it happened: without
\* expiry, the k-th swap line is the k-th of the moves whose line was written,
\* whoever made them and however the writers interleaved (a line glued from two
\* is neither's).
ReflogInOrder ==
    \A n \in Names : ~expired[n] =>
       /\ Cardinality(SwapLines(n)) = Cardinality(logged[n])
       /\ \A e \in SwapLines(n), i \in logged[n] :
             Cardinality({f \in SwapLines(n) : f.pos < e.pos})
               = Cardinality({j \in logged[n] : j < i})
             => moves[n][i] = <<e.old, e.new>>

\* Universal undo survives isolated failures: as long as the log parses, was
\* not expired and no two moves in a row lost their line, every identity the
\* ref ever held is named by a line or is still its value, because the next
\* line's old value stands in for the line that was lost.
HeldRecoverable ==
    \A n \in Names :
       /\ Readable(n)
       /\ ~expired[n]
       /\ \A i \in 1 .. Len(moves[n]) - 1 : i \in logged[n] \/ i + 1 \in logged[n]
       => \A i \in 1 .. Len(moves[n]) :
             moves[n][i][2] \in {NoId, refs[n]} \cup {e.old : e \in log[n]}
                                  \cup {e.new : e \in log[n]}

\* What the reflogs are for (reflog.go AppendLog, ReadLog): they tell the moves of a ref in
\* order, and from them every value it ever held can be found again.
HistoryKept == ReflogInOrder /\ HeldRecoverable

\* The call state RefRegister sees: a swap is pending until the rename or the
\* refusing check, decided until the call returns.
CallAs(p, s) == [state |-> s, name |-> op[p].name, old |-> op[p].old, new |-> op[p].new]

CallOf(p) ==
    CASE /\ op[p].kind = "swap"
         /\ pc[p] \in {"lock", "check", "remove", "temp", "fill", "rename"}
           -> CallAs(p, "pending")
      [] /\ op[p].kind = "swap"
         /\ pc[p] = "append" \/ (pc[p] = "unlock" /\ out[p] \in {"ok", "logerror"})
           -> CallAs(p, "moved")
      [] op[p].kind = "swap" /\ pc[p] = "unlock" /\ out[p] = "conflict"
           -> CallAs(p, "refused")
      [] OTHER -> [state |-> "idle"]

Register == INSTANCE RefRegister WITH call <- [p \in Procs |-> CallOf(p)]

\* The store implements the atomic compare-and-swap register: every interleaving
\* of its steps, faults and crashes is, for a reader of the refs, a sequence of
\* indivisible swaps, each from exactly the value its caller expected.
ImplementsRegister == Register!Spec

\* Every call returns: the lock loop has a deadline, so even a lock file left
\* by a crash, or lock holders without end, cannot hang a caller.
CallsReturn ==
    \A p \in Procs : pc[p] \notin {"idle", "dead"} ~> pc[p] \in {"idle", "dead"}
=============================================================================
