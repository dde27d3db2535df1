------------------------------- MODULE Daemon -------------------------------
(* The local daemon (internal/daemon over internal/task): it mints a grant for
   each task, keeps the grant's key in a table it signs with, and serves the
   task on a socket of its own until the grant expires, the task is stopped or
   the daemon exits.  Every control request and every tick of the reaper runs in
   a goroutine of its own.  A step is what a goroutine does between two points
   where another can come in: the daemon's mutex, the table's mutex, a read of
   the clock and the closing of a socket.                                    *)
EXTENDS Integers

CONSTANTS Tasks,    \* the tasks that may be started; an id is a fresh key's
          Lists,    \* control connections that ask for the list or the status
          Signers,  \* control connections that ask for signatures
          TTLs,     \* the lifetimes a caller may ask for
          MaxTime   \* bound: the clock stops there

ASSUME DaemonAssumption ==
    /\ TTLs \subseteq Nat \ {0}
    /\ MaxTime \in Nat
    /\ "ticker" \notin Lists

\* Who calls Reap: the background ticker, and each list or status request.
Reapers == Lists \cup {"ticker"}

VARIABLES
    now,       \* the clock, in seconds
    phase,     \* serving; stopping: ServeControl returned; closed: the flag; exited
    tasks,     \* d.tasks: the served tasks
    table,     \* d.table: the grants that can sign
    notAfter,  \* notAfter[t]: when t's grant expires
    open,      \* the tasks whose listener is open
    files,     \* the tasks whose socket file is in the run directory
    start,     \* start[t]: how far the StartTask that mints t is
    stop,      \* stop[t]: how far the StopTask that takes t out is
    dead,      \* dead[r]: what r took out of d.tasks and has still to close
    reap,      \* reap[r]: the clock r's Reap has read, or Idle
    closer,    \* what Close took out of d.tasks and has still to close
    sign       \* sign[s]: the signature that s asks for

vars == <<now, phase, tasks, table, notAfter, open, files, start, stop, dead, reap, closer, sign>>

Time == 0 .. MaxTime

Idle == MaxTime + 1   \* no Reap is running

\* at: the clock the request was checked with; late: the request came after the
\* task's grant had expired, or after it was revoked.
Requests == [step : {"asked", "signed"}, task : Tasks, at : Time, late : BOOLEAN]

NoRequest == [step |-> "none"]

\* Every variable holds a value of the kind the code keeps there.
TypeOK ==
    /\ now \in Time
    /\ phase \in {"serving", "stopping", "closed", "exited"}
    /\ tasks \subseteq Tasks /\ table \subseteq Tasks
    /\ notAfter \in [Tasks -> Nat]
    /\ open \subseteq Tasks /\ files \subseteq Tasks
    /\ start \in [Tasks -> {"new", "bound", "served", "refused"}]
    /\ stop \in [Tasks -> {"idle", "taken", "forgotten", "returned"}]
    /\ dead \in [Reapers -> SUBSET Tasks]
    /\ reap \in [Reapers -> Time \cup {Idle}]
    /\ closer \subseteq Tasks
    /\ sign \in [Signers -> Requests \cup {NoRequest}]

Init ==
    /\ now = 0
    /\ phase = "serving"
    /\ tasks = {} /\ table = {}
    /\ notAfter = [t \in Tasks |-> 0]
    /\ open = {} /\ files = {}
    /\ start = [t \in Tasks |-> "new"]
    /\ stop = [t \in Tasks |-> "idle"]
    /\ dead = [r \in Reapers |-> {}]
    /\ reap = [r \in Reapers |-> Idle]
    /\ closer = {}
    /\ sign = [s \in Signers |-> NoRequest]

\* The process is there, and its goroutines run.
Up == phase # "exited"

\* Grant.Valid
Valid(t, time) == time <= notAfter[t]

\* Some call took t out of the daemon and has returned.
Revoked(t) ==
    /\ start[t] = "served" /\ t \notin tasks
    /\ stop[t] \in {"idle", "returned"}
    /\ t \notin closer /\ \A r \in Reapers : t \notin dead[r]

\* The listener of every task of S is closed and its file removed.
CloseSockets(S) ==
    /\ open' = open \ S
    /\ files' = files \ S

Tick ==
    /\ now < MaxTime
    /\ now' = now + 1
    /\ UNCHANGED <<phase, tasks, table, notAfter, open, files, start, stop, dead, reap, closer, sign>>

-----------------------------------------------------------------------------
(* StartTask.                                                               *)

\* Mutant: the lifetime is subtracted from the clock.
MintExpired(t) ==
    /\ Up /\ start[t] = "new"
    /\ \E ttl \in TTLs : notAfter' = [notAfter EXCEPT ![t] = now - ttl]
    /\ start' = [start EXCEPT ![t] = "bound"]
    /\ open' = open \cup {t}
    /\ files' = files \cup {t}
    /\ UNCHANGED <<now, phase, tasks, table, stop, dead, reap, closer, sign>>

\* task.New and readapi.ListenUnix: a fresh key, which expires a lifetime from
\* the clock it reads, and a socket; when one fails nothing is left.
Mint(t) ==
    /\ Up /\ start[t] = "new"
    /\ \E ttl \in TTLs : notAfter' = [notAfter EXCEPT ![t] = now + ttl]
    /\ start' = [start EXCEPT ![t] = "bound"]
    /\ open' = open \cup {t}
    /\ files' = files \cup {t}
    /\ UNCHANGED <<now, phase, tasks, table, stop, dead, reap, closer, sign>>

\* Mutant: the task is registered although the daemon is closed.
RegisterClosed(t) ==
    /\ Up /\ start[t] = "bound"
    /\ start' = [start EXCEPT ![t] = "served"]
    /\ tasks' = tasks \cup {t}
    /\ table' = table \cup {t}
    /\ UNCHANGED <<now, phase, notAfter, open, files, stop, dead, reap, closer, sign>>

\* Under the mutex: a closed daemon refuses, closing what was bound; otherwise
\* the task is served and its grant can sign.
Register(t) ==
    /\ Up /\ start[t] = "bound"
    /\ \/ /\ phase = "closed"
          /\ start' = [start EXCEPT ![t] = "refused"]
          /\ CloseSockets({t})
          /\ UNCHANGED <<tasks, table>>
       \/ /\ phase # "closed"
          /\ start' = [start EXCEPT ![t] = "served"]
          /\ tasks' = tasks \cup {t}
          /\ table' = table \cup {t}
          /\ UNCHANGED <<open, files>>
    /\ UNCHANGED <<now, phase, notAfter, stop, dead, reap, closer, sign>>

-----------------------------------------------------------------------------
(* StopTask.  An id that is not served is an error that changes nothing.    *)

Take(t) ==
    /\ Up /\ t \in tasks /\ stop[t] = "idle"
    /\ stop' = [stop EXCEPT ![t] = "taken"]
    /\ tasks' = tasks \ {t}
    /\ UNCHANGED <<now, phase, table, notAfter, open, files, start, dead, reap, closer, sign>>

\* Mutant: the grant stays in the table.
ForgetNothing(t) ==
    /\ Up /\ stop[t] = "taken"
    /\ stop' = [stop EXCEPT ![t] = "forgotten"]
    /\ UNCHANGED <<now, phase, tasks, table, notAfter, open, files, start, dead, reap, closer, sign>>

\* d.table.Remove
Forget(t) ==
    /\ Up /\ stop[t] = "taken"
    /\ stop' = [stop EXCEPT ![t] = "forgotten"]
    /\ table' = table \ {t}
    /\ UNCHANGED <<now, phase, tasks, notAfter, open, files, start, dead, reap, closer, sign>>

\* Mutant: the socket stays open.
StopHalfway(t) ==
    /\ Up /\ stop[t] = "forgotten"
    /\ stop' = [stop EXCEPT ![t] = "returned"]
    /\ UNCHANGED <<now, phase, tasks, table, notAfter, open, files, start, dead, reap, closer, sign>>

StopReturn(t) ==
    /\ Up /\ stop[t] = "forgotten"
    /\ stop' = [stop EXCEPT ![t] = "returned"]
    /\ CloseSockets({t})
    /\ UNCHANGED <<now, phase, tasks, table, notAfter, start, dead, reap, closer, sign>>

-----------------------------------------------------------------------------
(* Reap.  The ticker stops with ServeControl; the requests of a connection
   that is open are answered until the process ends.                        *)

\* The clock is read before the mutex is taken.
ReapRead(r) ==
    /\ Up /\ reap[r] = Idle /\ dead[r] = {}
    /\ r = "ticker" => phase = "serving"
    /\ reap' = [reap EXCEPT ![r] = now]
    /\ UNCHANGED <<now, phase, tasks, table, notAfter, open, files, start, stop, dead, closer, sign>>

\* Mutant: an expired task leaves the map, its key stays in the table.
ReapMapOnly(r) ==
    LET expired == {t \in tasks : ~Valid(t, reap[r])} IN
    /\ Up /\ reap[r] # Idle
    /\ dead' = [dead EXCEPT ![r] = expired]
    /\ tasks' = tasks \ expired
    /\ reap' = [reap EXCEPT ![r] = Idle]
    /\ UNCHANGED <<now, phase, table, notAfter, open, files, start, stop, closer, sign>>

\* Mutant: the expired tasks are not kept to be closed.
ReapLeavesOpen(r) ==
    LET expired == {t \in tasks : ~Valid(t, reap[r])} IN
    /\ Up /\ reap[r] # Idle
    /\ tasks' = tasks \ expired
    /\ table' = table \ expired
    /\ reap' = [reap EXCEPT ![r] = Idle]
    /\ UNCHANGED <<now, phase, dead, notAfter, open, files, start, stop, closer, sign>>

\* Under the mutex: expired tasks leave the map and the table.
ReapTake(r) ==
    LET expired == {t \in tasks : ~Valid(t, reap[r])} IN
    /\ Up /\ reap[r] # Idle
    /\ dead' = [dead EXCEPT ![r] = expired]
    /\ tasks' = tasks \ expired
    /\ table' = table \ expired
    /\ reap' = [reap EXCEPT ![r] = Idle]
    /\ UNCHANGED <<now, phase, notAfter, open, files, start, stop, closer, sign>>

ReapClose(r) ==
    /\ Up
    /\ \E t \in dead[r] : CloseSockets({t}) /\ dead' = [dead EXCEPT ![r] = @ \ {t}]
    /\ UNCHANGED <<now, phase, tasks, table, notAfter, start, stop, reap, closer, sign>>

-----------------------------------------------------------------------------
(* Signatures for the task checkouts.                                       *)

\* signForTask reads the clock, then asks the table.
Ask(s, t) ==
    /\ Up /\ sign[s] = NoRequest
    /\ start[t] = "served"
    /\ sign' = [sign EXCEPT ![s] =
         [step |-> "asked", task |-> t, at |-> now, late |-> Revoked(t) \/ ~Valid(t, now)]]
    /\ UNCHANGED <<now, phase, tasks, table, notAfter, open, files, start, stop, dead, reap, closer>>

\* Table.Get: a grant that had expired is dropped and cannot sign.
Get(s) ==
    LET t  == sign[s].task
        ok == t \in table /\ Valid(t, sign[s].at) IN
    /\ Up /\ sign[s].step = "asked"
    /\ sign' = [sign EXCEPT ![s] = IF ok THEN [@ EXCEPT !.step = "signed"] ELSE NoRequest]
    /\ table' = IF ok THEN table ELSE table \ {t}
    /\ UNCHANGED <<now, phase, tasks, notAfter, open, files, start, stop, dead, reap, closer>>

Answer(s) ==
    /\ Up /\ sign[s].step = "signed"
    /\ sign' = [sign EXCEPT ![s] = NoRequest]
    /\ UNCHANGED <<now, phase, tasks, table, notAfter, open, files, start, stop, dead, reap, closer>>

-----------------------------------------------------------------------------
(* The end of the process.                                                  *)

\* The shutdown request, or a signal: ServeControl returns.
Shutdown ==
    /\ phase = "serving"
    /\ phase' = "stopping"
    /\ UNCHANGED <<now, tasks, table, notAfter, open, files, start, stop, dead, reap, closer, sign>>

\* Close, under the mutex.
CloseTake ==
    /\ phase = "stopping"
    /\ phase' = "closed"
    /\ closer' = tasks
    /\ tasks' = {}
    /\ UNCHANGED <<now, table, notAfter, open, files, start, stop, dead, reap, sign>>

CloseOne ==
    /\ Up
    /\ \E t \in closer : CloseSockets({t}) /\ closer' = closer \ {t}
    /\ UNCHANGED <<now, phase, tasks, table, notAfter, start, stop, dead, reap, sign>>

\* The process ends with whatever its goroutines still had to do: keys
\* and listeners go with it, socket files stay.
Exit ==
    /\ phase = "closed" /\ closer = {}
    /\ phase' = "exited"
    /\ table' = {} /\ open' = {}
    /\ UNCHANGED <<now, tasks, notAfter, files, start, stop, dead, reap, closer, sign>>

-----------------------------------------------------------------------------
StartTask(t) == Mint(t) \/ Register(t)

StopTask(t) == Take(t) \/ Forget(t) \/ StopReturn(t)

Reap(r) == ReapRead(r) \/ ReapTake(r) \/ ReapClose(r)

Close == CloseTake \/ CloseOne \/ Exit

Next ==
    \/ Tick
    \/ \E t \in Tasks : StartTask(t) \/ StopTask(t)
    \/ \E r \in Reapers : Reap(r)
    \/ \E s \in Signers : Get(s) \/ Answer(s) \/ \E t \in Tasks : Ask(s, t)
    \/ Shutdown
    \/ Close

\* Goroutines that hold work go on, the ticker ticks, main returns after
\* ServeControl.  Nobody has to start, stop or sign anything.
Fairness ==
    /\ \A t \in Tasks : WF_vars(Register(t)) /\ WF_vars(Forget(t)) /\ WF_vars(StopReturn(t))
    /\ WF_vars(ReapRead("ticker"))
    /\ \A r \in Reapers : WF_vars(ReapTake(r)) /\ WF_vars(ReapClose(r))
    /\ WF_vars(Close)

Spec == Init /\ [][Next]_vars /\ Fairness

-----------------------------------------------------------------------------
\* Until the daemon is closed, only the grant of a served task can sign, or of
\* one that a StopTask which has not returned is taking out: no path leaves a
\* key behind in the table (Reap and StopTask, daemon.go).
KeysForgotten ==
    phase \in {"serving", "stopping"} => table \subseteq tasks \cup {t \in Tasks : stop[t] = "taken"}

\* A signature is never given on a request that came after the grant expired,
\* or after the StopTask or Reap that revoked the task had returned, whatever
\* the request overlaps with ("a checkout cannot get the daemon to sign as a
\* task the daemon has already reaped", daemon.go).
NoLateSignature ==
    phase \in {"serving", "stopping"} => \A s \in Signers : sign[s].step = "signed" => ~sign[s].late

\* After the process has ended in order, a socket file is left only by a call
\* that the end cut short: every other task's was removed, also one whose
\* StartTask overlapped with Close.
NoStrayFiles ==
    phase = "exited" =>
      \A t \in files : start[t] = "bound" \/ stop[t] \in {"taken", "forgotten"} \/ \E r \in Reapers : t \in dead[r]

\* Once a task is revoked it stays so: it is not served or able to sign again
\* and its listener, through which a gate is reached, stays closed.
RevokedForGood ==
    [][phase' \in {"serving", "stopping"} =>
         \A t \in Tasks : Revoked(t) => t \notin tasks' \cup table' \cup open']_vars

\* An expired task loses its key, its place in the map and its socket without
\* any client asking for it, unless the process ends first.
ExpiryRevokes ==
    \A t \in Tasks :
      (start[t] = "served" /\ now > notAfter[t]) ~> (phase = "exited" \/ t \notin tasks \cup table \cup open)
=============================================================================
