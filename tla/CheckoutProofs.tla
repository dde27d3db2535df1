--------------------------- MODULE CheckoutProofs ---------------------------
(* Machine-checked proofs about the processes around a checkout, one part   *)
(* each: about Daemon, for any number of tasks, control connections and     *)
(* lifetimes and for any bound of the clock; and about Workcopy, for any    *)
(* finite set of paths, any first tree and any number of edits, commits,    *)
(* merges, scans and seconds.  What a merge makes of two files is taken as  *)
(* it comes: the proofs only need that it is a file.                        *)
EXTENDS Daemon, Workcopy, FiniteSetTheorems, FunctionTheorems, SequenceTheorems, TLAPS


\* The daemon has not run Close.
Running == phase \in {"serving", "stopping"}

\* Some call holds t: it took t out of the map and has still to close it.
Held(t) == stop[t] \in {"taken", "forgotten"} \/ t \in closer \/ \E r \in Reapers : t \in dead[r]

\* What is in the map, in the table or in somebody's hands has been registered.
Registered ==
    /\ \A t \in tasks \cup table \cup closer : start[t] = "served"
    /\ \A t \in Tasks : stop[t] # "idle" => start[t] = "served"
    /\ \A r \in Reapers : \A t \in dead[r] : start[t] = "served"

\* A task that was taken out of the map is not in it.
TakenOnce ==
    /\ \A t \in tasks : stop[t] = "idle" /\ t \notin closer
    /\ \A r \in Reapers : \A t \in dead[r] : t \notin tasks

\* A call that is about to take tasks holds none.
EmptyHanded ==
    /\ \A r \in Reapers : reap[r] # Idle => dead[r] = {}
    /\ Running => closer = {}

\* A socket is open until the call that holds its task closes it.
OpenExactly ==
    /\ Up => \A t \in Tasks : start[t] = "bound" => t \in open
    /\ \A t \in open : start[t] = "served" => t \in tasks \/ Held(t)

\* A task in the map is served by an open socket: nothing but the call that took
\* it out of the map closes it.
ServedIsOpen == Up => tasks \subseteq open

\* A socket file is there until the call that holds its task removes it, and Close ends when it
\* has taken every task out of the map and removed the files of all of them.
FilesExactly ==
    /\ \A t \in files : start[t] = "bound" \/ t \in tasks \/ Held(t)
    /\ ~Running => tasks = {}
    /\ ~Up => closer = {}

\* A late request will be refused: its grant is gone, or the clock it is checked
\* with is past the expiry.
LateRefused ==
    /\ \A s \in Signers : sign[s] # NoRequest => start[sign[s].task] = "served"
    /\ Running => \A s \in Signers :
         sign[s].step = "asked" /\ sign[s].late =>
           sign[s].task \notin table \/ ~Valid(sign[s].task, sign[s].at)

\* The inductive invariant.
IInv ==
    /\ TypeOK /\ Registered /\ TakenOnce /\ EmptyHanded /\ OpenExactly
    /\ KeysForgotten /\ LateRefused /\ NoLateSignature /\ ServedIsOpen /\ FilesExactly

-----------------------------------------------------------------------------
(* Every step preserves the invariant; one lemma for each conjunct.         *)

\* Every step keeps the declared types.
LEMMA NextTypeOK ==
  ASSUME TypeOK, [Next]_vars
  PROVE  TypeOK'
<1>1. CASE UNCHANGED <<now, phase, tasks, table, notAfter, open, files, start, stop, dead, reap, closer, sign>>
  BY <1>1 DEF TypeOK
<1>2. CASE Tick
  BY <1>2, DaemonAssumption DEF TypeOK, Tick, Time, DaemonAssumption
<1>3. ASSUME NEW t \in Tasks, Mint(t) PROVE TypeOK'
  BY <1>3, DaemonAssumption DEF TypeOK, Mint, Time, DaemonAssumption
<1>4. ASSUME NEW t \in Tasks, Register(t) PROVE TypeOK'
  BY <1>4 DEF TypeOK, Register, CloseSockets
<1>5. ASSUME NEW t \in Tasks, Take(t) PROVE TypeOK'
  BY <1>5 DEF TypeOK, Take
<1>6. ASSUME NEW t \in Tasks, Forget(t) PROVE TypeOK'
  BY <1>6 DEF TypeOK, Forget
<1>7. ASSUME NEW t \in Tasks, StopReturn(t) PROVE TypeOK'
  BY <1>7 DEF TypeOK, StopReturn, CloseSockets
<1>8. ASSUME NEW r \in Reapers, ReapRead(r) PROVE TypeOK'
  BY <1>8 DEF TypeOK, ReapRead, Time, Idle
<1>9. ASSUME NEW r \in Reapers, ReapTake(r) PROVE TypeOK'
  BY <1>9 DEF TypeOK, ReapTake, Time, Idle
<1>10. ASSUME NEW r \in Reapers, ReapClose(r) PROVE TypeOK'
  BY <1>10 DEF TypeOK, ReapClose, CloseSockets
<1>11. ASSUME NEW s \in Signers, Get(s) PROVE TypeOK'
  BY <1>11 DEF TypeOK, Get, Requests, NoRequest
<1>12. ASSUME NEW s \in Signers, Answer(s) PROVE TypeOK'
  BY <1>12 DEF TypeOK, Answer, Requests, NoRequest
<1>13. ASSUME NEW s \in Signers, NEW t \in Tasks, Ask(s, t) PROVE TypeOK'
  BY <1>13 DEF TypeOK, Ask, Requests, NoRequest, Revoked, Valid
<1>14. CASE Shutdown
  BY <1>14 DEF TypeOK, Shutdown
<1>15. CASE CloseTake
  BY <1>15 DEF TypeOK, CloseTake
<1>16. CASE CloseOne
  BY <1>16 DEF TypeOK, CloseOne, CloseSockets
<1>17. CASE Exit
  BY <1>17 DEF TypeOK, Exit
<1>18. QED
  BY <1>1, <1>2, <1>3, <1>4, <1>5, <1>6, <1>7, <1>8, <1>9, <1>10, <1>11, <1>12, <1>13, <1>14, <1>15,
     <1>16, <1>17
  DEF vars, Next, StartTask, StopTask, Reap, Close

\* Only Register serves a task, and what is registered stays so.
LEMMA NextRegistered ==
  ASSUME TypeOK, Registered, [Next]_vars
  PROVE  Registered'
<1>1. CASE UNCHANGED <<tasks, table, closer, start, stop, dead>>
  BY <1>1 DEF TypeOK, Registered
<1>2. ASSUME NEW t \in Tasks, Mint(t) PROVE Registered'
  BY <1>2 DEF TypeOK, Registered, Mint
<1>3. ASSUME NEW t \in Tasks, Register(t) PROVE Registered'
  BY <1>3 DEF TypeOK, Registered, Register
<1>4. ASSUME NEW t \in Tasks, Take(t) PROVE Registered'
  BY <1>4 DEF TypeOK, Registered, Take
<1>5. ASSUME NEW t \in Tasks, Forget(t) PROVE Registered'
  BY <1>5 DEF TypeOK, Registered, Forget
<1>6. ASSUME NEW t \in Tasks, StopReturn(t) PROVE Registered'
  BY <1>6 DEF TypeOK, Registered, StopReturn
<1>7. ASSUME NEW r \in Reapers, ReapTake(r) PROVE Registered'
  BY <1>7 DEF TypeOK, Registered, ReapTake
<1>8. ASSUME NEW r \in Reapers, ReapClose(r) PROVE Registered'
  BY <1>8 DEF TypeOK, Registered, ReapClose
<1>9. ASSUME NEW s \in Signers, Get(s) PROVE Registered'
  BY <1>9 DEF TypeOK, Registered, Get
<1>10. CASE CloseTake
  BY <1>10 DEF TypeOK, Registered, CloseTake
<1>11. CASE CloseOne
  BY <1>11 DEF TypeOK, Registered, CloseOne
<1>12. CASE Exit
  BY <1>12 DEF TypeOK, Registered, Exit
<1>13. QED
  BY <1>1, <1>2, <1>3, <1>4, <1>5, <1>6, <1>7, <1>8, <1>9, <1>10, <1>11, <1>12
  DEF vars, Next, StartTask, StopTask, Reap, Close, Tick, ReapRead, Answer, Ask, Shutdown

\* A task is taken out of the map by one call and does not come back.
LEMMA NextTakenOnce ==
  ASSUME TypeOK, Registered, TakenOnce, [Next]_vars
  PROVE  TakenOnce'
<1>1. CASE UNCHANGED <<tasks, stop, closer, dead>>
  BY <1>1 DEF TypeOK, Registered, TakenOnce
<1>2. ASSUME NEW t \in Tasks, Register(t) PROVE TakenOnce'
  BY <1>2 DEF TypeOK, Registered, TakenOnce, Register
<1>3. ASSUME NEW t \in Tasks, Take(t) PROVE TakenOnce'
  BY <1>3 DEF TypeOK, Registered, TakenOnce, Take
<1>4. ASSUME NEW t \in Tasks, Forget(t) PROVE TakenOnce'
  BY <1>4 DEF TypeOK, Registered, TakenOnce, Forget
<1>5. ASSUME NEW t \in Tasks, StopReturn(t) PROVE TakenOnce'
  BY <1>5 DEF TypeOK, Registered, TakenOnce, StopReturn
<1>6. ASSUME NEW r \in Reapers, ReapTake(r) PROVE TakenOnce'
  BY <1>6 DEF TypeOK, Registered, TakenOnce, ReapTake
<1>7. ASSUME NEW r \in Reapers, ReapClose(r) PROVE TakenOnce'
  BY <1>7 DEF TypeOK, Registered, TakenOnce, ReapClose
<1>8. CASE CloseTake
  BY <1>8 DEF TypeOK, Registered, TakenOnce, CloseTake
<1>9. CASE CloseOne
  BY <1>9 DEF TypeOK, Registered, TakenOnce, CloseOne
<1>10. QED
  BY <1>1, <1>2, <1>3, <1>4, <1>5, <1>6, <1>7, <1>8, <1>9
  DEF vars, Next, StartTask, StopTask, Reap, Close, Tick, Mint, ReapRead, Get, Answer, Ask,
      Shutdown, Exit

\* A call takes tasks when it has closed the ones it took before.
LEMMA NextEmptyHanded ==
  ASSUME TypeOK, EmptyHanded, [Next]_vars
  PROVE  EmptyHanded'
<1>1. CASE UNCHANGED <<reap, dead, phase, closer>>
  BY <1>1 DEF TypeOK, EmptyHanded, Running, Idle, Time
<1>2. ASSUME NEW r \in Reapers, ReapRead(r) PROVE EmptyHanded'
  BY <1>2 DEF TypeOK, EmptyHanded, Running, Idle, Time, ReapRead
<1>3. ASSUME NEW r \in Reapers, ReapTake(r) PROVE EmptyHanded'
  BY <1>3 DEF TypeOK, EmptyHanded, Running, Idle, Time, ReapTake
<1>4. ASSUME NEW r \in Reapers, ReapClose(r) PROVE EmptyHanded'
  BY <1>4 DEF TypeOK, EmptyHanded, Running, Idle, Time, ReapClose
<1>5. CASE Shutdown
  BY <1>5 DEF TypeOK, EmptyHanded, Running, Idle, Time, Shutdown
<1>6. CASE CloseTake
  BY <1>6 DEF TypeOK, EmptyHanded, Running, Idle, Time, CloseTake
<1>7. CASE CloseOne
  BY <1>7 DEF TypeOK, EmptyHanded, Running, Idle, Time, CloseOne
<1>8. CASE Exit
  BY <1>8 DEF TypeOK, EmptyHanded, Running, Idle, Time, Exit
<1>9. QED
  BY <1>1, <1>2, <1>3, <1>4, <1>5, <1>6, <1>7, <1>8
  DEF vars, Next, StartTask, StopTask, Reap, Close, Tick, Mint, Register, Take, Forget, StopReturn,
      Get, Answer, Ask

\* Only the call that holds a task closes its socket.
LEMMA NextOpenExactly ==
  ASSUME TypeOK, Registered, TakenOnce, EmptyHanded, OpenExactly, [Next]_vars
  PROVE  OpenExactly'
<1>1. CASE UNCHANGED <<phase, start, open, tasks, stop, closer, dead>>
  BY <1>1 DEF TypeOK, Registered, TakenOnce, OpenExactly, Held, Up
<1>2. ASSUME NEW t \in Tasks, Mint(t) PROVE OpenExactly'
  BY <1>2 DEF TypeOK, Registered, TakenOnce, OpenExactly, Held, Up, Mint
<1>3. ASSUME NEW t \in Tasks, Register(t) PROVE OpenExactly'
  BY <1>3 DEF TypeOK, Registered, TakenOnce, OpenExactly, Held, Up, Register, CloseSockets
<1>4. ASSUME NEW t \in Tasks, Take(t) PROVE OpenExactly'
  BY <1>4 DEF TypeOK, Registered, TakenOnce, OpenExactly, Held, Up, Take
<1>5. ASSUME NEW t \in Tasks, Forget(t) PROVE OpenExactly'
  BY <1>5 DEF TypeOK, Registered, TakenOnce, OpenExactly, Held, Up, Forget
<1>6. ASSUME NEW t \in Tasks, StopReturn(t) PROVE OpenExactly'
  BY <1>6 DEF TypeOK, Registered, TakenOnce, OpenExactly, Held, Up, StopReturn, CloseSockets
<1>7. ASSUME NEW r \in Reapers, ReapTake(r) PROVE OpenExactly'
  BY <1>7 DEF TypeOK, Registered, TakenOnce, OpenExactly, Held, Up, ReapTake, EmptyHanded
<1>8. ASSUME NEW r \in Reapers, ReapClose(r) PROVE OpenExactly'
  BY <1>8 DEF TypeOK, Registered, TakenOnce, OpenExactly, Held, Up, ReapClose, CloseSockets
<1>9. CASE Shutdown
  BY <1>9 DEF TypeOK, Registered, TakenOnce, OpenExactly, Held, Up, Shutdown
<1>10. CASE CloseTake
  BY <1>10 DEF TypeOK, Registered, TakenOnce, OpenExactly, Held, Up, CloseTake, EmptyHanded, Running
<1>11. CASE CloseOne
  BY <1>11 DEF TypeOK, Registered, TakenOnce, OpenExactly, Held, Up, CloseOne, CloseSockets
<1>12. CASE Exit
  BY <1>12 DEF TypeOK, Registered, TakenOnce, OpenExactly, Held, Up, Exit
<1>13. QED
  BY <1>1, <1>2, <1>3, <1>4, <1>5, <1>6, <1>7, <1>8, <1>9, <1>10, <1>11, <1>12
  DEF vars, Next, StartTask, StopTask, Reap, Close, Tick, ReapRead, Get, Answer, Ask

\* No call closes the socket of a task in the map.
LEMMA NextServedIsOpen ==
  ASSUME TypeOK, Registered, TakenOnce, OpenExactly, ServedIsOpen, [Next]_vars
  PROVE  ServedIsOpen'
<1>1. CASE UNCHANGED <<phase, tasks, open>>
  BY <1>1 DEF TypeOK, Registered, TakenOnce, OpenExactly, ServedIsOpen, Up
<1>2. ASSUME NEW t \in Tasks, Mint(t) PROVE ServedIsOpen'
  BY <1>2 DEF TypeOK, Registered, TakenOnce, OpenExactly, ServedIsOpen, Up, Mint
<1>3. ASSUME NEW t \in Tasks, Register(t) PROVE ServedIsOpen'
  BY <1>3 DEF TypeOK, Registered, TakenOnce, OpenExactly, ServedIsOpen, Up, Register, CloseSockets
<1>4. ASSUME NEW t \in Tasks, Take(t) PROVE ServedIsOpen'
  BY <1>4 DEF TypeOK, Registered, TakenOnce, OpenExactly, ServedIsOpen, Up, Take
<1>5. ASSUME NEW t \in Tasks, StopReturn(t) PROVE ServedIsOpen'
  BY <1>5 DEF TypeOK, Registered, TakenOnce, OpenExactly, ServedIsOpen, Up, StopReturn, CloseSockets
<1>6. ASSUME NEW r \in Reapers, ReapTake(r) PROVE ServedIsOpen'
  BY <1>6 DEF TypeOK, Registered, TakenOnce, OpenExactly, ServedIsOpen, Up, ReapTake
<1>7. ASSUME NEW r \in Reapers, ReapClose(r) PROVE ServedIsOpen'
  BY <1>7 DEF TypeOK, Registered, TakenOnce, OpenExactly, ServedIsOpen, Up, ReapClose, CloseSockets
<1>8. CASE Shutdown
  BY <1>8 DEF TypeOK, Registered, TakenOnce, OpenExactly, ServedIsOpen, Up, Shutdown
<1>9. CASE CloseTake
  BY <1>9 DEF TypeOK, Registered, TakenOnce, OpenExactly, ServedIsOpen, Up, CloseTake
<1>10. CASE CloseOne
  BY <1>10 DEF TypeOK, Registered, TakenOnce, OpenExactly, ServedIsOpen, Up, CloseOne, CloseSockets
<1>11. CASE Exit
  BY <1>11 DEF TypeOK, Registered, TakenOnce, OpenExactly, ServedIsOpen, Up, Exit
<1>12. QED
  BY <1>1, <1>2, <1>3, <1>4, <1>5, <1>6, <1>7, <1>8, <1>9, <1>10, <1>11
  DEF vars, Next, StartTask, StopTask, Reap, Close, Tick, Forget, ReapRead, Get, Answer, Ask

\* Only the call that holds a task removes its socket file.
LEMMA NextFilesExactly ==
  ASSUME TypeOK, EmptyHanded, FilesExactly, [Next]_vars
  PROVE  FilesExactly'
<1>0. phase \in {"serving", "stopping", "closed", "exited"}
  BY DEF TypeOK
<1>1. CASE UNCHANGED <<phase, start, files, tasks, stop, closer, dead>>
  BY <1>1 DEF FilesExactly, Held, Running, Up
<1>2. ASSUME NEW t \in Tasks, Mint(t) PROVE FilesExactly'
  BY <1>0, <1>2 DEF TypeOK, FilesExactly, Held, Running, Up, Mint
<1>3. ASSUME NEW t \in Tasks, Register(t) PROVE FilesExactly'
  BY <1>0, <1>3 DEF TypeOK, FilesExactly, Held, Running, Up, Register, CloseSockets
<1>4. ASSUME NEW t \in Tasks, Take(t) PROVE FilesExactly'
  BY <1>0, <1>4 DEF TypeOK, FilesExactly, Held, Running, Up, Take
<1>5. ASSUME NEW t \in Tasks, Forget(t) PROVE FilesExactly'
  BY <1>0, <1>5 DEF TypeOK, FilesExactly, Held, Running, Up, Forget
<1>6. ASSUME NEW t \in Tasks, StopReturn(t) PROVE FilesExactly'
  BY <1>0, <1>6 DEF TypeOK, FilesExactly, Held, Running, Up, StopReturn, CloseSockets
<1>7. ASSUME NEW r \in Reapers, ReapTake(r) PROVE FilesExactly'
  BY <1>0, <1>7 DEF TypeOK, FilesExactly, Held, Running, Up, ReapTake, EmptyHanded
<1>8. ASSUME NEW r \in Reapers, ReapClose(r) PROVE FilesExactly'
  BY <1>0, <1>8 DEF TypeOK, FilesExactly, Held, Running, Up, ReapClose, CloseSockets
<1>9. CASE Shutdown
  BY <1>0, <1>9 DEF TypeOK, FilesExactly, Held, Running, Up, Shutdown
<1>10. CASE CloseTake
  BY <1>0, <1>10 DEF TypeOK, FilesExactly, Held, Running, Up, CloseTake, EmptyHanded
<1>11. CASE CloseOne
  BY <1>0, <1>11 DEF TypeOK, FilesExactly, Held, Running, Up, CloseOne, CloseSockets
<1>12. CASE Exit
  BY <1>0, <1>12 DEF TypeOK, FilesExactly, Held, Running, Up, Exit
<1>13. QED
  BY <1>1, <1>2, <1>3, <1>4, <1>5, <1>6, <1>7, <1>8, <1>9, <1>10, <1>11, <1>12
  DEF vars, Next, StartTask, StopTask, Reap, Close, Tick, ReapRead, Get, Answer, Ask

\* A key leaves the table with its task, or in the StopTask that holds it.
LEMMA NextKeysForgotten ==
  ASSUME TypeOK, KeysForgotten, [Next]_vars
  PROVE  KeysForgotten'
<1>1. CASE UNCHANGED <<phase, table, tasks, stop>>
  BY <1>1 DEF TypeOK, KeysForgotten
<1>2. ASSUME NEW t \in Tasks, Register(t) PROVE KeysForgotten'
  BY <1>2 DEF TypeOK, KeysForgotten, Register
<1>3. ASSUME NEW t \in Tasks, Take(t) PROVE KeysForgotten'
  BY <1>3 DEF TypeOK, KeysForgotten, Take
<1>4. ASSUME NEW t \in Tasks, Forget(t) PROVE KeysForgotten'
  BY <1>4 DEF TypeOK, KeysForgotten, Forget
<1>5. ASSUME NEW t \in Tasks, StopReturn(t) PROVE KeysForgotten'
  BY <1>5 DEF TypeOK, KeysForgotten, StopReturn
<1>6. ASSUME NEW r \in Reapers, ReapTake(r) PROVE KeysForgotten'
  BY <1>6 DEF TypeOK, KeysForgotten, ReapTake
<1>7. ASSUME NEW s \in Signers, Get(s) PROVE KeysForgotten'
  BY <1>7 DEF TypeOK, KeysForgotten, Get
<1>8. CASE Shutdown
  BY <1>8 DEF TypeOK, KeysForgotten, Shutdown
<1>9. CASE CloseTake
  BY <1>9 DEF TypeOK, KeysForgotten, CloseTake
<1>10. CASE Exit
  BY <1>10 DEF TypeOK, KeysForgotten, Exit
<1>11. QED
  BY <1>1, <1>2, <1>3, <1>4, <1>5, <1>6, <1>7, <1>8, <1>9, <1>10
  DEF vars, Next, StartTask, StopTask, Reap, Close, Tick, Mint, ReapRead, ReapClose, Answer, Ask,
      CloseOne

\* A late request stays one that will be refused: its grant's expiry is fixed
\* and its key does not come back.
LEMMA NextLateRefused ==
  ASSUME TypeOK, Registered, KeysForgotten, LateRefused, [Next]_vars
  PROVE  LateRefused'
<1>1. CASE UNCHANGED <<phase, table, start, sign, notAfter>>
  BY <1>1 DEF TypeOK, LateRefused, Running, Valid
<1>2. ASSUME NEW t \in Tasks, Mint(t) PROVE LateRefused'
  BY <1>2 DEF TypeOK, LateRefused, Running, Valid, Mint, NoRequest
<1>3. ASSUME NEW t \in Tasks, Register(t) PROVE LateRefused'
  <2>1. \A s \in Signers : sign[s] # NoRequest => sign[s].task # t
    BY <1>3 DEF LateRefused, Register
  <2>2. \A s \in Signers : sign[s].step = "asked" => sign[s] # NoRequest
    BY DEF NoRequest
  <2>3. UNCHANGED <<sign, phase, notAfter>>
    BY <1>3 DEF Register
  <2>4. \A u \in Tasks : u # t => start'[u] = start[u] /\ (u \in table' <=> u \in table)
    BY <1>3 DEF Register, TypeOK
  <2>5. \A s \in Signers : sign[s] # NoRequest => sign[s].task \in Tasks
    BY DEF TypeOK, Requests
  <2>6. QED
    BY <2>1, <2>2, <2>3, <2>4, <2>5 DEF LateRefused, Running, Valid
<1>4. ASSUME NEW t \in Tasks, Forget(t) PROVE LateRefused'
  BY <1>4 DEF TypeOK, LateRefused, Running, Valid, Forget
<1>5. ASSUME NEW r \in Reapers, ReapTake(r) PROVE LateRefused'
  BY <1>5 DEF TypeOK, LateRefused, Running, Valid, ReapTake
<1>6. ASSUME NEW s \in Signers, Get(s) PROVE LateRefused'
  BY <1>6 DEF TypeOK, LateRefused, Running, Valid, Get, Requests, NoRequest
<1>7. ASSUME NEW s \in Signers, Answer(s) PROVE LateRefused'
  BY <1>7 DEF TypeOK, LateRefused, Running, Valid, Answer, Requests, NoRequest
<1>8. ASSUME NEW s \in Signers, NEW t \in Tasks, Ask(s, t) PROVE LateRefused'
  BY <1>8 DEF TypeOK, LateRefused, Running, Valid, Ask, Registered, KeysForgotten, Revoked
<1>9. CASE Shutdown
  BY <1>9 DEF TypeOK, LateRefused, Running, Valid, Shutdown
<1>10. CASE CloseTake
  BY <1>10 DEF TypeOK, LateRefused, Running, Valid, CloseTake
<1>11. CASE Exit
  BY <1>11 DEF TypeOK, LateRefused, Running, Valid, Exit
<1>12. QED
  BY <1>1, <1>2, <1>3, <1>4, <1>5, <1>6, <1>7, <1>8, <1>9, <1>10, <1>11
  DEF vars, Next, StartTask, StopTask, Reap, Close, Tick, Take, StopReturn, ReapRead, ReapClose,
      CloseOne

\* A late request is not signed.
LEMMA NextNoLateSignature ==
  ASSUME TypeOK, LateRefused, NoLateSignature, [Next]_vars
  PROVE  NoLateSignature'
<1>1. CASE UNCHANGED <<phase, sign>>
  BY <1>1 DEF TypeOK, LateRefused, NoLateSignature, Running
<1>2. ASSUME NEW s \in Signers, Get(s) PROVE NoLateSignature'
  BY <1>2 DEF TypeOK, LateRefused, NoLateSignature, Running, Get, Requests, NoRequest
<1>3. ASSUME NEW s \in Signers, Answer(s) PROVE NoLateSignature'
  BY <1>3 DEF TypeOK, LateRefused, NoLateSignature, Running, Answer, Requests, NoRequest
<1>4. ASSUME NEW s \in Signers, NEW t \in Tasks, Ask(s, t) PROVE NoLateSignature'
  BY <1>4 DEF TypeOK, LateRefused, NoLateSignature, Running, Ask
<1>5. CASE Shutdown
  BY <1>5 DEF TypeOK, LateRefused, NoLateSignature, Running, Shutdown
<1>6. CASE CloseTake
  BY <1>6 DEF TypeOK, LateRefused, NoLateSignature, Running, CloseTake
<1>7. CASE Exit
  BY <1>7 DEF TypeOK, LateRefused, NoLateSignature, Running, Exit
<1>8. QED
  BY <1>1, <1>2, <1>3, <1>4, <1>5, <1>6, <1>7
  DEF vars, Next, StartTask, StopTask, Reap, Close, Tick, Mint, Register, Take, Forget, StopReturn,
      ReapRead, ReapTake, ReapClose, CloseOne

\* The invariant holds at the start.
LEMMA InitIInv == Init => IInv
<1> SUFFICES ASSUME Init PROVE IInv
  OBVIOUS
<1>1. TypeOK
  BY DaemonAssumption DEF Init, TypeOK, Time, Idle, DaemonAssumption
<1>2. Registered /\ TakenOnce /\ EmptyHanded
  BY DEF Init, Registered, TakenOnce, EmptyHanded
<1>3. OpenExactly /\ ServedIsOpen /\ KeysForgotten
  BY DEF Init, OpenExactly, ServedIsOpen, KeysForgotten
<1>4. LateRefused /\ NoLateSignature
  BY DEF Init, LateRefused, NoLateSignature, NoRequest
<1>5. FilesExactly
  BY DEF Init, FilesExactly, Running, Up
<1>6. QED
  BY <1>1, <1>2, <1>3, <1>4, <1>5 DEF IInv

\* The invariant holds in every state.
THEOREM Invariance == Spec => []IInv
<1>1. ASSUME IInv, [Next]_vars PROVE IInv'
  BY <1>1, NextTypeOK, NextRegistered, NextTakenOnce, NextEmptyHanded, NextOpenExactly,
     NextServedIsOpen, NextKeysForgotten, NextLateRefused, NextNoLateSignature, NextFilesExactly
  DEF IInv
<1>2. QED
  BY <1>1, InitIInv, PTL DEF Spec

-----------------------------------------------------------------------------
\* Every variable of the daemon keeps its type.
THEOREM TypeCorrect == Spec => []TypeOK
  BY Invariance, PTL DEF IInv

\* No path through StopTask or Reap leaves a key behind in the table.
THEOREM NoKeyLeftBehind == Spec => []KeysForgotten
  BY Invariance, PTL DEF IInv

\* signForTask signs nothing for a request that came after the expiry of the
\* grant or after the call that revoked it had returned.
THEOREM NoSignatureAfterRevocation == Spec => []NoLateSignature
  BY Invariance, PTL DEF IInv

\* The socket of a task in the map is open.
THEOREM ServedTasksReachable == Spec => []ServedIsOpen
  BY Invariance, PTL DEF IInv

\* A task that StopTask or Reap has revoked is not served, cannot sign and
\* accepts no connection again.
THEOREM RevocationIsFinal == Spec => RevokedForGood
<1>1. ASSUME IInv, IInv', [Next]_vars
      PROVE  [phase' \in {"serving", "stopping"} =>
                \A t \in Tasks : Revoked(t) => t \notin tasks' \cup table' \cup open']_vars
  <2> SUFFICES ASSUME phase' \in {"serving", "stopping"}, NEW t \in Tasks, Revoked(t),
                      Next
               PROVE  t \notin tasks' \cup table' \cup open'
    BY <1>1
  <2>1. t \notin tasks /\ t \notin open /\ ~Held(t)
    BY <1>1 DEF IInv, OpenExactly, Held, Revoked
  <2>2. phase \in {"serving", "stopping"}
    BY <1>1
    DEF IInv, TypeOK, Next, Tick, StartTask, Mint, Register, StopTask, Take, Forget, StopReturn,
        Reap, ReapRead, ReapTake, ReapClose, Ask, Get, Answer, Shutdown, Close, CloseTake, CloseOne, Exit
  <2>3. t \notin table
    BY <1>1, <2>2 DEF IInv, KeysForgotten, Revoked
  <2>4. start[t] = "served"
    BY DEF Revoked
  <2>5. QED
    BY <2>1, <2>3, <2>4
    DEF Next, Tick, StartTask, Mint, Register, StopTask, Take, Forget, StopReturn, CloseSockets,
        Reap, ReapRead, ReapTake, ReapClose, Ask, Get, Answer, Shutdown, Close, CloseTake, CloseOne, Exit
<1>2. QED
  BY <1>1, Invariance, PTL DEF Spec, RevokedForGood

\* A socket file outlives an orderly end only when the end cut short the call that would have
\* removed it: Close takes every task that is served and closes each one (daemon.go).
THEOREM FilesRemoved == Spec => []NoStrayFiles
<1>1. IInv => NoStrayFiles
  BY DEF IInv, FilesExactly, NoStrayFiles, Held, Running, Up
<1>2. QED
  BY <1>1, Invariance, PTL

-----------------------------------------------------------------------------
(* The working copy.                                                        *)

\* What stands for a file is a file or Absent.
IsFile(x) == x = Absent \/ x = File(x.text, x.exec)
IsTree(t) == t = [p \in Paths |-> t[p]] /\ \A p \in Paths : IsFile(t[p])

Inodes == 1..(2 * Cardinality(Paths))
Stats == [mtime : Nat, inode : {0} \cup Inodes]

\* There are numbers enough: new files get numbers of their own.
LEMMA NewInodesFresh ==
    ASSUME NEW new \in SUBSET Paths, NEW st
    PROVE  /\ NewInodes(st, new) \in [new -> Inodes]
           /\ \A p, q \in new : NewInodes(st, new)[p] = NewInodes(st, new)[q] => p = q
           /\ \A p \in new : \A q \in Paths \ new : NewInodes(st, new)[p] # st[q].inode
<1> DEFINE n == Cardinality(Paths)
           others == Paths \ new
           taken == {st[q].inode : q \in others}
           free == Inodes \ taken
           num == [q \in others |-> st[q].inode]
<1>1. /\ IsFiniteSet(Paths) /\ n \in Nat
      /\ IsFiniteSet(new) /\ Cardinality(new) \in Nat /\ Cardinality(new) <= n
  BY WorkcopyAssumption, FS_Subset, FS_CardinalityType
<1>2. IsFiniteSet(others) /\ Cardinality(others) \in Nat /\ Cardinality(others) <= n
  BY <1>1, FS_Subset, FS_CardinalityType
<1>3. num \in Surjection(others, taken)
  BY DEF Surjection
<1>4. IsFiniteSet(taken) /\ Cardinality(taken) <= Cardinality(others) /\ Cardinality(taken) \in Nat
  BY <1>2, <1>3, FS_Surjection, FS_CardinalityType
<1>5. IsFiniteSet(Inodes) /\ Cardinality(Inodes) = 2 * n
  <2>1. 2 * n \in Int /\ 1 \in Int
    BY <1>1
  <2> QED
    BY <2>1, <1>1, FS_Interval DEF Inodes
<1>6. /\ IsFiniteSet(free) /\ Cardinality(free) \in Nat
      /\ Cardinality(free) = 2 * n - Cardinality(Inodes \cap taken)
  BY <1>5, FS_Difference, FS_CardinalityType
<1>7. Cardinality(Inodes \cap taken) <= Cardinality(taken) /\ Cardinality(Inodes \cap taken) \in Nat
  <2>1. Inodes \cap taken \in SUBSET taken
    OBVIOUS
  <2> QED
    BY <2>1, <1>4, FS_Subset, FS_CardinalityType
<1>8. Cardinality(new) <= Cardinality(free)
  BY <1>1, <1>2, <1>4, <1>6, <1>7
<1>9. ExistsInjection(new, free)
  <2>1. ExistsInjection(new, 1..Cardinality(new))
    BY <1>1, FS_CardinalityType, Fun_ExistsBijEquiv
  <2>2. ExistsInjection(1..Cardinality(new), 1..Cardinality(free))
    BY <1>1, <1>6, <1>8, Fun_NatInjLeq
  <2>3. ExistsInjection(1..Cardinality(free), free)
    BY <1>6, FS_CardinalityType, Fun_ExistsBijEquiv
  <2> QED
    BY <2>1, <2>2, <2>3, Fun_ExistsInjTransitive
<1>10. PICK f \in [new -> free] : IsInjective(f)
  BY <1>9 DEF ExistsInjection, Injection
<1>11. f \in [new -> Inodes] /\ \A p \in new : \A q \in Paths \ new : f[p] # st[q].inode
  BY <1>10
<1> DEFINE OK(g) == IsInjective(g) /\ \A p \in new : \A q \in Paths \ new : g[p] # st[q].inode
<1>12. NewInodes(st, new) \in [new -> Inodes] /\ OK(NewInodes(st, new))
  <2>1. \E g \in [new -> Inodes] : OK(g)
    BY <1>10, <1>11
  <2>2. NewInodes(st, new) = CHOOSE g \in [new -> Inodes] : OK(g)
    BY DEF NewInodes, Inodes
  <2> HIDE DEF OK
  <2> QED
    BY <2>1, <2>2
<1> QED
  BY <1>12 DEF IsInjective

-----------------------------------------------------------------------------
\* A merge of two trees is a tree.
LEMMA MergedTree ==
    ASSUME NEW b, NEW o, NEW t, IsTree(o), IsTree(t)
    PROVE  IsTree(mergeTrees(b, o, t).tree)
<1> DEFINE m == [p \in Paths |-> MergeFile(b[p], o[p], t[p])]
           tree == [p \in Paths |-> m[p].file]
<1>1. mergeTrees(b, o, t).tree = tree
  BY DEF mergeTrees
<1>2. ASSUME NEW p \in Paths
      PROVE  IsFile(tree[p])
  <2>1. MergeFile(b[p], o[p], t[p]).file \in {o[p], t[p]}
        \/ \E x, y : MergeFile(b[p], o[p], t[p]).file = File(x, y)
    BY DEF MergeFile, Taken, resolveConflict
  <2>2. \A x, y : IsFile(File(x, y))
    BY DEF IsFile, File
  <2> QED
    BY <2>1, <2>2 DEF IsTree
<1> QED
  BY <1>1, <1>2 DEF IsTree

\* What stands for a file is told by its three fields.
LEMMA FileOrAbsent ==
    ASSUME NEW x, IsFile(x)
    PROVE  /\ x = [has |-> x.has, text |-> x.text, exec |-> x.exec]
           /\ x.has \in BOOLEAN
           /\ ~ x.has => x = Absent
           /\ x.has => x = File(x.text, x.exec)
<1>1. CASE x = Absent
  BY <1>1 DEF Absent
<1>2. CASE x = File(x.text, x.exec)
  <2>1. x.has = TRUE
    BY <1>2 DEF File
  <2> QED
    BY <1>2, <2>1 DEF File
<1> QED
  BY <1>1, <1>2 DEF IsFile

\* Absent is no file, and a file is one.
LEMMA FilesAreFiles ==
    /\ IsFile(Absent)
    /\ \A t, e : IsFile(File(t, e)) /\ File(t, e).has /\ File(t, e).text = t /\ File(t, e).exec = e
  BY DEF IsFile, File, Absent

\* What stands for a file that is not there has no line.
LEMMA NoFile == ~ Absent.has /\ Absent.text = <<>> /\ DOMAIN Absent.text = {}
  BY DEF Absent

\* The lines of a tree are those of its files, with their paths.
LEMMA Line ==
    ASSUME NEW t, NEW l
    PROVE  l \in LinesOf(t) <=> \E p \in Paths : \E i \in DOMAIN t[p].text : l = <<p, t[p].text[i]>>
  BY DEF LinesOf

\* A sequence of changes with one more.
LEMMA Appending ==
    ASSUME changes \in Seq(Range(changes)), NEW c
    PROVE  /\ Append(changes, c) \in Seq(Range(Append(changes, c)))
           /\ Len(Append(changes, c)) = Len(changes) + 1 /\ Len(changes) \in Nat
           /\ DOMAIN Append(changes, c) = 1..(Len(changes) + 1)
           /\ DOMAIN changes = 1..Len(changes)
           /\ \A i \in DOMAIN changes : Append(changes, c)[i] = changes[i]
           /\ Append(changes, c)[Len(changes) + 1] = c
<1> DEFINE S == Range(changes) \cup {c}
           new == Append(changes, c)
<1>1. changes \in Seq(S) /\ c \in S
  <2>1. changes \in [1..Len(changes) -> Range(changes)] /\ Len(changes) \in Nat
    OBVIOUS
  <2>2. changes \in [1..Len(changes) -> S]
    BY <2>1
  <2> QED
    BY <2>1, <2>2, IsASeq
<1>2. /\ new \in Seq(S) /\ Len(new) = Len(changes) + 1 /\ Len(changes) \in Nat
      /\ DOMAIN new = 1..(Len(changes) + 1) /\ DOMAIN changes = 1..Len(changes)
      /\ \A i \in DOMAIN changes : new[i] = changes[i]
      /\ new[Len(changes) + 1] = c
  BY <1>1, AppendProperties
<1>3. new \in Seq(Range(new))
  <2> HIDE DEF S, new
  <2>1. \A i \in 1..Len(new) : new[i] \in Range(new)
    BY <1>2 DEF Range
  <2>2. new \in [1..Len(new) -> S] /\ Len(new) \in Nat
    BY <1>2
  <2>3. new \in [1..Len(new) -> Range(new)]
    BY <2>1, <2>2
  <2> QED
    BY <2>2, <2>3
<1> QED
  BY <1>2, <1>3

-----------------------------------------------------------------------------
\* The branches and the changes.
RefsOK ==
    /\ main \in Ids /\ peer \in Ids /\ based \in 0..Len(changes)
    /\ changes \in Seq(Range(changes)) /\ \A c \in Ids : IsTree(changes[c].tree)

\* The files and their tuples.
DirOK ==
    /\ IsTree(work) /\ stat \in [Paths -> Stats]
    /\ \A p \in Paths : IF work[p].has THEN stat[p].inode \in Inodes /\ stat[p].mtime > 0 ELSE stat[p] = NoStat
    /\ \A p, q \in Paths : stat[p].inode = stat[q].inode /\ work[p].has => p = q
    /\ clock \in Nat \ {0} /\ \A p \in Paths : stat[p].mtime <= clock

\* No bound is exceeded.
BudgetOK == used \in [DOMAIN Bounds -> Nat] /\ (\A b \in DOMAIN Bounds : used[b] <= Bounds[b]) /\ spent \in 0..Budget

\* The index is empty until it is saved.
IndexOK ==
    /\ index = [written |-> index.written, entry |-> index.entry]
    /\ index.written \in 0..clock
    /\ index.entry = [p \in Paths |-> index.entry[p]]
    /\ \A p \in Paths : IsFile(index.entry[p].file)
    /\ index.written = 0 => \A p \in Paths : ~ index.entry[p].file.has

\* An entry older than the second of the save that a file has the tuple of is of its text.
IndexHonest ==
    \A p \in Paths \ raced : stat[p].mtime < index.written => ~ Mistaken(index.entry[p], work[p], stat[p])

\* What tells the directory from the change it was made from is the user's, or left behind.
BasedHonest ==
    based # 0 =>
        Lines(based) \ LinesOf(work) \subseteq removed /\ LinesOf(work) \ Lines(based) \subseteq typed \cup left

\* OwnEditsOnly, without the types.
OwnEdits ==
    LET c == Len(changes)
    IN  changes[c].by = "commit" /\ changes[c].parents = {changes[c].on} =>
           Deletes(c) \subseteq removed /\ Inserts(c) \subseteq typed \cup left

\* The locals of a verb.
VerbOK ==
    /\ verb = [pc |-> verb.pc, ours |-> verb.ours, theirs |-> verb.theirs, on |-> verb.on, tree |-> verb.tree,
               todo |-> verb.todo, file |-> verb.file, stat |-> verb.stat, exec |-> verb.exec, idx |-> verb.idx,
               only |-> verb.only, touched |-> verb.touched]
    /\ verb.tree = [p \in Paths |-> verb.tree[p]]
    /\ verb.idx = [p \in Paths |-> verb.idx[p]]
    /\ verb.todo \subseteq Paths
    /\ verb.pc \in {"merge", "mergeSwap", "scan", "read", "select", "pool"} => verb.ours \in Ids
    /\ verb.pc = "merge" => verb.theirs \in Ids

\* A commit that is under way is of the directory as it is.
Committing == verb.pc \in {"commitHead", "commitSwap"} => verb.tree = work /\ verb.on = based

\* A merge that is about to swap has its tree in the directory.
Merging ==
    verb.pc = "mergeSwap" =>
        IsTree(verb.tree) /\ LinesOf(verb.tree) \subseteq LinesOf(work) /\ LinesOf(work) \ LinesOf(verb.tree) \subseteq left

\* What a scan has of a file it is done with.
Scanned(p) ==
    /\ IF verb.tree[p].has THEN verb.tree[p] = verb.idx[p].file ELSE verb.tree[p] = Absent
    /\ p \notin verb.touched =>
         IF verb.tree[p].has
           THEN work[p].has /\ work[p].exec = verb.tree[p].exec /\ verb.idx[p].stat = stat[p]
           ELSE ~ work[p].has
    /\ verb.tree[p].has /\ p \notin raced => ~ Mistaken(verb.idx[p], work[p], stat[p])

\* A scan that is under way: what it has still to see, and what it has seen.
Scanning ==
    verb.pc \in {"scan", "read"} =>
      /\ \A p \in verb.todo : verb.tree[p] = Absent /\ verb.idx[p] = index.entry[p]
      /\ \A p \in Paths : IsFile(verb.idx[p].file)
      /\ \A p \in Paths \ verb.todo : Scanned(p)

\* A file that is about to be read has the tuple the scan has seen, unless it was touched.
Reading ==
    verb.pc = "read" =>
      \A p \in Paths : verb.file = {p} =>
         /\ p \in verb.todo
         /\ p \notin verb.touched => work[p].has /\ verb.stat = stat[p] /\ verb.exec = work[p].exec

\* What the scan has reported is the directory.
Selecting ==
    verb.pc = "select" => \A p \in Paths \ (verb.touched \cup raced) : verb.tree[p] = work[p]

\* What holds of the verb at work.
VerbInv == VerbOK /\ Committing /\ Merging /\ Scanning /\ Reading /\ Selecting /\ ProposesTheDirectory

\* What holds of the directory, the index and the changes between the steps of any verb.
DirInv == RefsOK /\ DirOK /\ IndexOK /\ IndexHonest /\ BasedHonest /\ OwnEdits

\* The inductive invariant.
WorkcopyInv == DirInv /\ BudgetOK /\ VerbInv

-----------------------------------------------------------------------------
\* The parts of the invariant give every variable its declared type.
LEMMA Declared == DirOK /\ RefsOK /\ IndexOK /\ BudgetOK => WorkcopyTypeOK
<1> SUFFICES ASSUME DirOK, RefsOK, IndexOK, BudgetOK
             PROVE  WorkcopyTypeOK
  OBVIOUS
<1>1. main \in DOMAIN changes /\ peer \in DOMAIN changes /\ based \in 0..Len(changes)
  BY DEF RefsOK, Ids
<1>2. \A p \in Paths : work[p].has <=> stat[p] # NoStat
  BY DEF DirOK, NoStat, Inodes, Stats
<1>3. \A b \in DOMAIN Bounds : used[b] \in 0..Bounds[b]
  BY WorkcopyAssumption DEF BudgetOK
<1>4. index.written <= clock
  BY DEF DirOK, IndexOK
<1>5. spent <= Budget
  BY WorkcopyAssumption DEF BudgetOK
<1> QED
  BY <1>1, <1>2, <1>3, <1>4, <1>5 DEF WorkcopyTypeOK, DirOK

\* What is bounded.
LEMMA BoundNames ==
    DOMAIN Bounds = {"edits", "shifts", "commits", "peer", "merges", "peerMerges", "scans", "ticks", "moves"}
  BY DEF Bounds

\* A step that uses up some of a bound stays within it.
LEMMA Using ==
    ASSUME BudgetOK, NEW b \in DOMAIN Bounds, Use(b)
    PROVE  BudgetOK'
<1>1. used' = [used EXCEPT ![b] = used[b] + 1] /\ used[b] < Bounds[b]
  BY DEF Use
<1>2. used' \in [DOMAIN Bounds -> Nat] /\ \A a \in DOMAIN Bounds : used'[a] <= Bounds[a]
  BY <1>1, WorkcopyAssumption DEF BudgetOK
<1>3. Cost[b] \in Nat /\ Budget \in Nat
  BY WorkcopyAssumption
<1>4. spent' \in 0..Budget
  BY <1>3 DEF BudgetOK, Use
<1> QED
  BY <1>2, <1>4 DEF BudgetOK

\* Other steps leave the bounds alone.
LEMMA NotUsing == BudgetOK /\ UNCHANGED budget => BudgetOK'
  BY DEF BudgetOK, budget

\* A verb that has returned.
LEMMA Returned == Return => VerbInv'
<1> SUFFICES ASSUME Return PROVE VerbInv'
  OBVIOUS
<1>1. verb' = NoVerb /\ NoVerb.pc = "idle"
  BY DEF Return, NoVerb
<1>2. verb'.pc = "idle"
  BY <1>1
<1>3. VerbOK'
  BY <1>1, <1>2 DEF VerbOK, NoVerb, EmptyTree, NoEntries
<1> QED
  BY <1>2, <1>3 DEF VerbInv, Committing, Merging, Scanning, Reading, Selecting, ProposesTheDirectory, At

\* A step of a verb that writes nothing.
LEMMA NothingWritten == DirInv /\ UNCHANGED <<repo, dir, index, clock, history>> => DirInv'
<1> SUFFICES ASSUME DirInv, UNCHANGED <<repo, dir, index, clock, history>>
             PROVE  DirInv'
  OBVIOUS
<1> USE DEF repo, dir, history, Ids
<1>1. RefsOK' /\ DirOK' /\ IndexOK'
  BY DEF DirInv, RefsOK, DirOK, IndexOK
<1>2. IndexHonest' /\ BasedHonest'
  BY DEF DirInv, IndexHonest, BasedHonest, Lines
<1>3. OwnEdits'
  BY DEF DirInv, OwnEdits, Deletes, Inserts, Inherited, Lines
<1> QED
  BY <1>1, <1>2, <1>3 DEF DirInv


\* The verb that is none.
LEMMA NoVerbShape ==
    /\ NoVerb.pc = "idle" /\ NoVerb.todo = {} /\ NoVerb.tree = EmptyTree /\ NoVerb.idx = NoEntries /\ NoVerb.touched = {}
    /\ EmptyTree = [p \in Paths |-> Absent] /\ NoEntries = [p \in Paths |-> NoEntry]
  BY DEF NoVerb, EmptyTree, NoEntries

\* WriteTree: the tree recorded is the directory, and no edit comes before the swap.
LEMMA CommitTreeStep == WorkcopyInv /\ CommitTree => WorkcopyInv'
<1> SUFFICES ASSUME WorkcopyInv, CommitTree PROVE WorkcopyInv'
  OBVIOUS
<1>1. DirInv'
  BY NothingWritten DEF WorkcopyInv, CommitTree
<1>2. BudgetOK'
  BY Using, BoundNames DEF WorkcopyInv, CommitTree
<1>3. /\ verb'.pc = "commitHead" /\ verb'.tree = work /\ verb'.on = based /\ verb'.idx = NoEntries
      /\ verb' = [pc |-> "commitHead", ours |-> 0, theirs |-> 0, on |-> based, tree |-> work, todo |-> {},
                  file |-> {}, stat |-> NoStat, exec |-> FALSE, idx |-> NoEntries, only |-> {}, touched |-> {}]
  BY DEF CommitTree, NoVerb
<1>4. work' = work /\ based' = based
  BY DEF CommitTree, dir, history
<1>5. VerbOK'
  <2>1. work = [p \in Paths |-> work[p]]
    BY DEF WorkcopyInv, DirInv, DirOK, IsTree
  <2> QED
    BY <1>3, <2>1, NoVerbShape DEF VerbOK
<1>6. VerbInv'
  BY <1>3, <1>4, <1>5 DEF VerbInv, Committing, Merging, Scanning, Reading, Selecting, ProposesTheDirectory, At
<1> QED
  BY <1>1, <1>2, <1>6 DEF WorkcopyInv

\* commit reads the parent, or a hook vetoes.
LEMMA CommitHeadStep == WorkcopyInv /\ CommitHead => WorkcopyInv'
<1> SUFFICES ASSUME WorkcopyInv, CommitHead PROVE WorkcopyInv'
  OBVIOUS
<1>1. DirInv' /\ BudgetOK'
  BY NothingWritten, NotUsing DEF WorkcopyInv, CommitHead
<1>2. CASE Return
  BY <1>1, <1>2, Returned DEF WorkcopyInv
<1>3. CASE verb' = [verb EXCEPT !.pc = "commitSwap", !.ours = main]
  <2>1. VerbOK
    BY DEF WorkcopyInv, VerbInv
  <2>2. /\ verb'.pc = "commitSwap" /\ verb'.tree = verb.tree /\ verb'.on = verb.on
        /\ verb'.idx = verb.idx /\ verb'.todo = verb.todo
    BY <1>3, <2>1 DEF VerbOK
  <2>3. VerbOK'
    BY <1>3, <2>1, <2>2 DEF VerbOK
  <2>4. work' = work /\ based' = based
    BY DEF CommitHead, dir, history
  <2>5. VerbInv'
    BY <2>2, <2>3, <2>4 DEF WorkcopyInv, CommitHead, VerbInv, Committing, Merging, Scanning, Reading,
                                 Selecting, ProposesTheDirectory, At
  <2> QED
    BY <1>1, <2>5 DEF WorkcopyInv
<1> QED
  BY <1>2, <1>3 DEF CommitHead

\* merge reads both heads.
LEMMA MergeHeadsStep == WorkcopyInv /\ MergeHeads => WorkcopyInv'
<1> SUFFICES ASSUME WorkcopyInv, MergeHeads PROVE WorkcopyInv'
  OBVIOUS
<1>1. DirInv'
  BY NothingWritten DEF WorkcopyInv, MergeHeads
<1>2. BudgetOK'
  BY Using, BoundNames DEF WorkcopyInv, MergeHeads
<1>3. verb' = [pc |-> "merge", ours |-> main, theirs |-> peer, on |-> 0, tree |-> EmptyTree, todo |-> {},
               file |-> {}, stat |-> NoStat, exec |-> FALSE, idx |-> NoEntries, only |-> {}, touched |-> {}]
  BY DEF MergeHeads, NoVerb
<1>4. VerbOK'
  <2>1. main \in Ids' /\ peer \in Ids'
    BY DEF WorkcopyInv, DirInv, RefsOK, MergeHeads, repo, Ids
  <2> QED
    BY <1>3, <2>1, NoVerbShape DEF VerbOK
<1>5. VerbInv'
  BY <1>3, <1>4 DEF VerbInv, Committing, Merging, Scanning, Reading, Selecting, ProposesTheDirectory, At
<1> QED
  BY <1>1, <1>2, <1>5 DEF WorkcopyInv

\* A scan begins with the entries of the saved index.
LEMMA ProposeBaseStep == WorkcopyInv /\ ProposeBase => WorkcopyInv'
<1> SUFFICES ASSUME WorkcopyInv, ProposeBase PROVE WorkcopyInv'
  OBVIOUS
<1>1. DirInv'
  BY NothingWritten DEF WorkcopyInv, ProposeBase
<1>2. BudgetOK'
  BY Using, BoundNames DEF WorkcopyInv, ProposeBase
<1>3. PICK base \in {1, main} :
        verb' = [pc |-> "scan", ours |-> base, theirs |-> 0, on |-> 0, tree |-> EmptyTree, todo |-> {p \in Paths : work[p].has},
                 file |-> {}, stat |-> NoStat, exec |-> FALSE, idx |-> index.entry, only |-> {}, touched |-> {}]
  BY DEF ProposeBase, NoVerb
<1>4. IndexOK /\ index' = index /\ work' = work /\ raced' = raced /\ stat' = stat
  BY DEF WorkcopyInv, DirInv, ProposeBase, dir, history
<1>5. VerbOK'
  <2>1. base \in Ids'
    <3>1. main \in 1..Len(changes) /\ Ids' = 1..Len(changes) /\ Len(changes) \in Nat
      BY DEF WorkcopyInv, DirInv, RefsOK, ProposeBase, repo, Ids
    <3> QED
      BY <3>1
  <2> QED
    BY <1>3, <1>4, <2>1, NoVerbShape DEF VerbOK, IndexOK
<1>6. Scanning'
  <2>1. /\ verb'.todo = {p \in Paths : work[p].has} /\ verb'.idx = index'.entry /\ verb'.tree = EmptyTree
    BY <1>3, <1>4
  <2>2. \A p \in Paths : EmptyTree[p] = Absent /\ ~ Absent.has
    BY NoFile DEF EmptyTree
  <2>3. \A p \in Paths \ verb'.todo : Scanned(p)'
    BY <1>4, <2>1, <2>2 DEF Scanned
  <2> QED
    BY <1>4, <2>1, <2>2, <2>3 DEF Scanning, IndexOK
<1>7. VerbInv'
  BY <1>3, <1>5, <1>6 DEF VerbInv, Committing, Merging, Reading, Selecting, ProposesTheDirectory, At
<1> QED
  BY <1>1, <1>2, <1>7 DEF WorkcopyInv

\* The change is in the pool and the verb ends.
LEMMA ProposeStep == WorkcopyInv /\ Propose => WorkcopyInv'
  BY NothingWritten, NotUsing, Returned DEF WorkcopyInv, Propose

\* Time makes no entry older than it was.
LEMMA SecondPassesStep == WorkcopyInv /\ SecondPasses => WorkcopyInv'
<1> SUFFICES ASSUME WorkcopyInv, SecondPasses PROVE WorkcopyInv'
  OBVIOUS
<1> USE DEF repo, dir, history, Ids
<1>1. BudgetOK'
  BY Using, BoundNames DEF WorkcopyInv, SecondPasses
<1>2. RefsOK'
  BY DEF WorkcopyInv, DirInv, RefsOK, SecondPasses
<1>3. DirOK'
  BY DEF WorkcopyInv, DirInv, DirOK, SecondPasses, Stats
<1>4. IndexOK'
  BY DEF WorkcopyInv, DirInv, DirOK, IndexOK, SecondPasses
<1>5. IndexHonest' /\ BasedHonest'
  BY DEF WorkcopyInv, DirInv, IndexHonest, BasedHonest, Lines, SecondPasses
<1>6. OwnEdits'
  BY DEF WorkcopyInv, DirInv, OwnEdits, Deletes, Inserts, Inherited, Lines, SecondPasses
<1>7. VerbInv'
  BY DEF WorkcopyInv, VerbInv, VerbOK, Committing, Merging, Scanning, Scanned, Reading,
         Selecting, ProposesTheDirectory, At, SecondPasses
<1> QED
  BY <1>1, <1>2, <1>3, <1>4, <1>5, <1>6, <1>7 DEF WorkcopyInv, DirInv


\* scanDir: a file that has gone, one the index vouches for, one to be read.
LEMMA ScanStatStep == ASSUME NEW p \in Paths PROVE WorkcopyInv /\ ScanStat(p) => WorkcopyInv'
<1> SUFFICES ASSUME WorkcopyInv, ScanStat(p) PROVE WorkcopyInv'
  OBVIOUS
<1>1. DirInv' /\ BudgetOK'
  BY NothingWritten, NotUsing DEF WorkcopyInv, ScanStat
<1>2. VerbOK /\ Scanning /\ verb.pc = "scan" /\ p \in verb.todo
  BY DEF WorkcopyInv, VerbInv, ScanStat, At, NextFile
<1>3. /\ work' = work /\ stat' = stat /\ index' = index /\ raced' = raced /\ changes' = changes
      /\ IsFile(work[p]) /\ IndexOK /\ IndexHonest /\ stat \in [Paths -> Stats]
  BY DEF WorkcopyInv, DirInv, DirOK, IsTree, ScanStat, dir, history, repo
<1>4. verb.tree[p] = Absent /\ verb.idx[p] = index.entry[p] /\ ~ Absent.has
  BY <1>2, NoFile DEF Scanning
<1>5. CASE ~ work[p].has
  <2>1. Return
    BY <1>5 DEF ScanStat, Return
  <2> QED
    BY <1>1, <2>1, Returned DEF WorkcopyInv
<1>6. SUFFICES ASSUME work[p].has
               PROVE  VerbOK' /\ Scanning' /\ Reading' /\ verb'.pc \in {"scan", "read"}
  BY <1>1, <1>5, <1>6 DEF WorkcopyInv, VerbInv, Committing, Merging, Selecting, ProposesTheDirectory, At
<1>7. CASE work[p].has /\ Clean(verb.idx[p], stat[p], work[p].exec)
  <2> DEFINE e == verb.idx[p]
  <2>1. verb' = [verb EXCEPT !.todo = verb.todo \ {p}, !.tree = [verb.tree EXCEPT ![p] = e.file]]
    BY <1>2, <1>7 DEF ScanStat, VerbOK
  <2>2. /\ verb'.pc = "scan" /\ verb'.tree = [verb.tree EXCEPT ![p] = e.file] /\ verb'.idx = verb.idx
        /\ verb'.touched = verb.touched /\ verb'.todo = verb.todo \ {p} /\ verb'.ours = verb.ours
    BY <1>2, <2>1 DEF VerbOK
  <2>3. verb'.tree[p] = e.file /\ \A q \in Paths \ {p} : verb'.tree[q] = verb.tree[q]
    BY <1>2, <2>2 DEF VerbOK
  <2>4. VerbOK'
    <3>1. verb'.tree = [q \in Paths |-> verb'.tree[q]]
      BY <1>2, <2>2 DEF VerbOK
    <3> QED
      BY <1>2, <1>3, <2>1, <2>2, <3>1 DEF VerbOK, Ids
  <2>5. e.file.has /\ e.stat = stat[p] /\ e.file.exec = work[p].exec /\ (index.written # 0 => stat[p].mtime < index.written)
    BY <1>7 DEF Clean
  <2>6. p \notin raced => ~ Mistaken(e, work[p], stat[p])
    <3>1. index.written # 0
      BY <1>3, <1>4, <2>5 DEF IndexOK
    <3> QED
      BY <1>3, <1>4, <2>5, <3>1 DEF IndexHonest
  <2>7. Scanned(p)'
    BY <1>3, <1>7, <2>2, <2>3, <2>5, <2>6 DEF Scanned
  <2>8. \A q \in Paths \ verb.todo : Scanned(q)'
    BY <1>2, <1>3, <2>2, <2>3 DEF Scanning, Scanned
  <2>9. Scanning'
    BY <1>2, <1>3, <2>2, <2>3, <2>7, <2>8 DEF Scanning
  <2> QED
    BY <2>2, <2>4, <2>9 DEF Reading
<1>8. CASE work[p].has /\ ~ Clean(verb.idx[p], stat[p], work[p].exec)
  <2>1. verb' = [verb EXCEPT !.pc = "read", !.file = {p}, !.stat = stat[p], !.exec = work[p].exec]
    BY <1>8 DEF ScanStat
  <2>2. /\ verb'.pc = "read" /\ verb'.tree = verb.tree /\ verb'.idx = verb.idx /\ verb'.touched = verb.touched
        /\ verb'.todo = verb.todo /\ verb'.ours = verb.ours /\ verb'.file = {p} /\ verb'.stat = stat[p]
        /\ verb'.exec = work[p].exec
    BY <1>2, <2>1 DEF VerbOK
  <2>3. VerbOK'
    BY <1>2, <1>3, <2>1, <2>2 DEF VerbOK, Ids
  <2>4. Scanning'
    BY <1>2, <1>3, <2>2 DEF Scanning, Scanned
  <2>5. Reading'
    BY <1>2, <1>3, <1>8, <2>2 DEF Reading
  <2> QED
    BY <2>2, <2>3, <2>4, <2>5
<1> QED
  BY <1>6, <1>7, <1>8

\* scanDir: the content read is hashed under the tuple of before, or the file has gone.
LEMMA ScanReadStep == ASSUME NEW p \in Paths PROVE WorkcopyInv /\ ScanRead(p) => WorkcopyInv'
<1> SUFFICES ASSUME WorkcopyInv, ScanRead(p) PROVE WorkcopyInv'
  OBVIOUS
<1>1. DirInv' /\ BudgetOK'
  BY NothingWritten, NotUsing DEF WorkcopyInv, ScanRead
<1>2. CASE ~ work[p].has
  <2>1. Return
    BY <1>2 DEF ScanRead, Return
  <2> QED
    BY <1>1, <2>1, Returned DEF WorkcopyInv
<1>3. CASE work[p].has
  <2> DEFINE f == File(work[p].text, verb.exec)
             e == [stat |-> verb.stat, file |-> f]
  <2>1. /\ VerbOK /\ Scanning /\ verb.pc = "read" /\ p \in verb.todo
        /\ p \notin verb.touched => verb.stat = stat[p] /\ verb.exec = work[p].exec
    BY DEF WorkcopyInv, VerbInv, ScanRead, At, Reading
  <2>2. /\ work' = work /\ stat' = stat /\ index' = index /\ raced' = raced /\ changes' = changes
    BY DEF ScanRead, dir, history, repo
  <2>3. verb' = [verb EXCEPT !.pc = "scan", !.file = {}, !.todo = verb.todo \ {p},
                             !.tree = [verb.tree EXCEPT ![p] = f], !.stat = NoStat, !.exec = FALSE,
                             !.idx = [verb.idx EXCEPT ![p] = e]]
    BY <1>3, <2>1 DEF ScanRead, VerbOK
  <2>4. /\ verb'.pc = "scan" /\ verb'.tree = [verb.tree EXCEPT ![p] = f]
        /\ verb'.idx = [verb.idx EXCEPT ![p] = e] /\ verb'.touched = verb.touched
        /\ verb'.todo = verb.todo \ {p} /\ verb'.ours = verb.ours
    BY <2>1, <2>3 DEF VerbOK
  <2>5. /\ verb'.tree[p] = f /\ verb'.idx[p] = e
        /\ \A q \in Paths \ {p} : verb'.tree[q] = verb.tree[q] /\ verb'.idx[q] = verb.idx[q]
    BY <2>1, <2>4 DEF VerbOK
  <2>6. f.has /\ f.text = work[p].text /\ f.exec = verb.exec /\ e.file = f /\ e.stat = verb.stat /\ IsFile(f)
    BY FilesAreFiles
  <2> HIDE DEF f, e
  <2>7. VerbOK'
    <3>1. verb'.tree = [q \in Paths |-> verb'.tree[q]] /\ verb'.idx = [q \in Paths |-> verb'.idx[q]]
      BY <2>1, <2>4 DEF VerbOK
    <3> QED
      BY <2>1, <2>2, <2>3, <2>4, <3>1 DEF VerbOK, Ids
  <2>8. Scanned(p)'
    BY <1>3, <2>1, <2>2, <2>4, <2>5, <2>6 DEF Scanned, Mistaken
  <2>9. \A q \in Paths \ verb.todo : Scanned(q)'
    BY <2>1, <2>2, <2>4, <2>5 DEF Scanning, Scanned
  <2>10. Scanning'
    BY <2>1, <2>2, <2>4, <2>5, <2>6, <2>8, <2>9 DEF Scanning
  <2> QED
    BY <1>1, <2>4, <2>7, <2>10 DEF WorkcopyInv, VerbInv, Committing, Merging, Reading, Selecting, ProposesTheDirectory, At
<1> QED
  BY <1>2, <1>3

\* Save: what is raced no longer is a file with an entry of another text.
LEMMA SaveIndexStep == WorkcopyInv /\ SaveIndex => WorkcopyInv'
<1> SUFFICES ASSUME WorkcopyInv, SaveIndex PROVE WorkcopyInv'
  OBVIOUS
<1> DEFINE entries == [p \in Paths |-> IF verb.tree[p].has THEN verb.idx[p] ELSE NoEntry]
<1>1. BudgetOK'
  BY NotUsing DEF WorkcopyInv, SaveIndex
<1>2. /\ VerbOK /\ Scanning /\ verb.pc = "scan" /\ verb.todo = {}
      /\ \A p \in Paths : Scanned(p) /\ IsFile(verb.idx[p].file)
  BY DEF WorkcopyInv, VerbInv, SaveIndex, At, Scanning
<1>3. /\ index' = [written |-> clock, entry |-> entries]
      /\ raced' = {p \in raced : Mistaken(entries[p], work[p], stat[p])}
      /\ work' = work /\ stat' = stat /\ clock' = clock /\ changes' = changes /\ main' = main /\ peer' = peer
      /\ typed' = typed /\ removed' = removed /\ left' = left /\ based' = based
      /\ verb' = [verb EXCEPT !.pc = "select", !.idx = NoEntries]
  BY DEF SaveIndex, dir, repo
<1>4. \A p \in Paths : /\ entries[p] = IF verb.tree[p].has THEN verb.idx[p] ELSE NoEntry
                       /\ IsFile(entries[p].file)
  BY <1>2, FilesAreFiles DEF NoEntry
<1> HIDE DEF entries
<1>5. RefsOK' /\ DirOK'
  BY <1>3 DEF WorkcopyInv, DirInv, RefsOK, DirOK, Ids
<1>6. IndexOK'
  <2>1. entries = [p \in Paths |-> entries[p]]
    BY DEF entries
  <2>2. clock \in Nat \ {0}
    BY DEF WorkcopyInv, DirInv, DirOK
  <2> QED
    BY <1>3, <1>4, <2>1, <2>2 DEF IndexOK
<1>7. \A p \in Paths \ raced' : ~ Mistaken(entries[p], work[p], stat[p])
  <2> SUFFICES ASSUME NEW p \in Paths, p \notin raced'
               PROVE  ~ Mistaken(entries[p], work[p], stat[p])
    OBVIOUS
  <2>1. CASE p \in raced
    BY <1>3, <2>1
  <2>2. CASE p \notin raced /\ verb.tree[p].has
    BY <1>2, <1>4, <2>2 DEF Scanned
  <2>3. CASE ~ verb.tree[p].has
    BY <1>4, <2>3, NoFile DEF Mistaken, NoEntry
  <2> QED
    BY <2>1, <2>2, <2>3
<1>8. IndexHonest'
  BY <1>3, <1>7 DEF IndexHonest
<1>9. BasedHonest' /\ OwnEdits'
  <2>1. BasedHonest'
    BY <1>3 DEF WorkcopyInv, DirInv, BasedHonest, Lines
  <2>2. OwnEdits'
    BY <1>3 DEF WorkcopyInv, DirInv, OwnEdits, Deletes, Inserts, Inherited, Lines
  <2> QED
    BY <2>1, <2>2
<1>10. verb'.pc = "select" /\ verb'.tree = verb.tree /\ verb'.touched = verb.touched /\ verb'.ours = verb.ours
       /\ verb'.todo = verb.todo /\ verb'.idx = NoEntries
  BY <1>2, <1>3 DEF VerbOK
<1>11. VerbOK'
  <2>1. NoEntries = [p \in Paths |-> NoEntries[p]]
    BY DEF NoEntries
  <2> QED
    BY <1>2, <1>3, <1>10, <2>1 DEF VerbOK, Ids
<1>12. Selecting'
  <2> SUFFICES ASSUME NEW p \in Paths, p \notin verb.touched, p \notin raced'
               PROVE  verb.tree[p] = work[p]
    BY <1>3, <1>10 DEF Selecting
  <2>1. IsFile(work[p]) /\ IsFile(verb.idx[p].file)
    BY <1>2 DEF WorkcopyInv, DirInv, DirOK, IsTree
  <2>2. CASE ~ verb.tree[p].has
    BY <1>2, <2>1, <2>2, FileOrAbsent DEF Scanned
  <2>3. CASE verb.tree[p].has
    <3>1. /\ verb.tree[p] = verb.idx[p].file /\ work[p].has /\ work[p].exec = verb.tree[p].exec
          /\ verb.idx[p].stat = stat[p] /\ entries[p] = verb.idx[p]
      BY <1>2, <1>4, <2>3 DEF Scanned
    <3>2. verb.tree[p].text = work[p].text
      BY <1>7, <2>3, <3>1 DEF Mistaken
    <3> QED
      BY <2>1, <2>3, <3>1, <3>2, FileOrAbsent
  <2> QED
    BY <2>2, <2>3
<1> QED
  BY <1>1, <1>5, <1>6, <1>8, <1>9, <1>10, <1>11, <1>12
     DEF WorkcopyInv, DirInv, VerbInv, Committing, Merging, Scanning, Reading, ProposesTheDirectory, At


\* The edits of a comparison take the base to the new tree, path by path.
LEMMA EditsComplete ==
    ASSUME NEW base, NEW new, NEW p \in Paths, IsFile(base[p]), IsFile(new[p])
    PROVE  LET e == EditsOf(Compare(base, new))
           IN  /\ p \in e.del => new[p] = Absent
               /\ p \notin e.write \cup e.del => new[p] = base[p]
<1> DEFINE added == {q \in Paths : new[q].has /\ ~ base[q].has}
           gone == {q \in Paths : base[q].has /\ ~ new[q].has}
           byHash == {[from |-> r, to |-> a] : r \in gone, a \in added}
           same == {x \in byHash : base[x.from].text = new[x.to].text}
           renamed == {CHOOSE x \in same : base[x.from].text = base[y.from].text : y \in same}
           changed == {q \in Paths : base[q].has /\ new[q].has /\ base[q] # new[q]}
           froms == {x.from : x \in renamed}
           tos == {x.to : x \in renamed}
           d == Compare(base, new)
           e == EditsOf(d)
<1>1. /\ d.added = added \ tos /\ d.removed = gone \ froms /\ d.changed = changed /\ d.renamed = renamed
  BY DEF Compare
<1>2. e.write = (added \ tos) \cup changed \cup tos /\ e.del = (gone \ froms) \cup froms
  <2> HIDE DEF d, renamed, added, gone, changed
  <2> QED
    BY <1>1 DEF EditsOf
<1>3. renamed \subseteq same
  <2> SUFFICES ASSUME NEW y \in same
               PROVE  (CHOOSE x \in same : base[x.from].text = base[y.from].text) \in same
    OBVIOUS
  <2> QED
    OBVIOUS
<1>4. froms \subseteq gone
  <2>1. \A x \in byHash : x.from \in gone
    OBVIOUS
  <2>2. same \subseteq byHash
    OBVIOUS
  <2> HIDE DEF renamed, same, byHash, gone
  <2>3. \A x \in renamed : x.from \in gone
    BY <1>3, <2>1, <2>2
  <2> QED
    BY <2>3
<1>5. added \cup changed \subseteq e.write /\ e.del = gone
  BY <1>2, <1>4
<1> HIDE DEF e
<1>6. p \in e.del => new[p] = Absent
  BY <1>5, FileOrAbsent
<1>7. p \notin e.write \cup e.del => new[p] = base[p]
  BY <1>5, FileOrAbsent
<1> QED
  BY <1>6, <1>7 DEF e

\* SelectEdits: the selected paths come from the directory, the others from the base.
LEMMA SelectEditsStep ==
    ASSUME NEW only \in Selections, NEW scope \in Scopes
    PROVE  WorkcopyInv /\ SelectEdits(only, scope) => WorkcopyInv'
<1> SUFFICES ASSUME WorkcopyInv, SelectEdits(only, scope) PROVE WorkcopyInv'
  OBVIOUS
<1> DEFINE base == changes[verb.ours].tree
           e == EditsOf(Compare(base, verb.tree))
           all == e.write \cup e.del
           kept == IF only = {} THEN all ELSE only
           tree == Overlay(base, verb.tree, e.write \cap kept, e.del \cap kept)
<1>1. DirInv' /\ BudgetOK'
  BY NothingWritten, NotUsing DEF WorkcopyInv, SelectEdits
<1>2. CASE Return
  BY <1>1, <1>2, Returned DEF WorkcopyInv
<1>3. CASE verb' = [verb EXCEPT !.pc = "pool", !.only = only, !.tree = tree] /\ only \subseteq all
  <2>1. /\ VerbOK /\ Selecting /\ verb.pc = "select" /\ verb.ours \in Ids
    BY DEF WorkcopyInv, VerbInv, SelectEdits, At, VerbOK
  <2>2. /\ work' = work /\ raced' = raced /\ changes' = changes
    BY DEF SelectEdits, dir, history, repo
  <2>3. IsTree(base) /\ IsTree(work)
    BY <2>1 DEF WorkcopyInv, DirInv, RefsOK, DirOK
  <2> HIDE DEF e, base
  <2>4. /\ tree = [p \in Paths |-> tree[p]]
        /\ \A p \in Paths : tree[p] = IF p \in e.del \cap kept THEN Absent
                                      ELSE IF p \in e.write \cap kept THEN verb.tree[p] ELSE base[p]
    BY DEF Overlay
  <2> HIDE DEF tree
  <2>5. /\ verb'.pc = "pool" /\ verb'.tree = tree /\ verb'.only = only /\ verb'.touched = verb.touched
        /\ verb'.ours = verb.ours /\ verb'.todo = verb.todo /\ verb'.idx = verb.idx
    BY <1>3, <2>1 DEF VerbOK
  <2>6. VerbOK'
    BY <1>3, <2>1, <2>2, <2>4, <2>5 DEF VerbOK, Ids
  <2>7. ProposesTheDirectory'
    <3> SUFFICES ASSUME NEW p \in Paths, p \notin verb.touched, p \notin raced
                 PROVE  tree[p] = IF only = {} \/ p \in only THEN work[p] ELSE base[p]
      BY <2>2, <2>5 DEF ProposesTheDirectory, At, base
    <3>1. verb.tree[p] = work[p] /\ IsFile(verb.tree[p]) /\ IsFile(base[p])
      BY <2>1, <2>3 DEF Selecting, IsTree
    <3>2. (p \in e.del => work[p] = Absent) /\ (p \notin all => work[p] = base[p])
      BY <3>1, EditsComplete DEF e
    <3> QED
      BY <1>3, <2>4, <3>1, <3>2
  <2> QED
    BY <1>1, <2>5, <2>6, <2>7 DEF WorkcopyInv, VerbInv, Committing, Merging, Scanning, Reading, Selecting
<1> QED
  <2>1. verb' = NoVerb \/ (verb' = [verb EXCEPT !.pc = "pool", !.only = only, !.tree = tree] /\ only \subseteq all)
    BY DEF SelectEdits
  <2> QED
    BY <1>2, <1>3, <2>1 DEF Return

-----------------------------------------------------------------------------
\* Whatever the user makes of the directory.
LEMMA Edits ==
    ASSUME WorkcopyInv, NEW w, NEW st, Become(w, st), UserTurn, BudgetOK', DirOK'
    PROVE  WorkcopyInv'
<1> DEFINE hit == {p \in Paths : w[p] # work[p] \/ st[p] # stat[p]}
           mistaken == {p \in hit : \/ Mistaken(verb.idx[p], w[p], st[p])
                                    \/ /\ Mistaken(index.entry[p], w[p], st[p])
                                       /\ st[p].mtime < index.written}
<1>1. /\ work' = w /\ stat' = st /\ raced' = raced \cup mistaken
      /\ typed' = typed \cup (LinesOf(w) \ LinesOf(work))
      /\ removed' = removed \cup (LinesOf(work) \ LinesOf(w))
      /\ verb' = IF At("idle") THEN verb ELSE [verb EXCEPT !.touched = verb.touched \cup hit]
      /\ changes' = changes /\ main' = main /\ peer' = peer /\ index' = index /\ clock' = clock
      /\ left' = left /\ based' = based
  BY DEF Become, repo
<1>2. RefsOK' /\ IndexOK'
  BY <1>1 DEF WorkcopyInv, DirInv, RefsOK, IndexOK, Ids
<1>3. IndexHonest'
  BY <1>1 DEF WorkcopyInv, DirInv, IndexHonest
<1>4. BasedHonest'
  BY <1>1 DEF WorkcopyInv, DirInv, BasedHonest, Lines
<1>5. OwnEdits'
  BY <1>1 DEF WorkcopyInv, DirInv, OwnEdits, Deletes, Inserts, Inherited, Lines
<1>6. DirInv'
  BY <1>2, <1>3, <1>4, <1>5 DEF DirInv
<1>7. CASE At("idle")
  <2>1. verb' = verb /\ verb'.pc = "idle"
    BY <1>1, <1>7 DEF At
  <2>2. VerbOK'
    BY <1>1, <2>1 DEF WorkcopyInv, VerbInv, VerbOK, Ids
  <2> QED
    BY <1>6, <2>1, <2>2 DEF WorkcopyInv, VerbInv, Committing, Merging, Scanning, Reading, Selecting, ProposesTheDirectory, At
<1>8. CASE verb.pc \in {"scan", "read"}
  <2>1. VerbOK /\ Scanning /\ Reading
    BY DEF WorkcopyInv, VerbInv
  <2>2. verb' = [verb EXCEPT !.touched = verb.touched \cup hit]
    BY <1>1, <1>8 DEF At
  <2>3. /\ verb'.pc = verb.pc /\ verb'.tree = verb.tree /\ verb'.idx = verb.idx /\ verb'.todo = verb.todo
        /\ verb'.ours = verb.ours /\ verb'.file = verb.file /\ verb'.stat = verb.stat /\ verb'.exec = verb.exec
        /\ verb'.touched = verb.touched \cup hit
    BY <2>1, <2>2 DEF VerbOK
  <2>4. VerbOK'
    BY <1>1, <2>1, <2>2, <2>3 DEF VerbOK, Ids
  <2>5. ASSUME NEW p \in Paths, p \notin verb.todo
        PROVE  Scanned(p)'
    <3>1. Scanned(p)
      BY <1>8, <2>1, <2>5 DEF Scanning
    <3>2. CASE p \in hit
      <4>1. p \in verb'.touched /\ (p \notin raced' => ~ Mistaken(verb.idx[p], w[p], st[p]))
        BY <1>1, <2>3, <3>2
      <4> QED
        BY <1>1, <2>3, <3>1, <4>1 DEF Scanned
    <3>3. CASE p \notin hit
      <4>1. w[p] = work[p] /\ st[p] = stat[p]
        BY <3>3
      <4> HIDE DEF hit, mistaken
      <4> QED
        BY <1>1, <2>3, <3>1, <4>1 DEF Scanned
    <3> QED
      BY <3>2, <3>3
  <2>6. Scanning'
    BY <1>1, <1>8, <2>1, <2>3, <2>5 DEF Scanning
  <2>7. Reading'
    BY <1>1, <1>8, <2>1, <2>3 DEF Reading
  <2> QED
    BY <1>6, <1>8, <2>3, <2>4, <2>6, <2>7 DEF WorkcopyInv, VerbInv, Committing, Merging, Selecting, ProposesTheDirectory, At
<1> QED
  BY <1>7, <1>8 DEF UserTurn, At

\* A file that is written.
LEMMA WrittenStat ==
    ASSUME DirOK, NEW p \in Paths, NEW f, IsFile(f)
    PROVE  /\ Written(p, f) \in Stats /\ Written(p, f).mtime <= clock
           /\ IF f.has THEN Written(p, f).inode \in Inodes /\ Written(p, f).mtime > 0 ELSE Written(p, f) = NoStat
           /\ f.has => \A q \in Paths \ {p} : Written(p, f).inode # stat[q].inode
<1>1. f.has \in BOOLEAN /\ work[p].has \in BOOLEAN /\ clock \in Nat \ {0} /\ stat[p] \in Stats
  BY FileOrAbsent DEF DirOK, IsTree
<1>2. CASE ~ f.has
  <2>1. Written(p, f) = NoStat
    BY <1>1, <1>2 DEF Written
  <2> QED
    BY <1>1, <1>2, <2>1 DEF NoStat, Stats
<1>3. CASE f.has /\ work[p].has
  <2>1. Written(p, f) = [stat[p] EXCEPT !.mtime = clock]
    BY <1>1, <1>3 DEF Written
  <2>2. Written(p, f) = [mtime |-> clock, inode |-> stat[p].inode]
    BY <1>1, <2>1 DEF Stats
  <2>3. stat[p].inode \in Inodes /\ \A q \in Paths \ {p} : stat[p].inode # stat[q].inode
    BY <1>3 DEF DirOK
  <2> QED
    BY <1>1, <1>3, <2>2, <2>3 DEF Stats
<1>4. CASE f.has /\ ~ work[p].has
  <2>1. Written(p, f) = [mtime |-> clock, inode |-> NewInodes(stat, {p})[p]]
    BY <1>1, <1>4 DEF Written
  <2>2. NewInodes(stat, {p})[p] \in Inodes /\ \A q \in Paths \ {p} : NewInodes(stat, {p})[p] # stat[q].inode
    <3>1. {p} \in SUBSET Paths
      OBVIOUS
    <3> QED
      BY <3>1, NewInodesFresh
  <2> DEFINE i == NewInodes(stat, {p})[p]
  <2>3. i \in Inodes /\ (\A q \in Paths \ {p} : i # stat[q].inode) /\ Written(p, f) = [mtime |-> clock, inode |-> i]
    BY <2>1, <2>2
  <2> HIDE DEF i
  <2>4. Written(p, f).mtime = clock /\ Written(p, f).inode = i
    BY <2>3
  <2> QED
    BY <1>1, <1>4, <2>3, <2>4 DEF Stats
<1> QED
  BY <1>1, <1>2, <1>3, <1>4

\* The user edits, creates or removes a file.
LEMMA EditFileStep == ASSUME NEW p \in Paths PROVE WorkcopyInv /\ EditFile(p) => WorkcopyInv'
<1> SUFFICES ASSUME WorkcopyInv, EditFile(p) PROVE WorkcopyInv'
  OBVIOUS
<1>1. BudgetOK' /\ UserTurn
  BY Using, BoundNames DEF WorkcopyInv, EditFile
<1>2. DirOK
  BY DEF WorkcopyInv, DirInv
<1>3. PICK f \in Edited(work[p], NewLine) :
        Become([work EXCEPT ![p] = f], [stat EXCEPT ![p] = Written(p, f)])
  BY DEF EditFile
<1>4. IsFile(f)
  BY FilesAreFiles DEF Edited, Inserted, Shortened
<1> DEFINE w == [work EXCEPT ![p] = f]
           st == [stat EXCEPT ![p] = Written(p, f)]
<1>5. /\ w = [q \in Paths |-> w[q]] /\ w[p] = f /\ \A q \in Paths \ {p} : w[q] = work[q]
      /\ st \in [Paths -> Stats] /\ st[p] = Written(p, f) /\ \A q \in Paths \ {p} : st[q] = stat[q]
  BY <1>2, <1>4, WrittenStat DEF DirOK, IsTree
<1>6. work' = w /\ stat' = st /\ clock' = clock
  BY <1>3 DEF Become
<1> HIDE DEF w, st
<1>7. DirOK'
  <2>1. IsTree(w)
    BY <1>2, <1>4, <1>5 DEF DirOK, IsTree
  <2>2. \A q \in Paths : IF w[q].has THEN st[q].inode \in Inodes /\ st[q].mtime > 0 ELSE st[q] = NoStat
    BY <1>2, <1>4, <1>5, WrittenStat DEF DirOK
  <2>3. \A q \in Paths : st[q].mtime <= clock
    BY <1>2, <1>4, <1>5, WrittenStat DEF DirOK
  <2>4. ASSUME NEW q \in Paths, NEW r \in Paths, st[q].inode = st[r].inode, w[q].has
        PROVE  q = r
    <3>1. CASE q = p
      BY <1>2, <1>4, <1>5, <2>4, <3>1, WrittenStat
    <3>2. CASE r = p /\ q # p
      <4>1. stat[q].inode \in Inodes /\ st[q].inode = stat[q].inode
        BY <1>2, <1>5, <2>4, <3>2 DEF DirOK
      <4>2. f.has
        BY <1>2, <1>4, <1>5, <2>4, <3>2, <4>1, WrittenStat DEF NoStat, Inodes
      <4> QED
        BY <1>2, <1>4, <1>5, <2>4, <3>2, <4>1, <4>2, WrittenStat
    <3>3. CASE r # p /\ q # p
      BY <1>2, <1>5, <2>4, <3>3 DEF DirOK
    <3> QED
      BY <3>1, <3>2, <3>3
  <2> QED
    BY <1>2, <1>5, <1>6, <2>1, <2>2, <2>3, <2>4 DEF DirOK
<1> QED
  BY <1>1, <1>3, <1>7, Edits

\* The user changes the mode of a file.
LEMMA ChangeModeStep == ASSUME NEW p \in Paths PROVE WorkcopyInv /\ ChangeMode(p) => WorkcopyInv'
<1> SUFFICES ASSUME WorkcopyInv, ChangeMode(p) PROVE WorkcopyInv'
  OBVIOUS
<1>1. BudgetOK' /\ UserTurn /\ work[p].has /\ DirOK
  BY Using, BoundNames DEF WorkcopyInv, ChangeMode, DirInv
<1> DEFINE w == [work EXCEPT ![p] = File(work[p].text, ~ work[p].exec)]
<1>2. Become(w, stat)
  BY DEF ChangeMode
<1>3. IsTree(w) /\ \A q \in Paths : w[q].has = work[q].has
  <2>3. w = [q \in Paths |-> w[q]] /\ w[p] = File(work[p].text, ~ work[p].exec) /\ \A q \in Paths \ {p} : w[q] = work[q]
    BY <1>1 DEF DirOK, IsTree
  <2> HIDE DEF w
  <2>4. IsFile(w[p]) /\ w[p].has
    BY <2>3, FilesAreFiles
  <2> QED
    BY <1>1, <2>3, <2>4, FileOrAbsent DEF DirOK, IsTree
<1>4. work' = w /\ stat' = stat /\ clock' = clock
  BY <1>2 DEF Become
<1> HIDE DEF w
<1>5. DirOK'
  BY <1>1, <1>3, <1>4 DEF DirOK
<1> QED
  BY <1>1, <1>2, <1>5, Edits

\* The user moves a file, and its tuple with it.
LEMMA MoveFileStep == ASSUME NEW p \in Paths, NEW q \in Paths PROVE WorkcopyInv /\ MoveFile(p, q) => WorkcopyInv'
<1> SUFFICES ASSUME WorkcopyInv, MoveFile(p, q) PROVE WorkcopyInv'
  OBVIOUS
<1>1. BudgetOK' /\ UserTurn /\ work[p].has /\ ~ work[q].has /\ p # q /\ DirOK
  BY Using, BoundNames DEF WorkcopyInv, MoveFile, DirInv
<1> DEFINE w == [work EXCEPT ![p] = Absent, ![q] = work[p]]
           st == [stat EXCEPT ![p] = NoStat, ![q] = stat[p]]
<1>2. Become(w, st)
  BY DEF MoveFile
<1>3. /\ w = [r \in Paths |-> w[r]] /\ w[p] = Absent /\ w[q] = work[p] /\ \A r \in Paths \ {p, q} : w[r] = work[r]
      /\ st = [r \in Paths |-> st[r]] /\ st[p] = NoStat /\ st[q] = stat[p] /\ \A r \in Paths \ {p, q} : st[r] = stat[r]
  BY <1>1 DEF DirOK, IsTree
<1>4. work' = w /\ stat' = st /\ clock' = clock
  BY <1>2 DEF Become
<1> HIDE DEF w, st
<1>5. DirOK'
  <2>1. IsTree(w)
    BY <1>1, <1>3, FilesAreFiles DEF DirOK, IsTree
  <2>2. NoStat \in Stats /\ NoStat.inode = 0 /\ NoStat.mtime = 0
    BY DEF NoStat, Stats
  <2>3. st \in [Paths -> Stats]
    <3>1. \A r \in Paths : st[r] \in Stats
      BY <1>1, <1>3, <2>2 DEF DirOK
    <3> QED
      BY <1>3, <3>1
  <2>4. \A r \in Paths : IF w[r].has THEN st[r].inode \in Inodes /\ st[r].mtime > 0 ELSE st[r] = NoStat
    BY <1>1, <1>3, NoFile DEF DirOK
  <2>5. \A r \in Paths : st[r].mtime <= clock
    BY <1>1, <1>3, <2>2 DEF DirOK
  <2>6. \A r, s \in Paths : st[r].inode = st[s].inode /\ w[r].has => r = s
    <3> SUFFICES ASSUME NEW r \in Paths, NEW s \in Paths, st[r].inode = st[s].inode, w[r].has
                 PROVE  r = s
      OBVIOUS
    <3>1. r # p /\ st[r].inode \in Inodes
      BY <1>3, <2>4, NoFile
    <3>2. s # p
      BY <1>3, <2>2, <3>1 DEF Inodes
    <3> DEFINE Was(x) == IF x = q THEN p ELSE x
    <3>3. stat[Was(r)].inode = stat[Was(s)].inode /\ work[Was(r)].has /\ Was(r) \in Paths /\ Was(s) \in Paths
      BY <1>3, <3>1, <3>2
    <3>4. Was(r) = Was(s)
      BY <1>1, <3>3 DEF DirOK
    <3> QED
      BY <3>1, <3>2, <3>4
  <2> QED
    BY <1>1, <1>4, <2>1, <2>3, <2>4, <2>5, <2>6 DEF DirOK
<1> QED
  BY <1>1, <1>2, <1>5, Edits


\* Laying out a tree: its lines are in the directory, and what else is there is left behind.
LEMMA LaidOut ==
    ASSUME DirInv, NEW tree, IsTree(tree), Checkout(tree), UNCHANGED <<index, clock>>
    PROVE  /\ DirOK' /\ IndexOK' /\ IndexHonest'
           /\ LinesOf(tree) \subseteq LinesOf(work') /\ LinesOf(work') \ LinesOf(tree) \subseteq left'
           /\ typed' = typed /\ removed' = removed /\ raced' = raced /\ left \subseteq left'
<1> DEFINE new == {p \in Paths : tree[p].has /\ ~ work[p].has}
           num == NewInodes(stat, new)
           Lay(p) == File(tree[p].text, IF p \in new THEN tree[p].exec ELSE work[p].exec)
           Num(p) == IF p \in new THEN num[p] ELSE stat[p].inode
           rest == [p \in Paths |-> IF tree[p].has THEN Absent ELSE work[p]]
<1>1. /\ work' = [p \in Paths |-> IF tree[p].has THEN Lay(p) ELSE work[p]]
      /\ stat' = [p \in Paths |-> IF tree[p].has THEN [mtime |-> clock, inode |-> Num(p)] ELSE stat[p]]
      /\ left' = left \cup LinesOf(rest)
      /\ typed' = typed /\ removed' = removed /\ raced' = raced /\ index' = index /\ clock' = clock
  BY DEF Checkout
<1>2. DirOK /\ IndexOK /\ IndexHonest
  BY DEF DirInv
<1>3. /\ num \in [new -> Inodes] /\ (\A p, q \in new : num[p] = num[q] => p = q)
      /\ \A p \in new : \A q \in Paths \ new : num[p] # stat[q].inode
  BY NewInodesFresh
<1> DEFINE i == [p \in Paths |-> Num(p)]
<1>4. \A p \in Paths : /\ i[p] = IF p \in new THEN num[p] ELSE stat[p].inode
                       /\ p \in new <=> tree[p].has /\ ~ work[p].has
  OBVIOUS
<1>5. \A p \in Paths :
        /\ tree[p].has => work'[p].has /\ work'[p].text = tree[p].text /\ IsFile(work'[p])
        /\ tree[p].has => stat'[p] = [mtime |-> clock, inode |-> i[p]]
        /\ ~ tree[p].has => work'[p] = work[p] /\ stat'[p] = stat[p]
  BY <1>1, FilesAreFiles
<1>6. work' = [p \in Paths |-> work'[p]] /\ stat' = [p \in Paths |-> stat'[p]]
  BY <1>1
<1>7. \A p \in Paths : rest[p] = IF tree[p].has THEN Absent ELSE work[p]
  OBVIOUS
<1> HIDE DEF new, num, Num, Lay, rest, i
<1>8. \A p \in Paths : tree[p].has => i[p] \in Inodes
  BY <1>2, <1>3, <1>4 DEF DirOK
<1>9. DirOK'
  <2>1. IsTree(work')
    BY <1>2, <1>5, <1>6 DEF DirOK, IsTree
  <2>2. clock \in Nat \ {0}
    BY <1>2 DEF DirOK
  <2>3. \A p \in Paths : tree[p].has => stat'[p].mtime = clock /\ stat'[p].inode = i[p] /\ stat'[p] \in Stats
    <3> SUFFICES ASSUME NEW p \in Paths, tree[p].has
                 PROVE  stat'[p].mtime = clock /\ stat'[p].inode = i[p] /\ stat'[p] \in Stats
      OBVIOUS
    <3>1. stat'[p] = [mtime |-> clock, inode |-> i[p]]
      BY <1>5
    <3>2. i[p] \in Inodes
      BY <1>8
    <3> QED
      BY <2>2, <3>1, <3>2 DEF Stats
  <2>4. stat' \in [Paths -> Stats]
    <3>1. \A p \in Paths : stat'[p] \in Stats
      BY <1>2, <1>5, <2>3 DEF DirOK
    <3> QED
      BY <1>6, <3>1
  <2>5. ASSUME NEW p \in Paths
        PROVE  /\ IF work'[p].has THEN stat'[p].inode \in Inodes /\ stat'[p].mtime > 0 ELSE stat'[p] = NoStat
               /\ stat'[p].mtime <= clock
    <3>1. CASE tree[p].has
      <4>1. work'[p].has /\ i[p] \in Inodes /\ stat'[p].mtime = clock /\ stat'[p].inode = i[p]
        BY <1>5, <1>8, <2>3, <3>1
      <4> QED
        BY <2>2, <4>1
    <3>2. CASE ~ tree[p].has
      <4>1. work'[p] = work[p] /\ stat'[p] = stat[p]
        BY <1>5, <3>2
      <4> QED
        BY <1>2, <4>1 DEF DirOK
    <3> QED
      BY <3>1, <3>2
  <2>6. ASSUME NEW p \in Paths, NEW q \in Paths, stat'[p].inode = stat'[q].inode, work'[p].has
        PROVE  p = q
    <3>1. \A r \in Paths : stat'[r].inode = IF r \in new THEN num[r] ELSE stat[r].inode
      BY <1>4, <1>5, <2>3
    <3>2. CASE p \in new
      BY <1>3, <2>6, <3>1, <3>2
    <3>3. CASE q \in new /\ p \notin new
      BY <1>3, <2>6, <3>1, <3>3
    <3>4. CASE p \notin new /\ q \notin new
      <4>1. work[p].has
        BY <1>4, <1>5, <2>6, <3>4
      <4> QED
        BY <1>2, <2>6, <3>1, <3>4, <4>1 DEF DirOK
    <3> QED
      BY <3>2, <3>3, <3>4
  <2> QED
    BY <1>1, <2>1, <2>2, <2>4, <2>5, <2>6 DEF DirOK
<1>10. IndexOK'
  BY <1>1, <1>2 DEF IndexOK
<1>11. IndexHonest'
  <2> SUFFICES ASSUME NEW p \in Paths, p \notin raced, stat'[p].mtime < index.written
               PROVE  ~ Mistaken(index.entry[p], work'[p], stat'[p])
    BY <1>1 DEF IndexHonest
  <2>1. ~ tree[p].has
    <3>1. ASSUME tree[p].has
          PROVE  stat'[p].mtime = clock
      <4>1. stat'[p] = [mtime |-> clock, inode |-> i[p]]
        BY <1>5, <3>1
      <4> QED
        BY <4>1
    <3>2. index.written \in 0..clock /\ clock \in Nat
      BY <1>2 DEF IndexOK, DirOK
    <3> QED
      BY <3>1, <3>2
  <2> QED
    BY <1>2, <1>5, <2>1 DEF IndexHonest
<1>12. LinesOf(tree) \subseteq LinesOf(work')
  <2> SUFFICES ASSUME NEW l \in LinesOf(tree) PROVE l \in LinesOf(work')
    OBVIOUS
  <2>1. PICK p \in Paths : \E k \in DOMAIN tree[p].text : l = <<p, tree[p].text[k]>>
    BY Line
  <2>2. tree[p].has
    BY <2>1, NoFile, FileOrAbsent DEF IsTree
  <2>3. work'[p].text = tree[p].text
    BY <1>5, <2>2
  <2> QED
    BY <2>1, <2>3, Line
<1>13. LinesOf(work') \ LinesOf(tree) \subseteq left'
  <2> SUFFICES ASSUME NEW l \in LinesOf(work'), l \notin LinesOf(tree) PROVE l \in LinesOf(rest)
    BY <1>1
  <2>1. PICK p \in Paths : \E k \in DOMAIN work'[p].text : l = <<p, work'[p].text[k]>>
    BY Line
  <2>2. ~ tree[p].has
    BY <1>5, <2>1, Line
  <2>3. rest[p].text = work'[p].text
    BY <1>5, <1>7, <2>2
  <2> QED
    BY <2>1, <2>3, Line
<1> QED
  BY <1>1, <1>9, <1>10, <1>11, <1>12, <1>13

\* checkout: the directory is made from that change.
LEMMA CheckoutVerbStep == ASSUME NEW c \in {main, peer} PROVE WorkcopyInv /\ CheckoutVerb(c) => WorkcopyInv'
<1> SUFFICES ASSUME WorkcopyInv, CheckoutVerb(c) PROVE WorkcopyInv'
  OBVIOUS
<1>1. BudgetOK'
  BY Using, BoundNames DEF WorkcopyInv, CheckoutVerb
<1>2. /\ DirInv /\ c \in Ids /\ IsTree(changes[c].tree) /\ Checkout(changes[c].tree)
      /\ based' = c /\ changes' = changes /\ main' = main /\ peer' = peer /\ UNCHANGED <<index, clock>>
      /\ verb' = verb /\ verb.pc = "idle"
  BY DEF WorkcopyInv, DirInv, RefsOK, CheckoutVerb, repo, At
<1>3. /\ DirOK' /\ IndexOK' /\ IndexHonest'
      /\ LinesOf(changes[c].tree) \subseteq LinesOf(work') /\ LinesOf(work') \ LinesOf(changes[c].tree) \subseteq left'
      /\ typed' = typed /\ removed' = removed /\ left \subseteq left'
  BY <1>2, LaidOut
<1>4. RefsOK'
  BY <1>2 DEF DirInv, RefsOK, Ids
<1>5. BasedHonest'
  BY <1>2, <1>3 DEF BasedHonest, Lines
<1>6. OwnEdits'
  BY <1>2, <1>3 DEF DirInv, OwnEdits, Deletes, Inserts, Inherited, Lines
<1>7. VerbOK'
  BY <1>2 DEF WorkcopyInv, VerbInv, VerbOK, Ids
<1>8. VerbInv'
  BY <1>2, <1>7 DEF VerbInv, Committing, Merging, Scanning, Reading, Selecting, ProposesTheDirectory, At
<1> QED
  BY <1>1, <1>3, <1>4, <1>5, <1>6, <1>8 DEF WorkcopyInv, DirInv

\* merge writes the directory, which until the swap is a mixture.
LEMMA MergeWriteStep == WorkcopyInv /\ MergeWrite => WorkcopyInv'
<1> SUFFICES ASSUME WorkcopyInv, MergeWrite PROVE WorkcopyInv'
  OBVIOUS
<1> DEFINE m == MergeOf(changes, verb.ours, verb.theirs)
<1>1. BudgetOK'
  BY NotUsing DEF WorkcopyInv, MergeWrite
<1>2. /\ DirInv /\ VerbOK /\ verb.pc = "merge" /\ verb.ours \in Ids /\ verb.theirs \in Ids
      /\ Checkout(m.tree)
      /\ based' = 0 /\ changes' = changes /\ main' = main /\ peer' = peer /\ UNCHANGED <<index, clock>>
      /\ verb' = IF m.conflict THEN NoVerb ELSE [verb EXCEPT !.pc = "mergeSwap", !.tree = m.tree]
  BY DEF WorkcopyInv, VerbInv, VerbOK, MergeWrite, repo, At
<1>3. IsTree(m.tree)
  BY <1>2, MergedTree DEF MergeOf, DirInv, RefsOK
<1> HIDE DEF m
<1>4. /\ DirOK' /\ IndexOK' /\ IndexHonest'
      /\ LinesOf(m.tree) \subseteq LinesOf(work') /\ LinesOf(work') \ LinesOf(m.tree) \subseteq left'
      /\ typed' = typed /\ removed' = removed /\ left \subseteq left'
  BY <1>2, <1>3, LaidOut
<1>5. RefsOK'
  BY <1>2 DEF DirInv, RefsOK, Ids
<1>6. BasedHonest'
  BY <1>2 DEF BasedHonest
<1>7. OwnEdits'
  BY <1>2, <1>4 DEF DirInv, OwnEdits, Deletes, Inserts, Inherited, Lines
<1>8. CASE m.conflict
  <2>1. Return
    BY <1>2, <1>8 DEF Return
  <2> QED
    BY <1>1, <1>4, <1>5, <1>6, <1>7, <2>1, Returned DEF WorkcopyInv, DirInv
<1>9. CASE ~ m.conflict
  <2>1. verb' = [verb EXCEPT !.pc = "mergeSwap", !.tree = m.tree]
    BY <1>2, <1>9
  <2>2. /\ verb'.pc = "mergeSwap" /\ verb'.tree = m.tree /\ verb'.idx = verb.idx
        /\ verb'.todo = verb.todo /\ verb'.ours = verb.ours
    BY <1>2, <2>1 DEF VerbOK
  <2>3. VerbOK'
    BY <1>2, <1>3, <2>1, <2>2 DEF VerbOK, Ids, IsTree
  <2>4. VerbInv'
    BY <1>3, <1>4, <2>2, <2>3 DEF VerbInv, Committing, Merging, Scanning, Reading, Selecting, ProposesTheDirectory, At
  <2> QED
    BY <1>1, <1>4, <1>5, <1>6, <1>7, <2>4 DEF WorkcopyInv, DirInv
<1> QED
  BY <1>8, <1>9

-----------------------------------------------------------------------------
\* One change more.
LEMMA Grown ==
    ASSUME RefsOK, NEW c, changes' = Append(changes, c), IsTree(c.tree)
    PROVE  /\ changes' \in Seq(Range(changes')) /\ Len(changes') = Len(changes) + 1 /\ Len(changes) \in Nat
           /\ Ids = 1..Len(changes) /\ Ids' = 1..(Len(changes) + 1) /\ Len(changes') \in Ids'
           /\ \A i \in Ids : changes'[i] = changes[i] /\ Lines(i)' = Lines(i)
           /\ changes'[Len(changes')] = c
           /\ \A i \in Ids' : IsTree(changes'[i].tree)
<1>1. /\ changes' \in Seq(Range(changes')) /\ Len(changes') = Len(changes) + 1 /\ Len(changes) \in Nat
      /\ DOMAIN changes' = 1..(Len(changes) + 1) /\ DOMAIN changes = 1..Len(changes)
      /\ \A i \in DOMAIN changes : changes'[i] = changes[i]
      /\ changes'[Len(changes) + 1] = c
  BY Appending DEF RefsOK
<1>2. \A i \in Ids' : IsTree(changes'[i].tree)
  <2> SUFFICES ASSUME NEW i \in 1..(Len(changes) + 1) PROVE IsTree(changes'[i].tree)
    BY <1>1 DEF Ids
  <2>1. CASE i = Len(changes) + 1
    BY <1>1, <2>1
  <2>2. CASE i \in DOMAIN changes
    BY <1>1, <2>2 DEF RefsOK, Ids
  <2> QED
    BY <1>1, <2>1, <2>2
<1> QED
  BY <1>1, <1>2 DEF Ids, Lines

\* The commit is on top of the change its author started from, or makes no claim.
LEMMA CommitSwapStep == WorkcopyInv /\ CommitSwap => WorkcopyInv'
<1> SUFFICES ASSUME WorkcopyInv, CommitSwap PROVE WorkcopyInv'
  OBVIOUS
<1>1. BudgetOK' /\ VerbInv'
  BY NotUsing, Returned DEF WorkcopyInv, CommitSwap
<1>2. /\ DirInv /\ VerbOK /\ verb.tree = work /\ verb.on = based
      /\ peer' = peer /\ work' = work /\ stat' = stat /\ index' = index /\ clock' = clock
      /\ typed' = typed /\ removed' = removed /\ left' = left /\ raced' = raced
  BY DEF WorkcopyInv, VerbInv, Committing, CommitSwap, At, dir
<1>3. DirOK' /\ IndexOK' /\ IndexHonest'
  BY <1>2 DEF DirInv, DirOK, IndexOK, IndexHonest
<1>4. CASE main # verb.ours
  <2>1. changes' = changes /\ main' = main /\ based' = based
    BY <1>4 DEF CommitSwap
  <2>2. RefsOK' /\ BasedHonest' /\ OwnEdits'
    BY <1>2, <2>1 DEF DirInv, RefsOK, Ids, BasedHonest, OwnEdits, Deletes, Inserts, Inherited, Lines
  <2> QED
    BY <1>1, <1>3, <2>2 DEF WorkcopyInv, DirInv
<1>5. CASE main = verb.ours
  <2> DEFINE c == [tree |-> verb.tree, parents |-> {main}, by |-> "commit", on |-> verb.on]
  <2>1. changes' = Append(changes, c) /\ main' = Len(changes') /\ based' = Len(changes')
    BY <1>5 DEF CommitSwap
  <2>2. c.tree = work /\ c.parents = {main} /\ c.by = "commit" /\ c.on = based
    BY <1>2
  <2> HIDE DEF c
  <2>3. RefsOK /\ IsTree(c.tree)
    BY <1>2, <2>2 DEF DirInv, DirOK
  <2>4. /\ changes' \in Seq(Range(changes')) /\ Len(changes') = Len(changes) + 1 /\ Len(changes) \in Nat
        /\ Ids = 1..Len(changes) /\ Ids' = 1..(Len(changes) + 1) /\ Len(changes') \in Ids'
        /\ \A i \in Ids : changes'[i] = changes[i] /\ Lines(i)' = Lines(i)
        /\ changes'[Len(changes')] = c
        /\ \A i \in Ids' : IsTree(changes'[i].tree)
    BY <2>1, <2>3, Grown
  <2>5. RefsOK'
    BY <1>2, <2>1, <2>3, <2>4 DEF RefsOK
  <2>6. LinesOf(changes'[Len(changes')].tree) = LinesOf(work)
    BY <2>2, <2>4
  <2>7. BasedHonest'
    BY <1>2, <2>1, <2>6 DEF BasedHonest, Lines
  <2>8. OwnEdits'
    <3> SUFFICES ASSUME main = based
                 PROVE  /\ Lines(main) \ LinesOf(work) \subseteq removed
                        /\ LinesOf(work) \ Lines(main) \subseteq typed \cup left
      <4>1. Inherited(Len(changes))' = UNION {Lines(p)' : p \in {main}}
        BY <2>2, <2>4 DEF Inherited
      <4>2. main \in Ids
        BY <2>3 DEF RefsOK
      <4>3. Inherited(Len(changes))' = Lines(main)
        BY <2>4, <4>1, <4>2
      <4>4. Lines(Len(changes))' = LinesOf(work)
        BY <2>6 DEF Lines
      <4> QED
        BY <1>2, <2>2, <2>4, <4>3, <4>4 DEF OwnEdits, Deletes, Inserts
    <3>1. based # 0
      BY <2>3, <2>4 DEF RefsOK
    <3> QED
      BY <1>2, <3>1 DEF DirInv, BasedHonest
  <2> QED
    BY <1>1, <1>3, <2>5, <2>7, <2>8 DEF WorkcopyInv, DirInv
<1> QED
  BY <1>4, <1>5

\* The merge becomes the change the directory was made from, or loses the swap.
LEMMA MergeSwapStep == WorkcopyInv /\ MergeSwap => WorkcopyInv'
<1> SUFFICES ASSUME WorkcopyInv, MergeSwap PROVE WorkcopyInv'
  OBVIOUS
<1>1. BudgetOK' /\ VerbInv'
  BY NotUsing, Returned DEF WorkcopyInv, MergeSwap
<1>2. /\ DirInv /\ IsTree(verb.tree) /\ LinesOf(verb.tree) \subseteq LinesOf(work)
      /\ LinesOf(work) \ LinesOf(verb.tree) \subseteq left
      /\ peer' = peer /\ work' = work /\ stat' = stat /\ index' = index /\ clock' = clock
      /\ typed' = typed /\ removed' = removed /\ left' = left /\ raced' = raced
  BY DEF WorkcopyInv, VerbInv, Merging, MergeSwap, At, dir
<1>3. DirOK' /\ IndexOK' /\ IndexHonest'
  BY <1>2 DEF DirInv, DirOK, IndexOK, IndexHonest
<1>4. CASE main # verb.ours
  <2>1. changes' = changes /\ main' = main /\ based' = based
    BY <1>4 DEF MergeSwap
  <2>2. RefsOK' /\ BasedHonest' /\ OwnEdits'
    BY <1>2, <2>1 DEF DirInv, RefsOK, Ids, BasedHonest, OwnEdits, Deletes, Inserts, Inherited, Lines
  <2> QED
    BY <1>1, <1>3, <2>2 DEF WorkcopyInv, DirInv
<1>5. CASE main = verb.ours
  <2> DEFINE c == [tree |-> verb.tree, parents |-> {verb.ours, verb.theirs}, by |-> "merge", on |-> 0]
  <2>1. changes' = Append(changes, c) /\ main' = Len(changes') /\ based' = Len(changes')
    BY <1>5 DEF MergeSwap
  <2>2. c.tree = verb.tree /\ c.by = "merge"
    OBVIOUS
  <2> HIDE DEF c
  <2>3. RefsOK /\ IsTree(c.tree)
    BY <1>2, <2>2 DEF DirInv
  <2>4. /\ changes' \in Seq(Range(changes')) /\ Len(changes') = Len(changes) + 1 /\ Len(changes) \in Nat
        /\ Ids = 1..Len(changes) /\ Ids' = 1..(Len(changes) + 1) /\ Len(changes') \in Ids'
        /\ changes'[Len(changes')] = c
        /\ \A i \in Ids' : IsTree(changes'[i].tree)
    BY <2>1, <2>3, Grown
  <2>5. RefsOK'
    BY <1>2, <2>1, <2>3, <2>4 DEF RefsOK
  <2>6. BasedHonest'
    BY <1>2, <2>1, <2>2, <2>4 DEF BasedHonest, Lines
  <2>7. OwnEdits'
    BY <2>2, <2>4 DEF OwnEdits
  <2> QED
    BY <1>1, <1>3, <2>5, <2>6, <2>7 DEF WorkcopyInv, DirInv
<1> QED
  BY <1>4, <1>5

\* The peer makes a change: our directory does not notice.
LEMMA PeerChange ==
    ASSUME WorkcopyInv, NEW c, changes' = Append(changes, c), IsTree(c.tree), c.by # "commit", peer' = Len(changes'),
           UNCHANGED <<main, dir, index, clock, verb, history>>, verb.pc \in {"idle", "merge"}, BudgetOK'
    PROVE  WorkcopyInv'
<1>1. /\ RefsOK /\ DirInv /\ VerbOK
      /\ main' = main /\ work' = work /\ stat' = stat /\ index' = index /\ clock' = clock /\ verb' = verb
      /\ typed' = typed /\ removed' = removed /\ left' = left /\ raced' = raced /\ based' = based
  BY DEF WorkcopyInv, DirInv, VerbInv, dir, history
<1>2. /\ changes' \in Seq(Range(changes')) /\ Len(changes') = Len(changes) + 1 /\ Len(changes) \in Nat
      /\ Ids = 1..Len(changes) /\ Ids' = 1..(Len(changes) + 1) /\ Len(changes') \in Ids'
      /\ \A i \in Ids : changes'[i] = changes[i] /\ Lines(i)' = Lines(i)
      /\ changes'[Len(changes')] = c
      /\ \A i \in Ids' : IsTree(changes'[i].tree)
  BY <1>1, Grown
<1>3. RefsOK'
  BY <1>1, <1>2 DEF RefsOK
<1>4. DirOK' /\ IndexOK' /\ IndexHonest'
  BY <1>1 DEF DirInv, DirOK, IndexOK, IndexHonest
<1>5. BasedHonest'
  <2>1. based # 0 => Lines(based)' = Lines(based)
    BY <1>1, <1>2 DEF RefsOK
  <2>2. Lines(based)' = LinesOf(changes'[based].tree)
    BY <1>1 DEF Lines
  <2> QED
    BY <1>1, <2>1, <2>2 DEF DirInv, BasedHonest, Lines
<1>6. OwnEdits'
  BY <1>2 DEF OwnEdits
<1>7. VerbOK'
  BY <1>1, <1>2 DEF VerbOK
<1>8. VerbInv'
  BY <1>1, <1>7 DEF VerbInv, Committing, Merging, Scanning, Reading, Selecting, ProposesTheDirectory, At
<1> QED
  BY <1>3, <1>4, <1>5, <1>6, <1>8 DEF WorkcopyInv, DirInv

\* The peer commits.
LEMMA PeerCommitStep == ASSUME NEW p \in Paths PROVE WorkcopyInv /\ PeerCommit(p) => WorkcopyInv'
<1> SUFFICES ASSUME WorkcopyInv, PeerCommit(p) PROVE WorkcopyInv'
  OBVIOUS
<1>1. BudgetOK' /\ verb.pc = "idle"
  BY Using, BoundNames DEF WorkcopyInv, PeerCommit, At
<1>2. IsTree(changes[peer].tree)
  BY DEF WorkcopyInv, DirInv, RefsOK
<1>3. PICK f \in Edited(changes[peer].tree[p], PeerLine) :
        changes' = Append(changes, [tree |-> [changes[peer].tree EXCEPT ![p] = f], parents |-> {peer},
                                    by |-> "peer", on |-> peer])
  BY DEF PeerCommit
<1> DEFINE tree == [changes[peer].tree EXCEPT ![p] = f]
           c == [tree |-> tree, parents |-> {peer}, by |-> "peer", on |-> peer]
<1>4. IsTree(tree)
  <2>1. IsFile(f)
    BY FilesAreFiles DEF Edited, Inserted, Shortened
  <2> QED
    BY <1>2, <2>1 DEF IsTree
<1>5. c.tree = tree /\ c.by = "peer" /\ changes' = Append(changes, c)
  BY <1>3
<1>6. peer' = Len(changes') /\ UNCHANGED <<main, dir, index, clock, verb, history>>
  BY DEF PeerCommit
<1> HIDE DEF c, tree
<1> QED
  BY <1>1, <1>4, <1>5, <1>6, PeerChange

\* The peer merges.
LEMMA PeerMergeStep == WorkcopyInv /\ PeerMerge => WorkcopyInv'
<1> SUFFICES ASSUME WorkcopyInv, PeerMerge PROVE WorkcopyInv'
  OBVIOUS
<1>1. BudgetOK' /\ verb.pc \in {"idle", "merge"}
  BY Using, BoundNames DEF WorkcopyInv, PeerMerge, At
<1> DEFINE m == MergeOf(changes, peer, main)
           c == [tree |-> m.tree, parents |-> {peer, main}, by |-> "merge", on |-> 0]
<1>2. IsTree(m.tree)
  BY MergedTree DEF MergeOf, WorkcopyInv, DirInv, RefsOK
<1>3. c.tree = m.tree /\ c.by = "merge" /\ changes' = Append(changes, c)
  BY DEF PeerMerge
<1>4. peer' = Len(changes') /\ UNCHANGED <<main, dir, index, clock, verb, history>>
  BY DEF PeerMerge
<1> HIDE DEF c, m
<1> QED
  BY <1>1, <1>2, <1>3, <1>4, PeerChange

\* Another verb moves the branch under the directory.
LEMMA MovedElsewhereStep == WorkcopyInv /\ MovedElsewhere => WorkcopyInv'
<1> SUFFICES ASSUME WorkcopyInv, MovedElsewhere PROVE WorkcopyInv'
  OBVIOUS
<1> USE DEF dir, history, Ids
<1>1. BudgetOK'
  BY Using, BoundNames DEF WorkcopyInv, MovedElsewhere
<1>2. RefsOK' /\ DirOK' /\ IndexOK'
  BY DEF WorkcopyInv, DirInv, RefsOK, DirOK, IndexOK, MovedElsewhere
<1>3. IndexHonest' /\ BasedHonest'
  BY DEF WorkcopyInv, DirInv, IndexHonest, BasedHonest, Lines, MovedElsewhere
<1>4. OwnEdits'
  BY DEF WorkcopyInv, DirInv, OwnEdits, Deletes, Inserts, Inherited, Lines, MovedElsewhere
<1>5. VerbInv'
  BY DEF WorkcopyInv, VerbInv, VerbOK, Committing, Merging, Scanning, Scanned, Reading,
         Selecting, ProposesTheDirectory, At, MovedElsewhere
<1> QED
  BY <1>1, <1>2, <1>3, <1>4, <1>5 DEF WorkcopyInv, DirInv

\* A repository that has just been cloned.
LEMMA InitHonest == WorkcopyInit => WorkcopyInv
<1> SUFFICES ASSUME WorkcopyInit PROVE WorkcopyInv
  OBVIOUS
<1> DEFINE there == {p \in Paths : Root[p].has}
           num == NewInodes([p \in Paths |-> NoStat], there)
<1>1. /\ changes = <<[tree |-> Root, parents |-> {}, by |-> "root", on |-> 0]>>
      /\ main = 1 /\ peer = 1 /\ work = Root /\ clock = 1 /\ verb = NoVerb /\ based = 1
      /\ stat = [p \in Paths |-> IF p \in there THEN [mtime |-> 1, inode |-> num[p]] ELSE NoStat]
      /\ index = [written |-> 0, entry |-> NoEntries]
      /\ used = [b \in DOMAIN Bounds |-> 0] /\ spent = 0
  BY DEF WorkcopyInit
<1>2. IsTree(Root)
  BY WorkcopyAssumption DEF IsTree, IsFile
<1>3. num \in [there -> Inodes] /\ \A p, q \in there : num[p] = num[q] => p = q
  <2>1. there \in SUBSET Paths
    OBVIOUS
  <2> QED
    BY <2>1, NewInodesFresh
<1> HIDE DEF num
<1>4. /\ DOMAIN changes = {1} /\ Len(changes) = 1 /\ changes[1].tree = Root /\ changes[1].by = "root"
      /\ changes \in Seq(Range(changes))
  <2> DEFINE c == [tree |-> Root, parents |-> {}, by |-> "root", on |-> 0]
  <2>1. c.tree = Root /\ c.by = "root" /\ changes = <<c>>
    BY <1>1
  <2> HIDE DEF c
  <2>2. DOMAIN changes = {1} /\ Len(changes) = 1 /\ changes[1] = c /\ changes \in Seq({c})
    BY <2>1
  <2>3. Range(changes) = {c}
    BY <2>2 DEF Range
  <2> QED
    BY <2>1, <2>2, <2>3
<1>5. RefsOK
  BY <1>1, <1>2, <1>4 DEF RefsOK, Ids
<1>6. \A p \in Paths : IF p \in there THEN stat[p].mtime = 1 /\ stat[p].inode = num[p] /\ stat[p] \in Stats
                       ELSE stat[p] = NoStat /\ NoStat \in Stats /\ NoStat.inode = 0 /\ NoStat.mtime = 0
  <2> SUFFICES ASSUME NEW p \in Paths
               PROVE  IF p \in there THEN stat[p].mtime = 1 /\ stat[p].inode = num[p] /\ stat[p] \in Stats
                      ELSE stat[p] = NoStat /\ NoStat \in Stats /\ NoStat.inode = 0 /\ NoStat.mtime = 0
    OBVIOUS
  <2>1. CASE p \in there
    <3>1. stat[p] = [mtime |-> 1, inode |-> num[p]] /\ num[p] \in Inodes
      BY <1>1, <1>3, <2>1
    <3> QED
      BY <2>1, <3>1 DEF Stats
  <2>2. CASE p \notin there
    BY <1>1, <2>2 DEF NoStat, Stats
  <2> QED
    BY <2>1, <2>2
<1>7. DirOK
  <2>1. stat \in [Paths -> Stats]
    BY <1>1, <1>6
  <2>2. \A p \in Paths : work[p].has <=> p \in there
    BY <1>1, <1>2, FileOrAbsent DEF IsTree
  <2>3. ASSUME NEW p \in Paths
        PROVE  /\ IF work[p].has THEN stat[p].inode \in Inodes /\ stat[p].mtime > 0 ELSE stat[p] = NoStat
               /\ stat[p].mtime <= clock
    <3>1. CASE p \in there
      <4>1. work[p].has /\ stat[p].mtime = 1 /\ stat[p].inode = num[p] /\ num[p] \in Inodes
        BY <1>3, <1>6, <2>2, <3>1
      <4> QED
        BY <1>1, <4>1
    <3>2. CASE p \notin there
      <4>1. ~ work[p].has /\ stat[p] = NoStat /\ NoStat.mtime = 0
        BY <1>6, <2>2, <3>2
      <4> QED
        BY <1>1, <4>1
    <3> QED
      BY <3>1, <3>2
  <2>4. ASSUME NEW p \in Paths, NEW q \in Paths, stat[p].inode = stat[q].inode, work[p].has
        PROVE  p = q
    <3>1. p \in there /\ stat[p].inode \in Inodes /\ stat[p].inode = num[p]
      BY <1>3, <1>6, <2>2, <2>4
    <3>2. q \in there
      <4>1. q \notin there => stat[q].inode = 0
        BY <1>6
      <4>2. 0 \notin Inodes
        BY DEF Inodes
      <4> QED
        BY <2>4, <3>1, <4>1, <4>2
    <3> QED
      BY <1>3, <1>6, <2>4, <3>1, <3>2
  <2>5. IsTree(work) /\ clock \in Nat \ {0}
    BY <1>1, <1>2
  <2> QED
    BY <2>1, <2>3, <2>4, <2>5 DEF DirOK
<1>8. IndexOK /\ IndexHonest
  <2>1. \A p \in Paths : NoEntries[p] = NoEntry /\ NoEntry.file = Absent
    BY DEF NoEntries, NoEntry
  <2>2. index.written = 0 /\ index.entry = NoEntries /\ NoEntries = [p \in Paths |-> NoEntries[p]]
    BY <1>1 DEF NoEntries
  <2>3. IndexOK
    BY <1>1, <2>1, <2>2, FilesAreFiles, NoFile DEF IndexOK
  <2>4. IndexHonest
    BY <1>7, <2>2 DEF IndexHonest, DirOK, Stats
  <2> QED
    BY <2>3, <2>4
<1>9. BasedHonest /\ OwnEdits
  BY <1>1, <1>4 DEF BasedHonest, OwnEdits, Lines
<1>10. BudgetOK
  BY <1>1, WorkcopyAssumption DEF BudgetOK
<1>11. VerbInv
  <2>1. verb.pc = "idle"
    BY <1>1, NoVerbShape
  <2>2. VerbOK
    BY <1>1, NoVerbShape DEF VerbOK, NoVerb
  <2> QED
    BY <2>1, <2>2 DEF VerbInv, Committing, Merging, Scanning, Reading, Selecting, ProposesTheDirectory, At
<1> QED
  BY <1>5, <1>7, <1>8, <1>9, <1>10, <1>11 DEF WorkcopyInv, DirInv

\* Every step keeps the invariant.
LEMMA WorkcopyStep == WorkcopyInv /\ [WorkcopyNext]_workcopyVars => WorkcopyInv'
<1> SUFFICES ASSUME WorkcopyInv, [WorkcopyNext]_workcopyVars PROVE WorkcopyInv'
  OBVIOUS
<1>1. ASSUME NEW p \in Paths, EditFile(p) \/ ChangeMode(p) \/ PeerCommit(p) \/ ScanStat(p) \/ ScanRead(p)
      PROVE  WorkcopyInv'
  BY <1>1, EditFileStep, ChangeModeStep, PeerCommitStep, ScanStatStep, ScanReadStep
<1>2. ASSUME NEW p \in Paths, NEW q \in Paths, MoveFile(p, q)
      PROVE  WorkcopyInv'
  BY <1>2, MoveFileStep
<1>3. ASSUME NEW c \in {main, peer}, CheckoutVerb(c)
      PROVE  WorkcopyInv'
  BY <1>3, CheckoutVerbStep
<1>4. ASSUME NEW only \in Selections, NEW scope \in Scopes, SelectEdits(only, scope)
      PROVE  WorkcopyInv'
  BY <1>4, SelectEditsStep
<1>5. CASE SecondPasses \/ ProposeBase \/ CommitTree \/ CommitHead \/ CommitSwap
  BY <1>5, SecondPassesStep, ProposeBaseStep, CommitTreeStep, CommitHeadStep, CommitSwapStep
<1>6. CASE MergeHeads \/ MergeWrite \/ MergeSwap \/ PeerMerge \/ MovedElsewhere
  BY <1>6, MergeHeadsStep, MergeWriteStep, MergeSwapStep, PeerMergeStep, MovedElsewhereStep
<1>7. CASE SaveIndex \/ Propose
  BY <1>7, SaveIndexStep, ProposeStep
<1>8. CASE UNCHANGED workcopyVars
  <2>1. UNCHANGED <<repo, dir, index, clock, verb, budget, history>>
    BY <1>8 DEF workcopyVars
  <2>2. DirInv' /\ BudgetOK'
    BY <2>1, NothingWritten, NotUsing DEF WorkcopyInv
  <2>3. VerbInv'
    BY <2>1 DEF WorkcopyInv, VerbInv, VerbOK, Committing, Merging, Scanning, Scanned, Reading, Selecting,
                ProposesTheDirectory, At, Ids, repo, dir, history
  <2> QED
    BY <2>2, <2>3 DEF WorkcopyInv
<1> QED
  BY <1>1, <1>2, <1>3, <1>4, <1>5, <1>6, <1>7, <1>8 DEF WorkcopyNext

\* The verbs commit, merge, checkout and propose and the user beside them keep the invariant.
THEOREM WorkcopyInvariant == WorkcopySpec => []WorkcopyInv
<1>1. WorkcopyInit => WorkcopyInv
  BY InitHonest
<1>2. WorkcopyInv /\ [WorkcopyNext]_workcopyVars => WorkcopyInv'
  BY WorkcopyStep
<1> QED
  BY <1>1, <1>2, PTL DEF WorkcopySpec

\* A commit holds its author's edits and nothing else (cmdCommit, cmdMerge, cmdCheckout): for any
\* tree, any number of merges and checkouts before it, and any interleaving of edits with them.
THEOREM CommitsAreOwn == WorkcopySpec => []OwnEditsOnly
<1>1. WorkcopyInv => OwnEditsOnly
  BY Declared DEF WorkcopyInv, DirInv, OwnEdits, OwnEditsOnly
<1> QED
  BY <1>1, WorkcopyInvariant, PTL

\* A proposal is what is in the directory (Scan, Index, Compare, SelectEdits, Overlay), whatever
\* the index remembers and whatever the clock shows.
THEOREM ProposalsAreFaithful == WorkcopySpec => []ProposesTheDirectory
<1>1. WorkcopyInv => ProposesTheDirectory
  BY DEF WorkcopyInv, VerbInv
<1> QED
  BY <1>1, WorkcopyInvariant, PTL
=============================================================================
