----------------------- MODULE InferenceWorkerProofs -----------------------
(***************************************************************************)
(* Theorems about InferenceWorker, for every number of callers, closers    *)
(* and requests.  That requests exclude each other holds whatever is shut  *)
(* down; the rest holds as long as every shutdown got the lock.            *)
(***************************************************************************)
EXTENDS InferenceWorker, SequenceTheorems, TLAPS

\* A function updated within its range keeps its type.
LEMMA UpdateType ==
  ASSUME NEW S, NEW T, NEW f \in [S -> T], NEW x, NEW v \in T
  PROVE  [f EXCEPT ![x] = v] \in [S -> T]
  OBVIOUS

\* A caller past the acquire holds the lock, until it leaves run.
LockInv ==
  \A t \in Callers : pc[t] \notin {"idle", "lock"} => lock = t

\* Types: what every step keeps, whatever happens.
THEOREM TypeCorrect == Spec => []TypeOK
<1>1. Init => TypeOK
  BY WorkerAssumption DEF Init, TypeOK, Child, Threads
<1>2. TypeOK /\ [Next]_vars => TypeOK'
  <2> SUFFICES ASSUME TypeOK, [Next]_vars PROVE TypeOK'
    OBVIOUS
  <2> USE WorkerAssumption DEF TypeOK, Child, Threads, Go, Leave, Stop
  <2>1. ASSUME NEW t \in Callers, Ask(t) PROVE TypeOK'
    BY <2>1 DEF Ask, procs, wire
  <2>2. ASSUME NEW t \in Callers, Expire(t) PROVE TypeOK'
    BY <2>2 DEF Expire, procs, wire, calls
  <2>3. ASSUME NEW t \in Callers, CallerStep(t) PROVE TypeOK'
    <3>1. CASE Acquire(t)
      BY <3>1 DEF Acquire, procs, wire, calls
    <3>2. CASE LockTimeout(t)
      BY <3>2 DEF LockTimeout, procs, wire, calls
    <3>3. CASE StartTooLate(t)
      BY <3>3 DEF StartTooLate, procs, wire, calls
    <3>4. CASE EnsureStarted(t)
      BY <3>4 DEF EnsureStarted, procs, wire, calls
    <3>5. CASE Reuse(t)
      BY <3>5 DEF Reuse, procs, wire, calls
    <3>6. CASE Respawn(t)
      BY <3>6 DEF Respawn, procs, wire, calls
    <3>7. CASE ProbeClosed(t)
      BY <3>7 DEF ProbeClosed, procs, wire, calls
    <3>8. CASE Spawn(t)
      BY <3>8 DEF Spawn, wire, calls
    <3>9. CASE SpawnFails(t)
      BY <3>9 DEF SpawnFails, procs, wire, calls
    <3>10. CASE Send(t)
      <4>1. gen[t] \in Child
        BY <3>10 DEF Send, Lives
      <4>2. Append(inbox[gen[t]], nextId) \in Seq(Nat)
        BY <4>1
      <4>3. inbox' \in [Child -> Seq(Nat)]
        BY <3>10, <4>1, <4>2, UpdateType, Zenon DEF Send
      <4>4. id' \in [Threads -> Nat] /\ nextId' \in Nat
        BY <3>10 DEF Send
      <4>5. pc[t] = "send" /\ pc' = [pc EXCEPT ![t] = "await"]
        BY <3>10 DEF Send
      <4> HIDE DEF Go, Leave, Stop, Child, Threads
      <4> QED
        BY <3>10, <4>3, <4>4, <4>5 DEF Send, procs
    <3>11. CASE SendFails(t)
      <4>1. id' \in [Threads -> Nat] /\ nextId' \in Nat
        BY <3>11 DEF SendFails
      <4> HIDE DEF Child, Threads
      <4> QED
        BY <3>11, <4>1 DEF SendFails, procs, wire
    <3>12. CASE AwaitTimeout(t)
      BY <3>12 DEF AwaitTimeout, procs, wire, calls
    <3>13. CASE Receive(t)
      <4> DEFINE Reply == [id : Nat, status : {"ok", "error"}]
      <4>1. gen[t] \in Child /\ outbox[gen[t]] \in Seq(Reply)
        BY <3>13 DEF Receive, Usable
      <4>2. Head(outbox[gen[t]]) \in Reply /\ Tail(outbox[gen[t]]) \in Seq(Reply)
        <5> HIDE DEF Reply
        <5>1. outbox[gen[t]] # <<>>
          BY <3>13 DEF Receive
        <5> QED
          BY <4>1, <5>1, HeadTailProperties
      <4>3. outbox' \in [Child -> Seq(Reply)]
        BY <3>13, <4>1, <4>2, UpdateType, Zenon DEF Receive
      <4>4. Head(outbox[gen[t]]).status \in {"ok", "error"}
        BY <4>2
      <4>5. pc' = pc \/ pc' = [pc EXCEPT ![t] = "idle"]
        BY <3>13 DEF Receive
      <4>6. outcome' \in [Threads -> {"none", "ok", "error", "timeout", "crashed",
                                      "unstarted", "closed", "raw"}]
        BY <3>13, <4>4 DEF Receive
      <4>7. lock' \in Threads \cup {None}
        BY <3>13 DEF Receive
      <4> HIDE DEF Go, Leave, Stop, Child, Threads
      <4> QED
        BY <3>13, <4>3, <4>5, <4>6, <4>7 DEF Receive, procs, calls
    <3>14. CASE AwaitCrash(t)
      BY <3>14 DEF AwaitCrash, procs, wire, calls
    <3>15. CASE AwaitClosed(t)
      BY <3>15 DEF AwaitClosed, procs, wire, calls
    <3> QED
      BY <2>3, <3>1, <3>2, <3>3, <3>4, <3>5, <3>6, <3>7, <3>8, <3>9, <3>10,
         <3>11, <3>12, <3>13, <3>14, <3>15 DEF CallerStep
  <2>4. ASSUME NEW t \in Closers, Shutdown(t) PROVE TypeOK'
    BY <2>4 DEF Shutdown, procs, wire, calls
  <2>5. ASSUME NEW t \in Closers, CloserStep(t) PROVE TypeOK'
    <3>1. CASE ShutdownRead(t)
      BY <3>1 DEF ShutdownRead, procs, wire, calls
    <3>2. CASE Farewell(t)
      BY <3>2 DEF Farewell, procs, calls
    <3>3. CASE FarewellClosed(t)
      BY <3>3 DEF FarewellClosed, procs, wire, calls
    <3> QED
      BY <2>5, <3>1, <3>2, <3>3 DEF CloserStep
  <2>6. ASSUME NEW t \in Threads, StopStep(t) PROVE TypeOK'
    <3>1. CASE StopTake(t)
      BY <3>1 DEF StopTake, procs, wire, calls
    <3>2. CASE StopClear(t)
      BY <3>2 DEF StopClear, procs, wire, calls
    <3>3. CASE StopTerminate(t)
      BY <3>3 DEF StopTerminate, wire, calls
    <3>4. CASE StopKill(t)
      BY <3>4 DEF StopKill, wire, calls
    <3>5. CASE StopClosed(t)
      BY <3>5 DEF StopClosed, procs, wire, calls
    <3>6. CASE StopClose(t)
      <4>1. handle' \in [Child -> BOOLEAN] /\ pipe' \in [Child -> BOOLEAN]
        BY <3>6 DEF StopClose
      <4>2. CASE then[t] = "spawn"
        BY <3>6, <4>1, <4>2 DEF StopClose, wire, calls
      <4>3. CASE then[t] # "spawn"
        <5>1. Leave(t, then[t])
          BY <3>6, <4>3 DEF StopClose
        <5>2. then[t] \in {"none", "timeout", "crashed", "closed"}
          BY <4>3
        <5> QED
          BY <3>6, <4>1, <5>1, <5>2 DEF StopClose, wire, calls
      <4> QED
        BY <4>2, <4>3
    <3> QED
      BY <2>6, <3>1, <3>2, <3>3, <3>4, <3>5, <3>6 DEF StopStep
  <2>7. ASSUME NEW g \in Child, ServeStep(g) PROVE TypeOK'
    <3>1. CASE ServeReceive(g)
      BY <3>1, SMTT(20) DEF ServeReceive, Unaffected, calls
    <3>2. CASE ServeExit(g)
      BY <3>2 DEF ServeExit, Ends, Unaffected, wire, calls
    <3>3. CASE ChildDies(g)
      BY <3>3 DEF ChildDies, Ends, Unaffected, wire, calls
    <3>4. ASSUME NEW status \in {"ok", "error"}, ServeReply(g, status)
          PROVE  TypeOK'
      BY <3>4 DEF ServeReply, Unaffected, calls
    <3> QED
      BY <2>7, <3>1, <3>2, <3>3, <3>4 DEF ServeStep
  <2>8. CASE UNCHANGED vars
    BY <2>8 DEF vars, procs, wire, calls
  <2> QED
    BY <2>1, <2>2, <2>3, <2>4, <2>5, <2>6, <2>7, <2>8 DEF Next
<1> QED
  BY <1>1, <1>2, PTL DEF Spec


\* The lock is what the code takes it for, whatever times out or crashes.
LEMMA LockHeld == Spec => []LockInv
<1>1. Init => LockInv
  BY DEF Init, LockInv, Threads
<1>2. TypeOK /\ LockInv /\ [Next]_vars => LockInv'
  <2> SUFFICES ASSUME TypeOK, LockInv, [Next]_vars PROVE LockInv'
    OBVIOUS
  <2>0. (\E S : pc \in [Threads -> S]) /\ Callers \subseteq Threads
        /\ None \notin Threads /\ Callers \cap Closers = {}
    BY WorkerAssumption DEF TypeOK, Threads
  <2> USE <2>0 DEF LockInv, Go, Leave, Stop
  <2>1. ASSUME NEW t \in Callers, Ask(t) PROVE LockInv'
    BY <2>1 DEF Ask
  <2>2. ASSUME NEW t \in Callers, Expire(t) PROVE LockInv'
    BY <2>2 DEF Expire
  <2>3. ASSUME NEW t \in Callers, CallerStep(t) PROVE LockInv'
    <3>1. CASE Acquire(t)
      BY <3>1 DEF Acquire
    <3>2. CASE LockTimeout(t) \/ StartTooLate(t) \/ SpawnFails(t)
      BY <3>2 DEF LockTimeout, StartTooLate, SpawnFails
    <3>3. CASE EnsureStarted(t) \/ Reuse(t) \/ Respawn(t) \/ ProbeClosed(t)
      BY <3>3 DEF EnsureStarted, Reuse, Respawn, ProbeClosed
    <3>4. CASE Spawn(t) \/ Send(t) \/ SendFails(t)
      BY <3>4 DEF Spawn, Send, SendFails
    <3>5. CASE AwaitTimeout(t) \/ AwaitCrash(t) \/ AwaitClosed(t)
      BY <3>5 DEF AwaitTimeout, AwaitCrash, AwaitClosed
    <3>6. CASE Receive(t)
      BY <3>6 DEF Receive
    <3> QED
      BY <2>3, <3>1, <3>2, <3>3, <3>4, <3>5, <3>6 DEF CallerStep
  <2>4. ASSUME NEW t \in Closers, Shutdown(t) PROVE LockInv'
    <3>1. \A u \in Callers : u # None /\ u # t /\ pc'[u] = pc[u]
      BY <2>4 DEF Shutdown
    <3> QED
      BY <2>4, <3>1 DEF Shutdown
  <2>5. ASSUME NEW t \in Closers, CloserStep(t) PROVE LockInv'
    BY <2>5 DEF CloserStep, ShutdownRead, Farewell, FarewellClosed
  <2>6. ASSUME NEW t \in Threads, StopStep(t) PROVE LockInv'
    <3>1. CASE StopTake(t) \/ StopClear(t) \/ StopTerminate(t) \/ StopKill(t)
      BY <3>1 DEF StopTake, StopClear, StopTerminate, StopKill
    <3>2. CASE StopClosed(t)
      BY <3>2 DEF StopClosed
    <3>3. CASE StopClose(t)
      BY <3>3 DEF StopClose
    <3> QED
      BY <2>6, <3>1, <3>2, <3>3 DEF StopStep
  <2>7. ASSUME NEW g \in Child, ServeStep(g) PROVE LockInv'
    BY <2>7 DEF ServeStep, ServeReceive, ServeExit, ChildDies, ServeReply,
       Unaffected
  <2>8. CASE UNCHANGED vars
    BY <2>8 DEF vars
  <2> QED
    BY <2>1, <2>2, <2>3, <2>4, <2>5, <2>6, <2>7, <2>8 DEF Next
<1> QED
  BY <1>1, <1>2, TypeCorrect, PTL DEF Spec

\* "One request runs at a time per worker (guarded by a lock)": whatever times
\* out, crashes, or is shut down, two callers are never both past the acquire.
THEOREM OneCallerAtATime == Spec => []OneAtATime
<1>1. LockInv => OneAtATime
  BY DEF LockInv, OneAtATime
<1> QED
  BY <1>1, LockHeld, PTL

-----------------------------------------------------------------------------
(* While no shutdown goes on without the lock.                             *)

\* Whoever shuts the worker down got the lock before its wait was over.
Patient == \A t \in Closers : pc[t] \in {"idle", "done"} \/ lock = t

Stopping == {"terminate", "kill"}   \* the worker is no longer in the fields

Quiet(g) == inbox[g] = <<>> /\ outbox[g] = <<>> /\ busy[g] = 0

\* The request n is the one message of child g, wherever it is.
OneMessage(g, n) ==
  \/ inbox[g] = <<n>> /\ busy[g] = 0 /\ outbox[g] = <<>>
  \/ inbox[g] = <<>> /\ busy[g] = n /\ outbox[g] = <<>>
  \/ /\ inbox[g] = <<>> /\ busy[g] = 0
     /\ \E status \in {"ok", "error"} :
          outbox[g] = <<[id |-> n, status |-> status]>>

\* The children: the one that may run is the current one, or is being stopped.
ChildInv ==
  /\ \A g \in Child : alive[g] => handle[g]
  /\ \A g \in Child : Runs(g) =>
       g = current \/ \E t \in Threads : pc[t] \in Stopping /\ gen[t] = g
  /\ \A t \in Threads :
       /\ pc[t] \in {"probe", "clear", "farewell"} => gen[t] = current
       /\ pc[t] \in {"send", "await"} => gen[t] = current /\ current # 0
       /\ pc[t] \in Stopping \cup {"close", "spawn"} => current = 0
       /\ pc[t] \in Stopping => gen[t] = 0 \/ handle[gen[t]]

\* The current child has its connection, and in it what was sent and not
\* answered: nothing between requests, one message while one is awaited.
WireInv ==
  /\ \A g \in Child : g > spawned => Quiet(g)
  /\ current # 0 => current <= spawned /\ handle[current] /\ pipe[current]
  /\ \A t \in Callers : pc[t] = "await" => id[t] # 0 /\ OneMessage(gen[t], id[t])
  /\ current # 0 /\ (\A t \in Threads : pc[t] \notin {"await", "take", "clear"})
       => Quiet(current)

\* No request meets a closed Process or connection.
OutcomeInv ==
  /\ nextId # 0
  /\ DocumentedOutcome
  /\ \A t \in Callers :
       then[t] # "raw" /\ pc[t] \notin {"read", "farewell", "done"}
  /\ \A t \in Closers :
       /\ then[t] \in {"none", "closed"}
       /\ pc[t] \in {"idle", "read", "farewell", "take", "clear", "close", "done"} \cup Stopping

SoloInv == ChildInv /\ WireInv /\ OutcomeInv

\* Every step of the worker and of the threads that use it keeps the invariant.
LEMMA SoloStep ==
  ASSUME TypeOK, LockInv, Patient, Patient', SoloInv, Next
  PROVE  SoloInv'
<1> USE DEF Go, Leave, Stop, Runs
<1>1. /\ \E S : pc \in [Threads -> S]
      /\ Callers \subseteq Threads /\ Closers \subseteq Threads
      /\ Callers \cap Closers = {} /\ None \notin Threads
  BY WorkerAssumption DEF TypeOK, Threads
<1>2. \A t, u \in Threads : pc[t] \notin {"idle", "lock", "done"} /\ u # t
                             => pc[u] \in {"idle", "lock", "done"}
  BY DEF LockInv, Patient, Threads
<1>3. ASSUME NEW t \in Callers, Ask(t) PROVE SoloInv'
  <2>1. ChildInv'
    BY <1>1, <1>2, <1>3 DEF Ask, procs, wire, TypeOK, SoloInv, ChildInv,
       WireInv, Stopping
  <2>2. WireInv'
    BY <1>1, <1>2, <1>3 DEF Ask, procs, wire, TypeOK, SoloInv, ChildInv,
       WireInv, Stopping, OutcomeInv, Quiet, OneMessage
  <2>3. OutcomeInv'
    BY <1>1, <1>2, <1>3 DEF Ask, procs, wire, TypeOK, SoloInv, ChildInv,
       WireInv, Stopping, OutcomeInv, DocumentedOutcome
  <2> QED
    BY <2>1, <2>2, <2>3 DEF SoloInv
<1>4. ASSUME NEW t \in Callers, Expire(t) PROVE SoloInv'
  <2>1. ChildInv'
    BY <1>1, <1>2, <1>4 DEF Expire, procs, wire, calls, TypeOK, SoloInv,
       ChildInv, WireInv, Stopping
  <2>2. WireInv'
    BY <1>1, <1>2, <1>4 DEF Expire, procs, wire, calls, TypeOK, SoloInv,
       ChildInv, WireInv, Stopping, OutcomeInv, Quiet, OneMessage
  <2>3. OutcomeInv'
    BY <1>1, <1>2, <1>4 DEF Expire, procs, wire, calls, TypeOK, SoloInv,
       ChildInv, WireInv, Stopping, OutcomeInv, DocumentedOutcome
  <2> QED
    BY <2>1, <2>2, <2>3 DEF SoloInv
<1>5. ASSUME NEW t \in Callers, Acquire(t) PROVE SoloInv'
  <2>1. ChildInv'
    BY <1>1, <1>2, <1>5 DEF Acquire, procs, wire, calls, TypeOK, SoloInv,
       ChildInv, WireInv, Stopping
  <2>2. WireInv'
    BY <1>1, <1>2, <1>5 DEF Acquire, procs, wire, calls, TypeOK, SoloInv,
       ChildInv, WireInv, Stopping, OutcomeInv, Quiet, OneMessage
  <2>3. OutcomeInv'
    BY <1>1, <1>2, <1>5 DEF Acquire, procs, wire, calls, TypeOK, SoloInv,
       ChildInv, WireInv, Stopping, OutcomeInv, DocumentedOutcome
  <2> QED
    BY <2>1, <2>2, <2>3 DEF SoloInv
<1>6. ASSUME NEW t \in Callers, LockTimeout(t) PROVE SoloInv'
  <2>1. ChildInv'
    BY <1>1, <1>2, <1>6 DEF LockTimeout, procs, wire, calls, TypeOK, SoloInv,
       ChildInv, WireInv, Stopping
  <2>2. WireInv'
    BY <1>1, <1>2, <1>6 DEF LockTimeout, procs, wire, calls, TypeOK, SoloInv,
       ChildInv, WireInv, Stopping, OutcomeInv, Quiet, OneMessage
  <2>3. OutcomeInv'
    BY <1>1, <1>2, <1>6 DEF LockTimeout, procs, wire, calls, TypeOK, SoloInv,
       ChildInv, WireInv, Stopping, OutcomeInv, DocumentedOutcome
  <2> QED
    BY <2>1, <2>2, <2>3 DEF SoloInv
<1>7. ASSUME NEW t \in Callers, StartTooLate(t) PROVE SoloInv'
  <2>1. ChildInv'
    BY <1>1, <1>2, <1>7 DEF StartTooLate, procs, wire, calls, TypeOK, SoloInv,
       ChildInv, WireInv, Stopping
  <2>2. WireInv'
    BY <1>1, <1>2, <1>7 DEF StartTooLate, procs, wire, calls, TypeOK, SoloInv,
       ChildInv, WireInv, Stopping, OutcomeInv, Quiet, OneMessage
  <2>3. OutcomeInv'
    BY <1>1, <1>2, <1>7 DEF StartTooLate, procs, wire, calls, TypeOK, SoloInv,
       ChildInv, WireInv, Stopping, OutcomeInv, DocumentedOutcome
  <2> QED
    BY <2>1, <2>2, <2>3 DEF SoloInv
<1>8. ASSUME NEW t \in Callers, EnsureStarted(t) PROVE SoloInv'
  <2>1. ChildInv'
    BY <1>1, <1>2, <1>8 DEF EnsureStarted, procs, wire, calls, TypeOK, SoloInv,
       ChildInv, WireInv, Stopping
  <2>2. WireInv'
    BY <1>1, <1>2, <1>8 DEF EnsureStarted, procs, wire, calls, TypeOK, SoloInv,
       ChildInv, WireInv, Stopping, OutcomeInv, Quiet, OneMessage
  <2>3. OutcomeInv'
    BY <1>1, <1>2, <1>8 DEF EnsureStarted, procs, wire, calls, TypeOK, SoloInv,
       ChildInv, WireInv, Stopping, OutcomeInv, DocumentedOutcome
  <2> QED
    BY <2>1, <2>2, <2>3 DEF SoloInv
<1>9. ASSUME NEW t \in Callers, Reuse(t) PROVE SoloInv'
  <2>1. ChildInv'
    BY <1>1, <1>2, <1>9 DEF Reuse, Usable, Lives, procs, wire, calls, TypeOK,
       SoloInv, ChildInv, WireInv, Stopping
  <2>2. WireInv'
    BY <1>1, <1>2, <1>9 DEF Reuse, Usable, Lives, procs, wire, calls, TypeOK,
       SoloInv, ChildInv, WireInv, Stopping, OutcomeInv, Quiet, OneMessage
  <2>3. OutcomeInv'
    BY <1>1, <1>2, <1>9 DEF Reuse, Usable, Lives, procs, wire, calls, TypeOK,
       SoloInv, ChildInv, WireInv, Stopping, OutcomeInv, DocumentedOutcome
  <2> QED
    BY <2>1, <2>2, <2>3 DEF SoloInv
<1>10. ASSUME NEW t \in Callers, Respawn(t) PROVE SoloInv'
  <2>1. ChildInv'
    BY <1>1, <1>2, <1>10 DEF Respawn, procs, wire, calls, TypeOK, SoloInv,
       ChildInv, WireInv, Stopping
  <2>2. WireInv'
    BY <1>1, <1>2, <1>10 DEF Respawn, procs, wire, calls, TypeOK, SoloInv,
       ChildInv, WireInv, Stopping, OutcomeInv, Quiet, OneMessage
  <2>3. OutcomeInv'
    BY <1>1, <1>2, <1>10 DEF Respawn, procs, wire, calls, TypeOK, SoloInv,
       ChildInv, WireInv, Stopping, OutcomeInv, DocumentedOutcome
  <2> QED
    BY <2>1, <2>2, <2>3 DEF SoloInv
<1>11. ASSUME NEW t \in Callers, ProbeClosed(t) PROVE SoloInv'
  <2>1. ChildInv'
    BY <1>1, <1>2, <1>11 DEF ProbeClosed, procs, wire, calls, TypeOK, SoloInv,
       ChildInv, WireInv, Stopping
  <2>2. WireInv'
    BY <1>1, <1>2, <1>11 DEF ProbeClosed, procs, wire, calls, TypeOK, SoloInv,
       ChildInv, WireInv, Stopping, OutcomeInv, Quiet, OneMessage
  <2>3. OutcomeInv'
    BY <1>1, <1>2, <1>11 DEF ProbeClosed, procs, wire, calls, TypeOK, SoloInv,
       ChildInv, WireInv, Stopping, OutcomeInv, DocumentedOutcome
  <2> QED
    BY <2>1, <2>2, <2>3 DEF SoloInv
<1>12. ASSUME NEW t \in Callers, Spawn(t) PROVE SoloInv'
  <2>0. PICK g \in Child : g = spawned + 1
    BY <1>12 DEF Spawn
  <2>4. g \in Nat \ {0} /\ spawned \in Nat /\ current = 0 /\ pc[t] = "spawn"
    BY <1>1, <1>12, <2>0, WorkerAssumption DEF Spawn, TypeOK, Child, SoloInv, ChildInv
  <2>1. ChildInv'
    <3>1. \A h \in Child : ~Runs(h)
      BY <1>1, <1>2, <2>4 DEF SoloInv, ChildInv, Stopping, Child
    <3>2. \A h \in Child : /\ alive'[h] => handle'[h]
                           /\ Runs(h)' => h = g
      BY <1>12, <2>0, <2>4, <3>1 DEF Spawn, TypeOK, SoloInv, ChildInv
    <3>3. gen'[t] = g /\ pc'[t] = "send" /\ current' = g /\ g # 0
      BY <1>12, <2>0, <2>4 DEF Spawn, TypeOK, Threads
    <3>4. \A u \in Threads : u # t => pc'[u] = pc[u]
      BY <1>1, <1>12 DEF Spawn
    <3> QED
      BY <1>1, <1>2, <2>4, <3>2, <3>3, <3>4 DEF ChildInv, Stopping
  <2>2. WireInv'
    <3>0. \A h \in Child : h = g \/ h > g => h > spawned
      BY <2>0, <2>4, WorkerAssumption DEF Child
    <3>1. Quiet(g)' /\ \A h \in Child : h > g => Quiet(h)'
      BY <1>12, <3>0 DEF Spawn, wire, SoloInv, WireInv, Quiet
    <3>2. spawned' = g /\ current' = g /\ handle'[g] /\ pipe'[g]
      BY <1>12, <2>0 DEF Spawn, TypeOK
    <3>3. /\ pc'[t] = "send"
          /\ \A u \in Threads : u # t => pc'[u] \in {"idle", "lock", "done"}
      BY <1>1, <1>2, <1>12 DEF Spawn
    <3>4. g <= g
      BY <2>4
    <3> QED
      BY <1>1, <3>1, <3>2, <3>3, <3>4 DEF WireInv
  <2>3. OutcomeInv'
    BY <1>1, <1>2, <1>12 DEF Spawn, procs, wire, calls, TypeOK, SoloInv,
       ChildInv, WireInv, Stopping, OutcomeInv, DocumentedOutcome
  <2> QED
    BY <2>1, <2>2, <2>3 DEF SoloInv
<1>13. ASSUME NEW t \in Callers, SpawnFails(t) PROVE SoloInv'
  <2>1. ChildInv'
    BY <1>1, <1>2, <1>13 DEF SpawnFails, procs, wire, calls, TypeOK, SoloInv,
       ChildInv, WireInv, Stopping
  <2>2. WireInv'
    BY <1>1, <1>2, <1>13 DEF SpawnFails, procs, wire, calls, TypeOK, SoloInv,
       ChildInv, WireInv, Stopping, OutcomeInv, Quiet, OneMessage
  <2>3. OutcomeInv'
    BY <1>1, <1>2, <1>13 DEF SpawnFails, procs, wire, calls, TypeOK, SoloInv,
       ChildInv, WireInv, Stopping, OutcomeInv, DocumentedOutcome
  <2> QED
    BY <2>1, <2>2, <2>3 DEF SoloInv
<1>14. ASSUME NEW t \in Callers, Send(t) PROVE SoloInv'
  <2>1. ChildInv'
    BY <1>1, <1>2, <1>14 DEF Send, Lives, procs, wire, calls, TypeOK, SoloInv,
       ChildInv, WireInv, Stopping
  <2>2. WireInv'
    <3> DEFINE g == gen[t]
    <3>1. g \in Child /\ g = current /\ pc[t] = "send"
      BY <1>1, <1>14 DEF Send, Lives, TypeOK, SoloInv, ChildInv
    <3>2. Quiet(g)
      BY <1>1, <1>2, <3>1 DEF SoloInv, WireInv, Child
    <3>3. nextId \in Nat /\ nextId # 0 /\ Append(<<>>, nextId) = <<nextId>>
      BY DEF TypeOK, SoloInv, OutcomeInv
    <3>4. inbox'[g] = <<nextId>> /\ busy'[g] = 0 /\ outbox'[g] = <<>>
      BY <1>14, <3>1, <3>2, <3>3 DEF Send, Quiet, TypeOK
    <3>5. gen'[t] = g /\ id'[t] = nextId
      BY <1>1, <1>14 DEF Send, TypeOK
    <3>6. \A h \in Child : h > spawned => h # g
      BY <3>1 DEF SoloInv, WireInv, TypeOK, Child
    <3>7. \A h \in Child : h > spawned => Quiet(h)'
      BY <1>14, <3>6 DEF Send, Quiet, TypeOK, SoloInv, WireInv
    <3>8. /\ pc'[t] = "await"
          /\ \A u \in Threads : u # t => pc'[u] \in {"idle", "lock", "done"}
      BY <1>1, <1>2, <1>14, <3>1 DEF Send
    <3>9. OneMessage(gen[t], id[t])' /\ id'[t] # 0
      BY <1>14, <3>3, <3>4, <3>5 DEF OneMessage
    <3> QED
      BY <1>1, <1>14, <3>7, <3>8, <3>9 DEF Send, procs, SoloInv, WireInv
  <2>3. OutcomeInv'
    BY <1>1, <1>2, <1>14 DEF Send, Lives, procs, wire, calls, TypeOK, SoloInv,
       ChildInv, WireInv, Stopping, OutcomeInv, DocumentedOutcome
  <2> QED
    BY <2>1, <2>2, <2>3 DEF SoloInv
<1>15. ASSUME NEW t \in Callers, SendFails(t) PROVE SoloInv'
  <2>1. ChildInv'
    BY <1>1, <1>2, <1>15 DEF SendFails, procs, wire, calls, TypeOK, SoloInv,
       ChildInv, WireInv, Stopping
  <2>2. WireInv'
    BY <1>1, <1>2, <1>15 DEF SendFails, procs, wire, calls, TypeOK, SoloInv,
       ChildInv, WireInv, Stopping, OutcomeInv, Quiet, OneMessage
  <2>3. OutcomeInv'
    BY <1>1, <1>2, <1>15 DEF SendFails, procs, wire, calls, TypeOK, SoloInv,
       ChildInv, WireInv, Stopping, OutcomeInv, DocumentedOutcome
  <2> QED
    BY <2>1, <2>2, <2>3 DEF SoloInv
<1>16. ASSUME NEW t \in Callers, AwaitTimeout(t) PROVE SoloInv'
  <2>1. ChildInv'
    BY <1>1, <1>2, <1>16 DEF AwaitTimeout, procs, wire, calls, TypeOK, SoloInv,
       ChildInv, WireInv, Stopping
  <2>2. WireInv'
    BY <1>1, <1>2, <1>16 DEF AwaitTimeout, procs, wire, calls, TypeOK, SoloInv,
       ChildInv, WireInv, Stopping, OutcomeInv, Quiet, OneMessage
  <2>3. OutcomeInv'
    BY <1>1, <1>2, <1>16 DEF AwaitTimeout, procs, wire, calls, TypeOK, SoloInv,
       ChildInv, WireInv, Stopping, OutcomeInv, DocumentedOutcome
  <2> QED
    BY <2>1, <2>2, <2>3 DEF SoloInv
<1>17. ASSUME NEW t \in Callers, Receive(t) PROVE SoloInv'
  <2> DEFINE g == gen[t]
  <2>1. ChildInv'
    BY <1>1, <1>2, <1>17 DEF Receive, Usable, procs, wire, calls, TypeOK,
       SoloInv, ChildInv, WireInv, Stopping
  <2>2. g \in Child /\ g = current /\ pc[t] = "await" /\ outbox[g] # <<>>
    BY <1>1, <1>17 DEF Receive, Usable, TypeOK, SoloInv, ChildInv
  <2>3. OneMessage(g, id[t])
    BY <2>2 DEF SoloInv, WireInv
  <2>4. PICK status \in {"ok", "error"} : outbox[g] = <<[id |-> id[t],
                                                        status |-> status]>>
    BY <2>2, <2>3 DEF OneMessage
  <2>5. /\ Head(outbox[g]).id = id[t] /\ Head(outbox[g]).status = status
        /\ Tail(outbox[g]) = <<>>
    BY <2>4
  <2>6. Leave(t, status) /\ outbox' = [outbox EXCEPT ![g] = <<>>]
    BY <1>17, <2>5 DEF Receive
  <2>7. Quiet(g)'
    BY <1>17, <2>2, <2>3, <2>6 DEF Receive, Quiet, OneMessage, TypeOK
  <2>8. WireInv'
    <3>1. \A h \in Child : h > spawned => Quiet(h)'
      BY <1>17, <2>6 DEF Receive, Quiet, TypeOK, SoloInv, WireInv
    <3>2. /\ pc'[t] = "idle"
          /\ \A u \in Threads : u # t => pc'[u] \in {"idle", "lock", "done"}
      BY <1>1, <1>2, <2>2, <2>6
    <3> QED
      BY <1>1, <1>17, <2>2, <2>7, <3>1, <3>2 DEF Receive, procs, SoloInv, WireInv
  <2>9. OutcomeInv'
    BY <1>1, <1>17, <2>6 DEF Receive, calls, SoloInv, OutcomeInv,
       DocumentedOutcome, TypeOK
  <2> QED
    BY <2>1, <2>8, <2>9 DEF SoloInv
<1>18. ASSUME NEW t \in Callers, AwaitCrash(t) PROVE SoloInv'
  <2>1. ChildInv'
    BY <1>1, <1>2, <1>18 DEF AwaitCrash, procs, wire, calls, TypeOK, SoloInv,
       ChildInv, WireInv, Stopping
  <2>2. WireInv'
    BY <1>1, <1>2, <1>18 DEF AwaitCrash, procs, wire, calls, TypeOK, SoloInv,
       ChildInv, WireInv, Stopping, OutcomeInv, Quiet, OneMessage
  <2>3. OutcomeInv'
    BY <1>1, <1>2, <1>18 DEF AwaitCrash, procs, wire, calls, TypeOK, SoloInv,
       ChildInv, WireInv, Stopping, OutcomeInv, DocumentedOutcome
  <2> QED
    BY <2>1, <2>2, <2>3 DEF SoloInv
<1>19. ASSUME NEW t \in Callers, AwaitClosed(t) PROVE SoloInv'
  <2>1. ChildInv'
    BY <1>1, <1>2, <1>19 DEF AwaitClosed, Usable, procs, wire, calls, TypeOK,
       SoloInv, ChildInv, WireInv, Stopping
  <2>2. WireInv'
    BY <1>1, <1>2, <1>19 DEF AwaitClosed, Usable, procs, wire, calls, TypeOK,
       SoloInv, ChildInv, WireInv, Stopping, OutcomeInv, Quiet, OneMessage
  <2>3. OutcomeInv'
    BY <1>1, <1>2, <1>19 DEF AwaitClosed, Usable, procs, wire, calls, TypeOK,
       SoloInv, ChildInv, WireInv, Stopping, OutcomeInv, DocumentedOutcome
  <2> QED
    BY <2>1, <2>2, <2>3 DEF SoloInv
<1>20. ASSUME NEW t \in Threads, StopTake(t) PROVE SoloInv'
  <2>1. ChildInv'
    BY <1>1, <1>2, <1>20 DEF StopTake, procs, wire, calls, TypeOK, SoloInv,
       ChildInv, WireInv, Stopping
  <2>2. WireInv'
    BY <1>1, <1>2, <1>20 DEF StopTake, procs, wire, calls, TypeOK, SoloInv,
       ChildInv, WireInv, Stopping, OutcomeInv, Quiet, OneMessage
  <2>3. OutcomeInv'
    BY <1>1, <1>2, <1>20 DEF StopTake, procs, wire, calls, TypeOK, SoloInv,
       ChildInv, WireInv, Stopping, OutcomeInv, DocumentedOutcome
  <2> QED
    BY <2>1, <2>2, <2>3 DEF SoloInv
<1>21. ASSUME NEW t \in Threads, StopClear(t) PROVE SoloInv'
  <2>1. ChildInv'
    BY <1>1, <1>2, <1>21 DEF StopClear, procs, wire, calls, TypeOK, SoloInv,
       ChildInv, WireInv, Stopping
  <2>2. WireInv'
    BY <1>1, <1>2, <1>21 DEF StopClear, procs, wire, calls, TypeOK, SoloInv,
       ChildInv, WireInv, Stopping, OutcomeInv, Quiet, OneMessage
  <2>3. OutcomeInv'
    BY <1>1, <1>2, <1>21 DEF StopClear, procs, wire, calls, TypeOK, SoloInv,
       ChildInv, WireInv, Stopping, OutcomeInv, DocumentedOutcome
  <2> QED
    BY <2>1, <2>2, <2>3 DEF SoloInv
<1>22. ASSUME NEW t \in Threads, StopTerminate(t) PROVE SoloInv'
  <2>1. ChildInv'
    BY <1>1, <1>2, <1>22 DEF StopTerminate, Usable, Lives, procs, wire, calls,
       TypeOK, SoloInv, ChildInv, WireInv, Stopping
  <2>2. WireInv'
    BY <1>1, <1>2, <1>22 DEF StopTerminate, Usable, Lives, procs, wire, calls,
       TypeOK, SoloInv, ChildInv, WireInv, Stopping, OutcomeInv, Quiet,
       OneMessage
  <2>3. OutcomeInv'
    BY <1>1, <1>2, <1>22 DEF StopTerminate, Usable, Lives, procs, wire, calls,
       TypeOK, SoloInv, ChildInv, WireInv, Stopping, OutcomeInv,
       DocumentedOutcome
  <2> QED
    BY <2>1, <2>2, <2>3 DEF SoloInv
<1>23. ASSUME NEW t \in Threads, StopKill(t) PROVE SoloInv'
  <2>1. ChildInv'
    BY <1>1, <1>2, <1>23 DEF StopKill, Usable, Lives, procs, wire, calls,
       TypeOK, SoloInv, ChildInv, WireInv, Stopping
  <2>2. WireInv'
    BY <1>1, <1>2, <1>23 DEF StopKill, Usable, Lives, procs, wire, calls,
       TypeOK, SoloInv, ChildInv, WireInv, Stopping, OutcomeInv, Quiet,
       OneMessage
  <2>3. OutcomeInv'
    BY <1>1, <1>2, <1>23 DEF StopKill, Usable, Lives, procs, wire, calls,
       TypeOK, SoloInv, ChildInv, WireInv, Stopping, OutcomeInv,
       DocumentedOutcome
  <2> QED
    BY <2>1, <2>2, <2>3 DEF SoloInv
<1>24. ASSUME NEW t \in Threads, StopClosed(t) PROVE SoloInv'
  <2>1. ChildInv'
    BY <1>1, <1>2, <1>24 DEF StopClosed, procs, wire, calls, TypeOK, SoloInv,
       ChildInv, WireInv, Stopping
  <2>2. WireInv'
    BY <1>1, <1>2, <1>24 DEF StopClosed, procs, wire, calls, TypeOK, SoloInv,
       ChildInv, WireInv, Stopping, OutcomeInv, Quiet, OneMessage
  <2>3. OutcomeInv'
    BY <1>1, <1>2, <1>24 DEF StopClosed, procs, wire, calls, TypeOK, SoloInv,
       ChildInv, WireInv, Stopping, OutcomeInv, DocumentedOutcome
  <2> QED
    BY <2>1, <2>2, <2>3 DEF SoloInv
<1>25. ASSUME NEW t \in Threads, StopClose(t) PROVE SoloInv'
  <2>1. ChildInv'
    <3>1. current = 0 /\ \A h \in Child : ~Runs(h)
      BY <1>1, <1>2, <1>25 DEF StopClose, SoloInv, ChildInv, WireInv, Stopping,
         Child
    <3>2. /\ current' = 0 /\ \A h \in Child : ~Runs(h)'
          /\ \A h \in Child : alive'[h] => handle'[h]
      BY <1>25, <3>1 DEF StopClose, SoloInv, ChildInv, TypeOK
    <3>3. /\ pc'[t] \in {"idle", "spawn", "done"}
          /\ \A u \in Threads : u # t => pc'[u] \in {"idle", "lock", "done"}
      BY <1>1, <1>2, <1>25 DEF StopClose
    <3> QED
      BY <3>2, <3>3 DEF ChildInv, Stopping
  <2>2. WireInv'
    <3>1. current' = 0 /\ UNCHANGED <<spawned, inbox, outbox, busy>>
      BY <1>1, <1>25 DEF StopClose, wire, SoloInv, ChildInv
    <3>2. \A u \in Callers : pc'[u] # "await"
      BY <1>1, <1>2, <1>25 DEF StopClose
    <3> QED
      BY <3>1, <3>2 DEF SoloInv, WireInv, Quiet
  <2>3. OutcomeInv'
    <3>1. UNCHANGED <<nextId, then>> /\ pc'[t] \in {"idle", "spawn", "done"}
          /\ \A u \in Threads : u # t => pc'[u] = pc[u]
      BY <1>1, <1>25 DEF StopClose, calls
    <3>2. outcome' = outcome \/ outcome' = [outcome EXCEPT ![t] = then[t]]
      BY <1>25 DEF StopClose
    <3>3. \A u \in Callers : outcome'[u] # "raw"
      BY <1>1, <3>2 DEF SoloInv, OutcomeInv, DocumentedOutcome, TypeOK
    <3>4. t \in Callers => pc'[t] \in {"idle", "spawn"}
      BY <1>1, <1>25 DEF StopClose
    <3>5. t \in Closers => pc'[t] = "done"
      BY <1>1, <1>25 DEF StopClose, SoloInv, OutcomeInv
    <3> QED
      BY <1>1, <3>1, <3>3, <3>4, <3>5 DEF SoloInv, OutcomeInv, DocumentedOutcome
  <2> QED
    BY <2>1, <2>2, <2>3 DEF SoloInv
<1>26. ASSUME NEW g \in Child, ServeReceive(g) PROVE SoloInv'
  <2>1. ChildInv'
    BY <1>26 DEF ServeReceive, Unaffected, SoloInv, ChildInv
  <2>2. \A h \in Child : Quiet(h) => Quiet(h)'
    BY <1>26 DEF ServeReceive, Quiet, TypeOK
  <2>3. \A h \in Child, n \in Nat \ {0} : OneMessage(h, n) => OneMessage(h, n)'
    <3> SUFFICES ASSUME NEW h \in Child, NEW n \in Nat \ {0}, OneMessage(h, n)
                 PROVE  OneMessage(h, n)'
      OBVIOUS
    <3>1. CASE h # g
      BY <1>26, <3>1 DEF ServeReceive, OneMessage, TypeOK
    <3>2. CASE h = g
      <4>1. inbox[g] = <<n>> /\ busy[g] = 0 /\ outbox[g] = <<>>
        BY <1>26, <3>2 DEF ServeReceive, OneMessage
      <4>2. Head(<<n>>) = n /\ Tail(<<n>>) = <<>>
        OBVIOUS
      <4>3. inbox'[g] = <<>> /\ busy'[g] = n /\ outbox'[g] = <<>>
        BY <1>26, <4>1, <4>2 DEF ServeReceive, TypeOK
      <4> QED
        BY <3>2, <4>3 DEF OneMessage
    <3> QED
      BY <3>1, <3>2
  <2>4. WireInv'
    BY <1>1, <1>26, <2>2, <2>3 DEF ServeReceive, Unaffected, TypeOK, SoloInv,
       ChildInv, WireInv
  <2> QED
    BY <1>26, <2>1, <2>4 DEF ServeReceive, Unaffected, calls, SoloInv,
       OutcomeInv, DocumentedOutcome
<1>27. ASSUME NEW g \in Child, NEW status \in {"ok", "error"},
              ServeReply(g, status)
       PROVE  SoloInv'
  <2>1. ChildInv'
    BY <1>27 DEF ServeReply, Unaffected, SoloInv, ChildInv
  <2>2. \A h \in Child : Quiet(h) => Quiet(h)'
    BY <1>27 DEF ServeReply, Quiet, TypeOK
  <2>3. \A h \in Child, n \in Nat \ {0} : OneMessage(h, n) => OneMessage(h, n)'
    <3> SUFFICES ASSUME NEW h \in Child, NEW n \in Nat \ {0}, OneMessage(h, n)
                 PROVE  OneMessage(h, n)'
      OBVIOUS
    <3>1. CASE h # g
      BY <1>27, <3>1 DEF ServeReply, OneMessage, TypeOK
    <3>2. CASE h = g
      <4>1. inbox[g] = <<>> /\ busy[g] = n /\ outbox[g] = <<>>
        BY <1>27, <3>2 DEF ServeReply, OneMessage
      <4>2. Append(<<>>, [id |-> n, status |-> status])
               = <<[id |-> n, status |-> status]>>
        OBVIOUS
      <4>3. /\ inbox'[g] = <<>> /\ busy'[g] = 0
            /\ outbox'[g] = <<[id |-> n, status |-> status]>>
        BY <1>27, <4>1, <4>2 DEF ServeReply, TypeOK
      <4> QED
        BY <3>2, <4>3 DEF OneMessage
    <3> QED
      BY <3>1, <3>2
  <2>4. WireInv'
    BY <1>1, <1>27, <2>2, <2>3 DEF ServeReply, Unaffected, TypeOK, SoloInv,
       ChildInv, WireInv
  <2> QED
    BY <1>27, <2>1, <2>4 DEF ServeReply, Unaffected, calls, SoloInv,
       OutcomeInv, DocumentedOutcome
<1>28. ASSUME NEW g \in Child, ServeExit(g) \/ ChildDies(g) PROVE SoloInv'
  <2>1. \A h \in Child : alive'[h] => alive[h]
    BY <1>28 DEF ServeExit, ChildDies, Ends, TypeOK
  <2>2. ChildInv'
    BY <1>28, <2>1 DEF ServeExit, ChildDies, Unaffected, SoloInv, ChildInv
  <2>3. WireInv'
    BY <1>28 DEF ServeExit, ChildDies, Unaffected, wire, SoloInv, WireInv,
       Quiet, OneMessage
  <2> QED
    BY <1>28, <2>2, <2>3 DEF ServeExit, ChildDies, Unaffected, calls, SoloInv,
       OutcomeInv, DocumentedOutcome
<1>29. ASSUME NEW t \in Closers, Shutdown(t) PROVE SoloInv'
  <2>1. \A u \in Threads : u # t => pc[u] \in {"idle", "lock", "done"} /\ pc'[u] = pc[u]
    BY <1>1, <1>29 DEF Shutdown, LockInv, Patient, Threads
  <2>2. pc'[t] = "read" /\ pc[t] = "idle"
        /\ UNCHANGED <<current, procs, wire, calls, outcome, gen, id, then>>
    BY <1>1, <1>29 DEF Shutdown
  <2>3. ChildInv'
    BY <2>1, <2>2 DEF procs, SoloInv, ChildInv, Stopping
  <2>4. WireInv'
    BY <1>1, <2>1, <2>2 DEF procs, wire, SoloInv, WireInv, Quiet
  <2>5. OutcomeInv'
    BY <1>1, <2>1, <2>2 DEF calls, SoloInv, OutcomeInv, DocumentedOutcome
  <2> QED
    BY <2>3, <2>4, <2>5 DEF SoloInv
<1>30. ASSUME NEW t \in Closers, ShutdownRead(t) PROVE SoloInv'
  <2>1. ChildInv'
    BY <1>1, <1>2, <1>30 DEF ShutdownRead, procs, wire, calls, TypeOK, SoloInv,
       ChildInv, WireInv, Stopping
  <2>2. WireInv'
    BY <1>1, <1>2, <1>30 DEF ShutdownRead, procs, wire, calls, TypeOK, SoloInv,
       ChildInv, WireInv, Stopping, OutcomeInv, Quiet, OneMessage
  <2>3. OutcomeInv'
    BY <1>1, <1>2, <1>30 DEF ShutdownRead, procs, wire, calls, TypeOK, SoloInv,
       ChildInv, WireInv, Stopping, OutcomeInv, DocumentedOutcome
  <2> QED
    BY <2>1, <2>2, <2>3 DEF SoloInv
<1>31. ASSUME NEW t \in Closers, Farewell(t) PROVE SoloInv'
  <2>0. gen[t] = current /\ pc[t] = "farewell"
    BY <1>1, <1>31 DEF Farewell, SoloInv, ChildInv
  <2>1. ChildInv'
    BY <1>1, <1>2, <1>31, <2>0 DEF Farewell, procs, calls, TypeOK, SoloInv,
       ChildInv, WireInv, Stopping
  <2>2. WireInv'
    <3>1. \A g \in Child : g > spawned => g # gen[t]
      BY <2>0 DEF SoloInv, WireInv, TypeOK, Child
    <3>2. \A g \in Child : g > spawned => Quiet(g)'
      BY <1>31, <3>1 DEF Farewell, SoloInv, WireInv, Quiet
    <3>3. pc'[t] = "take" /\ \A u \in Callers : pc'[u] # "await"
      BY <1>1, <1>2, <1>31, <2>0 DEF Farewell
    <3> QED
      BY <1>1, <1>31, <3>2, <3>3 DEF Farewell, procs, SoloInv, WireInv
  <2>3. OutcomeInv'
    BY <1>1, <1>2, <1>31, <2>0 DEF Farewell, procs, calls, TypeOK, SoloInv,
       OutcomeInv, DocumentedOutcome
  <2> QED
    BY <2>1, <2>2, <2>3 DEF SoloInv
<1>32. ASSUME NEW t \in Closers, FarewellClosed(t) PROVE SoloInv'
  BY <1>1, <1>32 DEF FarewellClosed, SoloInv, ChildInv, WireInv
<1> QED
  BY <1>1, <1>3, <1>4, <1>5, <1>6, <1>7, <1>8, <1>9, <1>10, <1>11, <1>12,
     <1>13, <1>14, <1>15, <1>16, <1>17, <1>18, <1>19, <1>20, <1>21, <1>22,
     <1>23, <1>24, <1>25, <1>26, <1>27, <1>28, <1>29, <1>30, <1>31, <1>32
  DEF Next, CallerStep, CloserStep, StopStep, ServeStep

\* As long as no shutdown goes on without the lock, its owner alone touches the
\* child: SoloInv, in which the four properties below are contained, is
\* inductive beside LockInv.
LEMMA SoloSafety == Spec /\ []Patient => []SoloInv
<1>1. Init => SoloInv
  BY WorkerAssumption DEF Init, SoloInv, ChildInv, WireInv, OutcomeInv, Runs,
     Quiet, OneMessage, Stopping, DocumentedOutcome, Threads, Child
<1>2. TypeOK /\ LockInv /\ Patient /\ Patient' /\ SoloInv /\ [Next]_vars => SoloInv'
  <2> SUFFICES ASSUME TypeOK, LockInv, Patient, Patient', SoloInv, [Next]_vars
               PROVE  SoloInv'
    OBVIOUS
  <2>1. CASE Next
    BY <2>1, SoloStep
  <2>2. CASE UNCHANGED vars
    BY <2>2 DEF vars, procs, wire, calls, SoloInv, ChildInv, WireInv,
       OutcomeInv, Runs, Quiet, OneMessage, DocumentedOutcome
  <2> QED
    BY <2>1, <2>2
<1> QED
  BY <1>1, <1>2, TypeCorrect, LockHeld, PTL DEF Spec

\* Two children never infer at once: a worker that timed out or was found dead
\* no longer runs when its successor is started.
THEOREM OneInferenceAtATime == Spec /\ []Patient => []OneInference
<1>1. LockInv /\ Patient /\ SoloInv => OneInference
  <2> SUFFICES ASSUME LockInv, Patient, SoloInv,
                      NEW g \in Child, NEW h \in Child, Runs(g), Runs(h)
               PROVE  g = h
    BY DEF OneInference
  <2>1. CASE current # 0
    BY <2>1 DEF SoloInv, ChildInv
  <2>2. CASE current = 0
    <3>1. g # 0 /\ h # 0
      BY WorkerAssumption DEF Child
    <3>2. PICK t \in Threads : pc[t] \in Stopping /\ gen[t] = g
      BY <2>2, <3>1 DEF SoloInv, ChildInv
    <3>3. PICK u \in Threads : pc[u] \in Stopping /\ gen[u] = h
      BY <2>2, <3>1 DEF SoloInv, ChildInv
    <3> QED
      BY <3>2, <3>3 DEF LockInv, Patient, Threads, Stopping
  <2> QED
    BY <2>1, <2>2
<1> QED
  BY <1>1, LockHeld, SoloSafety, PTL

\* "Stale reply; cannot normally happen": it never happens, unless a shutdown
\* goes on without the lock.
THEOREM RepliesAreFresh == Spec /\ []Patient => []NoStaleReply
<1>1. TypeOK /\ SoloInv => NoStaleReply
  <2> SUFFICES ASSUME TypeOK, SoloInv, NEW t \in Callers, pc[t] = "await",
                      outbox[gen[t]] # <<>>
               PROVE  Head(outbox[gen[t]]).id = id[t]
    BY DEF NoStaleReply
  <2>1. OneMessage(gen[t], id[t])
    BY DEF SoloInv, WireInv
  <2>2. PICK status \in {"ok", "error"} :
          outbox[gen[t]] = <<[id |-> id[t], status |-> status]>>
    BY <2>1 DEF OneMessage
  <2> QED
    BY <2>2
<1> QED
  BY <1>1, TypeCorrect, SoloSafety, PTL

\* Unless a shutdown goes on without the lock, every request ends as documented.
THEOREM OutcomesAreDocumented == Spec /\ []Patient => []DocumentedOutcome
<1>1. SoloInv => DocumentedOutcome
  BY DEF SoloInv, OutcomeInv
<1> QED
  BY <1>1, SoloSafety, PTL

-----------------------------------------------------------------------------
(* The deadline of a request, and its child.                               *)

\* A request that gives up does so for what has happened: a timeout once its
\* deadline is past, a crash once its child has gone.
DeadlineInv ==
  /\ \A t \in Callers : gen[t] <= spawned
  /\ \A t \in Callers : pc[t] = "take" => gen[t] = current
  /\ \A t \in Callers : pc[t] \in {"take", "clear", "close"} \cup Stopping =>
       /\ then[t] = "timeout" => expired[t]
       /\ then[t] = "crashed" => ~Lives(gen[t])
  /\ \A t \in Callers : pc[t] # "idle" => outcome[t] = "none"
  /\ \A t \in Callers :
       /\ outcome[t] = "timeout" => expired[t]
       /\ outcome[t] = "crashed" => ~Lives(gen[t])

\* A step of the worker and of the threads that use it keeps that.
LEMMA DeadlineStep ==
  ASSUME TypeOK, LockInv, Patient, Patient', SoloInv, DeadlineInv, Next
  PROVE  DeadlineInv'
<1>0. /\ Callers \subseteq Threads /\ Closers \subseteq Threads
      /\ Callers \cap Closers = {} /\ None \notin Threads
      /\ Child \subseteq Nat /\ MaxRequests \in Nat
  BY WorkerAssumption DEF Threads, Child
<1>1. /\ Callers \subseteq Threads /\ Closers \subseteq Threads /\ Callers \cap Closers = {}
      /\ spawned \in Nat /\ current \in Nat
      /\ pc \in [Threads -> {"idle", "lock", "start", "probe", "spawn", "send",
                              "await", "take", "clear", "terminate", "kill",
                              "close", "read", "farewell", "done"}]
      /\ outcome \in [Threads -> {"none", "ok", "error", "timeout", "crashed",
                                  "unstarted", "closed", "raw"}]
      /\ expired \in [Threads -> BOOLEAN]
      /\ gen \in [Threads -> {0} \cup Child] /\ \A t \in Callers : gen[t] \in Nat
      /\ alive \in [Child -> BOOLEAN]
      /\ then \in [Threads -> {"none", "spawn", "timeout", "crashed", "closed"}]
  <2>1. \A t \in Callers : gen[t] \in {0} \cup Child
    BY <1>0 DEF TypeOK
  <2>2. current \in {0} \cup Child /\ spawned \in {0} \cup Child
    BY DEF TypeOK
  <2>3. current \in Nat /\ spawned \in Nat /\ \A t \in Callers : gen[t] \in Nat
    BY <2>1, <2>2, WorkerAssumption DEF Child
  <2> QED
    BY <1>0, <2>3 DEF TypeOK
<1> USE DEF Go, Leave, Stop, DeadlineInv, Lives
<1>2. \A t, u \in Threads : pc[t] \notin {"idle", "lock", "done"} /\ u # t
                             => pc[u] \in {"idle", "lock", "done"}
  BY <1>0 DEF LockInv, Patient, Threads
<1>3. ASSUME NEW t \in Callers, Ask(t) PROVE DeadlineInv'
  BY <1>1, <1>3 DEF Ask, procs, Stopping
<1>4. ASSUME NEW t \in Callers, Expire(t) PROVE DeadlineInv'
  BY <1>1, <1>4 DEF Expire, procs, Stopping
<1>5. ASSUME NEW t \in Callers, Acquire(t) PROVE DeadlineInv'
  BY <1>1, <1>5 DEF Acquire, procs, Stopping
<1>6. ASSUME NEW t \in Callers, LockTimeout(t) \/ StartTooLate(t) PROVE DeadlineInv'
  BY <1>1, <1>6 DEF LockTimeout, StartTooLate, procs, Stopping
<1>7. ASSUME NEW t \in Callers, EnsureStarted(t) PROVE DeadlineInv'
  BY <1>1, <1>7 DEF EnsureStarted, procs, Stopping, SoloInv, WireInv
<1>8. ASSUME NEW t \in Callers, Reuse(t) PROVE DeadlineInv'
  BY <1>1, <1>8 DEF Reuse, procs, Stopping
<1>9. ASSUME NEW t \in Callers, Respawn(t) PROVE DeadlineInv'
  BY <1>1, <1>9 DEF Respawn, procs, Stopping, SoloInv, ChildInv
<1>10. ASSUME NEW t \in Callers, ProbeClosed(t) PROVE DeadlineInv'
  BY <1>1, <1>10 DEF ProbeClosed, procs, Stopping
<1>11. ASSUME NEW t \in Callers, Spawn(t) PROVE DeadlineInv'
  <2>1. /\ spawned' = spawned + 1 /\ current' = spawned + 1
        /\ gen' = [gen EXCEPT ![t] = spawned + 1]
        /\ pc' = [pc EXCEPT ![t] = "send"] /\ pc[t] = "spawn"
        /\ alive' = [alive EXCEPT ![spawned + 1] = TRUE]
        /\ UNCHANGED <<expired, outcome, then>>
    BY <1>11 DEF Spawn
  <2>2. \A u \in Callers \ {t} : gen'[u] = gen[u] /\ pc'[u] = pc[u]
                                /\ (Lives(gen[u]) <=> Lives(gen[u])')
    BY <1>1, <2>1
  <2>3. /\ gen'[t] = spawned + 1 /\ pc'[t] = "send" /\ outcome'[t] = "none"
    BY <1>1, <2>1
  <2>4. \A u \in Callers \ {t} : pc[u] \in {"idle", "lock", "done"}
    BY <1>1, <1>2, <2>1
  <2> QED
    BY <1>1, <2>1, <2>2, <2>3, <2>4 DEF Stopping
<1>12. ASSUME NEW t \in Callers, SpawnFails(t) PROVE DeadlineInv'
  BY <1>1, <1>12 DEF SpawnFails, procs, Stopping
<1>13. ASSUME NEW t \in Callers, Send(t) PROVE DeadlineInv'
  BY <1>1, <1>13 DEF Send, procs, Stopping
<1>14. ASSUME NEW t \in Callers, SendFails(t) PROVE DeadlineInv'
  BY <1>1, <1>14 DEF SendFails, procs, Stopping, SoloInv, ChildInv, WireInv
<1>15. ASSUME NEW t \in Callers, AwaitTimeout(t) PROVE DeadlineInv'
  BY <1>1, <1>15 DEF AwaitTimeout, procs, Stopping, SoloInv, ChildInv
<1>16. ASSUME NEW t \in Callers, Receive(t) PROVE DeadlineInv'
  <2>1. CASE Head(outbox[gen[t]]).id = id[t]
    <3>1. Head(outbox[gen[t]]).status \notin {"timeout", "crashed"}
      <4>1. outbox[gen[t]] \in Seq([id : Nat, status : {"ok", "error"}])
            /\ outbox[gen[t]] # <<>>
        BY <1>1, <1>16 DEF Receive, Usable, TypeOK
      <4>2. Head(outbox[gen[t]]) \in [id : Nat, status : {"ok", "error"}]
        BY <4>1, HeadTailProperties
      <4> QED
        BY <4>2
    <3> QED
      BY <1>1, <1>16, <2>1, <3>1 DEF Receive, procs, Stopping
  <2>2. CASE Head(outbox[gen[t]]).id # id[t]
    BY <1>1, <1>16, <2>2 DEF Receive, procs
  <2> QED
    BY <2>1, <2>2
<1>17. ASSUME NEW t \in Callers, AwaitCrash(t) PROVE DeadlineInv'
  BY <1>1, <1>17 DEF AwaitCrash, procs, Stopping, SoloInv, ChildInv
<1>18. ASSUME NEW t \in Callers, AwaitClosed(t) PROVE DeadlineInv'
  BY <1>1, <1>18 DEF AwaitClosed, procs, Stopping
<1>19. ASSUME NEW t \in Threads, StopTake(t) PROVE DeadlineInv'
  BY <1>1, <1>19 DEF StopTake, procs, Stopping
<1>20. ASSUME NEW t \in Threads, StopClear(t) PROVE DeadlineInv'
  BY <1>1, <1>2, <1>20 DEF StopClear, procs, Stopping
<1>21. ASSUME NEW t \in Threads, StopTerminate(t) \/ StopKill(t) PROVE DeadlineInv'
  BY <1>1, <1>21 DEF StopTerminate, StopKill, Stopping
<1>22. ASSUME NEW t \in Threads, StopClosed(t) PROVE DeadlineInv'
  BY <1>1, <1>22 DEF StopClosed, procs, Stopping
<1>23. ASSUME NEW t \in Threads, StopClose(t) PROVE DeadlineInv'
  BY <1>1, <1>23 DEF StopClose, Stopping
<1>24. ASSUME NEW g \in Child, ServeStep(g) PROVE DeadlineInv'
  <2>1. \A h \in Child : alive'[h] => alive[h]
    BY <1>1, <1>24 DEF ServeStep, ServeReceive, ServeReply, ServeExit, ChildDies, Ends
  <2>2. UNCHANGED <<spawned, current, pc, expired, outcome, gen, then>>
    BY <1>24 DEF ServeStep, ServeReceive, ServeReply, ServeExit, ChildDies, Unaffected
  <2>3. \A t \in Callers : gen[t] # 0 => gen[t] \in Child
    BY DEF TypeOK, Threads
  <2> QED
    BY <2>1, <2>2, <2>3
<1>25. ASSUME NEW t \in Closers, Shutdown(t) \/ CloserStep(t) PROVE DeadlineInv'
  <2>1. \A u \in Callers : pc'[u] = pc[u] /\ gen'[u] = gen[u]
                            /\ outcome'[u] = outcome[u] /\ then'[u] = then[u]
    BY <1>1, <1>25 DEF Shutdown, CloserStep, ShutdownRead, Farewell, FarewellClosed
  <2>2. UNCHANGED <<spawned, current, alive, expired>>
    BY <1>25 DEF Shutdown, CloserStep, ShutdownRead, Farewell, FarewellClosed, procs
  <2> QED
    BY <2>1, <2>2
<1> QED
  BY <1>1, <1>3, <1>4, <1>5, <1>6, <1>7, <1>8, <1>9, <1>10, <1>11, <1>12,
     <1>13, <1>14, <1>15, <1>16, <1>17, <1>18, <1>19, <1>20, <1>21, <1>22,
     <1>23, <1>24, <1>25
  DEF Next, CallerStep, StopStep

\* A child is signalled only by the thread that stops it.
LEMMA SignalsOfOwner ==
  ASSUME TypeOK, LockInv, Patient, Next,
         NEW t \in Callers, pc[t] = "await"
  PROVE  signal'[gen[t]] = signal[gen[t]]
<1>1. CASE \E u \in Threads : StopTerminate(u) \/ StopKill(u)
  BY <1>1, WorkerAssumption DEF LockInv, Patient, Threads, StopTerminate, StopKill, Go
<1>2. CASE UNCHANGED signal
  BY <1>2
<1> QED
  BY <1>1, <1>2 DEF Next, CallerStep, CloserStep, StopStep, ServeStep, Ask, Expire,
     Shutdown, ShutdownRead, Farewell, FarewellClosed,
     Acquire, LockTimeout, StartTooLate, EnsureStarted, Reuse, Respawn,
     ProbeClosed, Spawn, SpawnFails, Send, SendFails, AwaitTimeout, Receive,
     AwaitCrash, AwaitClosed, StopTake, StopClear, StopClosed, StopClose,
     ServeReceive, ServeExit, ChildDies, ServeReply, Unaffected, procs

\* The worker is not touched before the deadline of the request it serves; a
\* timeout is reported after that deadline only, and a crash only of a child
\* that has gone (run, _await_reply), unless a shutdown goes on without the lock.
THEOREM DeadlinesAreOwn == Spec /\ []Patient => OwnDeadline
<1>1. Init => DeadlineInv
  BY WorkerAssumption DEF Init, DeadlineInv, Stopping, Threads
<1>2. TypeOK /\ LockInv /\ Patient /\ Patient' /\ SoloInv /\ DeadlineInv /\ [Next]_vars
      => DeadlineInv'
  <2> SUFFICES ASSUME TypeOK, LockInv, Patient, Patient', SoloInv, DeadlineInv, [Next]_vars
               PROVE  DeadlineInv'
    OBVIOUS
  <2>1. CASE Next
    BY <2>1, DeadlineStep
  <2>2. CASE UNCHANGED vars
    BY <2>2 DEF vars, procs, DeadlineInv, Lives
  <2> QED
    BY <2>1, <2>2
<1> DEFINE Own == \A t \in Callers :
       /\ pc[t] = "await" /\ ~expired[t] => signal'[gen[t]] = signal[gen[t]]
       /\ outcome'[t] = "timeout" => expired'[t]
       /\ outcome'[t] = "crashed" => gen'[t] = 0 \/ ~alive'[gen'[t]]
<1>3. TypeOK /\ LockInv /\ Patient /\ DeadlineInv' /\ [Next]_vars => [Own]_vars
  <2> SUFFICES ASSUME TypeOK, LockInv, Patient, DeadlineInv', Next PROVE Own
    OBVIOUS
  <2>1. \A t \in Callers : pc[t] = "await" => signal'[gen[t]] = signal[gen[t]]
    BY SignalsOfOwner
  <2>2. \A t \in Callers :
          /\ outcome'[t] = "timeout" => expired'[t]
          /\ outcome'[t] = "crashed" => gen'[t] = 0 \/ ~alive'[gen'[t]]
    BY DEF DeadlineInv, Lives
  <2> QED
    BY <2>1, <2>2
<1> QED
  BY <1>1, <1>2, <1>3, TypeCorrect, LockHeld, SoloSafety, PTL DEF Spec, OwnDeadline

=============================================================================
