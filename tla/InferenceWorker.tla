-------------------------- MODULE InferenceWorker --------------------------
(***************************************************************************)
(* The restartable inference process of orchestrator/worker.py: request    *)
(* threads that share one child process behind a lock, each with its own   *)
(* deadline, and the threads that shut the worker down.                    *)
(*                                                                         *)
(* The n-th child process is n, and 0 stands for None.  A deadline is the  *)
(* fact that it has passed; it is raised at the points where the code next *)
(* looks at its clock.  A join with a timeout returns at any time, whether *)
(* the process has ended or not.  _process and _conn are set and cleared   *)
(* together and are one variable, current.                                 *)
(***************************************************************************)
EXTENDS Naturals, Sequences

CONSTANTS
  Callers,      \* threads that call run()
  Closers,      \* threads that call shutdown()
  None,         \* nobody
  MaxRequests   \* bound on the requests ever made

ASSUME WorkerAssumption ==
  /\ Callers \cap Closers = {}
  /\ None \notin Callers \cup Closers
  /\ MaxRequests \in Nat

Threads == Callers \cup Closers
Child == 1 .. MaxRequests    \* a request starts at most one child

VARIABLES
  lock,                    \* _lock
  current,                 \* _process and _conn
  spawned,                 \* children started so far
  alive, signal, handle,   \* of a child: runs, is signalled, Process is open
  pipe,                    \* the parent's end of its connection is open
  inbox, outbox,           \* messages in its connection, either way
  busy,                    \* the request it infers
  asked, nextId,           \* requests made so far; _request_ids
  pc, expired, outcome,    \* of a thread
  gen, id,                 \* its locals conn and process, and request_id
  then                     \* what it does once _stop is over

procs == <<spawned, alive, signal, handle, pipe>>
wire  == <<inbox, outbox, busy>>
calls == <<asked, nextId>>
vars  == <<lock, current, procs, wire, calls, pc, expired, outcome, gen, id,
           then>>

Lives(g)  == g # 0 /\ alive[g]
Usable(g) == g # 0 /\ handle[g]       \* Process methods do not raise ValueError
Runs(g)   == alive[g] /\ signal[g] # "kill"

-----------------------------------------------------------------------------
Init ==
  /\ lock = None /\ current = 0 /\ spawned = 0
  /\ alive = [g \in Child |-> FALSE] /\ signal = [g \in Child |-> "none"]
  /\ handle = [g \in Child |-> FALSE] /\ pipe = [g \in Child |-> FALSE]
  /\ inbox = [g \in Child |-> <<>>] /\ outbox = [g \in Child |-> <<>>]
  /\ busy = [g \in Child |-> 0]
  /\ asked = 0 /\ nextId = 1
  /\ pc = [t \in Threads |-> "idle"] /\ expired = [t \in Threads |-> FALSE]
  /\ outcome = [t \in Threads |-> "none"]
  /\ gen = [t \in Threads |-> 0] /\ id = [t \in Threads |-> 0]
  /\ then = [t \in Threads |-> "none"]

Go(t, from, to) == pc[t] = from /\ pc' = [pc EXCEPT ![t] = to]

\* Mutant: the lock is released whether this thread has it or not.
MutLeave(t, how) ==
  /\ pc' = [pc EXCEPT ![t] = IF t \in Callers THEN "idle" ELSE "done"]
  /\ outcome' = [outcome EXCEPT ![t] = how]
  /\ lock' = None

\* The thread leaves run or shutdown, and its lock if it has it.
Leave(t, how) ==
  /\ pc' = [pc EXCEPT ![t] = IF t \in Callers THEN "idle" ELSE "done"]
  /\ outcome' = [outcome EXCEPT ![t] = how]
  /\ lock' = IF lock = t THEN None ELSE lock

\* The thread calls _stop and goes on with next.
Stop(t, next) ==
  /\ pc' = [pc EXCEPT ![t] = "take"]
  /\ then' = [then EXCEPT ![t] = next]

Ends(g) == alive' = [alive EXCEPT ![g] = FALSE]

-----------------------------------------------------------------------------
(* run and _ensure_started.                                                *)

Ask(t) ==
  /\ asked < MaxRequests
  /\ Go(t, "idle", "lock")
  /\ asked' = asked + 1
  /\ expired' = [expired EXCEPT ![t] = FALSE]
  /\ outcome' = [outcome EXCEPT ![t] = "none"]
  /\ UNCHANGED <<lock, current, procs, wire, nextId, gen, id, then>>

\* The deadline of a request passes while it waits for the lock or a reply.
Expire(t) ==
  /\ pc[t] \in {"lock", "await"} /\ ~expired[t]
  /\ expired' = [expired EXCEPT ![t] = TRUE]
  /\ UNCHANGED <<lock, current, procs, wire, calls, pc, outcome, gen, id, then>>

Acquire(t) ==
  /\ lock = None
  /\ Go(t, "lock", "start")
  /\ lock' = t
  /\ UNCHANGED <<current, procs, wire, calls, expired, outcome, gen, id, then>>

\* Mutant: a caller that never got the lock stops the worker.
MutLockTimeout(t) ==
  /\ expired[t] /\ pc[t] = "lock"
  /\ Stop(t, "timeout")
  /\ UNCHANGED <<lock, current, procs, wire, calls, expired, outcome, gen, id>>

\* Someone else's job holds the worker until the deadline.
LockTimeout(t) ==
  /\ expired[t] /\ pc[t] = "lock"
  /\ Leave(t, "timeout")
  /\ UNCHANGED <<current, procs, wire, calls, expired, gen, id, then>>

\* The lock came too late: remaining <= 0.
StartTooLate(t) ==
  /\ expired[t] /\ pc[t] = "start"
  /\ Leave(t, "timeout")
  /\ UNCHANGED <<current, procs, wire, calls, expired, gen, id, then>>

\* _ensure_started reads _process; what it found is in gen.
EnsureStarted(t) ==
  /\ ~expired[t]
  /\ Go(t, "start", "probe")
  /\ gen' = [gen EXCEPT ![t] = current]
  /\ UNCHANGED <<lock, current, procs, wire, calls, expired, outcome, id, then>>

\* The worker that is alive serves this request too.
Reuse(t) ==
  /\ Go(t, "probe", "send")
  /\ Usable(gen[t]) /\ Lives(gen[t]) /\ current = gen[t]
  /\ UNCHANGED <<lock, current, procs, wire, calls, expired, outcome, gen, id,
                 then>>

\* There is no worker, or it died between requests, or its connection was
\* cleared: reap what is there and start one.
Respawn(t) ==
  /\ pc[t] = "probe"
  /\ gen[t] # 0 =>
       handle[gen[t]] /\ ~(alive[gen[t]] /\ current = gen[t])
  /\ Stop(t, "spawn")
  /\ UNCHANGED <<lock, current, procs, wire, calls, expired, outcome, gen, id>>

\* shutdown closed the Process that was read, whose is_alive() raises, or
\* cleared _conn before it was read again.
ProbeClosed(t) ==
  /\ pc[t] = "probe" /\ gen[t] # 0
  /\ ~handle[gen[t]] \/ current # gen[t]
  /\ Leave(t, "raw")
  /\ UNCHANGED <<current, procs, wire, calls, expired, gen, id, then>>

Spawn(t) ==
  LET g == spawned + 1
  IN  /\ g \in Child
      /\ Go(t, "spawn", "send")
      /\ spawned' = g /\ current' = g
      /\ alive' = [alive EXCEPT ![g] = TRUE]
      /\ handle' = [handle EXCEPT ![g] = TRUE]
      /\ pipe' = [pipe EXCEPT ![g] = TRUE]
      /\ gen' = [gen EXCEPT ![t] = g]
      /\ UNCHANGED <<lock, signal, wire, calls, expired, outcome, id, then>>

\* No process can be started: the OSError leaves run as it is.
SpawnFails(t) ==
  /\ pc[t] = "spawn"
  /\ Leave(t, "unstarted")
  /\ UNCHANGED <<current, procs, wire, calls, expired, gen, id, then>>

Send(t) ==
  /\ Go(t, "send", "await")
  /\ Lives(gen[t]) /\ pipe[gen[t]]
  /\ inbox' = [inbox EXCEPT ![gen[t]] = Append(@, nextId)]
  /\ id' = [id EXCEPT ![t] = nextId]
  /\ nextId' = nextId + 1
  /\ UNCHANGED <<lock, current, procs, outbox, busy, asked, expired, outcome,
                 gen, then>>

\* The child has gone, or shutdown closed the connection.
SendFails(t) ==
  /\ pc[t] = "send" /\ ~(Lives(gen[t]) /\ pipe[gen[t]])
  /\ Stop(t, "crashed")
  /\ id' = [id EXCEPT ![t] = nextId]
  /\ nextId' = nextId + 1
  /\ UNCHANGED <<lock, current, procs, wire, asked, expired, outcome, gen>>

-----------------------------------------------------------------------------
(* _await_reply.                                                           *)

\* Mutant: the deadline is looked at only when something has arrived.
MutAwaitTimeoutLate(t) ==
  /\ expired[t] /\ pc[t] = "await" /\ outbox[gen[t]] # <<>>
  /\ Stop(t, "timeout")
  /\ UNCHANGED <<lock, current, procs, wire, calls, expired, outcome, gen, id>>

\* Mutant: the loop gives up and leaves the worker to its job.
MutAwaitTimeout(t) ==
  /\ expired[t] /\ pc[t] = "await"
  /\ Leave(t, "timeout")
  /\ UNCHANGED <<current, procs, wire, calls, expired, gen, id, then>>

\* The deadline passes first: the worker is stopped with what it runs.
AwaitTimeout(t) ==
  /\ expired[t] /\ pc[t] = "await"
  /\ Stop(t, "timeout")
  /\ UNCHANGED <<lock, current, procs, wire, calls, expired, outcome, gen, id>>

\* A reply to this request ends it, even if the deadline passes meanwhile; a
\* stale one is dropped.
Receive(t) ==
  /\ pc[t] = "await" /\ Usable(gen[t]) /\ pipe[gen[t]]
  /\ outbox[gen[t]] # <<>>
  /\ outbox' = [outbox EXCEPT ![gen[t]] = Tail(@)]
  /\ IF Head(outbox[gen[t]]).id = id[t]
     THEN Leave(t, Head(outbox[gen[t]]).status)
     ELSE UNCHANGED <<lock, pc, outcome>>
  /\ UNCHANGED <<current, procs, inbox, busy, calls, expired, gen, id, then>>

\* End of file or the sentinel: the child died without a reply.
AwaitCrash(t) ==
  /\ pc[t] = "await" /\ Usable(gen[t]) /\ ~alive[gen[t]]
  /\ outbox[gen[t]] = <<>> \/ ~pipe[gen[t]]
  /\ Stop(t, "crashed")
  /\ UNCHANGED <<lock, current, procs, wire, calls, expired, outcome, gen, id>>

\* shutdown closed the Process or the connection under this request.
AwaitClosed(t) ==
  /\ pc[t] = "await" /\ ~(Usable(gen[t]) /\ pipe[gen[t]])
  /\ Leave(t, "raw")
  /\ UNCHANGED <<current, procs, wire, calls, expired, gen, id, then>>

-----------------------------------------------------------------------------
(* _stop.  While it runs, gen is its local process.                        *)

\* Mutant: the fields keep the stopped worker.
MutStopClear(t) ==
  /\ Go(t, "clear", "terminate")
  /\ UNCHANGED <<lock, current, procs, wire, calls, expired, outcome, gen, id,
                 then>>

StopTake(t) ==
  /\ Go(t, "take", "clear")
  /\ gen' = [gen EXCEPT ![t] = current]
  /\ UNCHANGED <<lock, current, procs, wire, calls, expired, outcome, id, then>>

StopClear(t) ==
  /\ Go(t, "clear", "terminate")
  /\ current' = 0
  /\ UNCHANGED <<lock, procs, wire, calls, expired, outcome, gen, id, then>>

\* Mutant: only an idle child is told to end.
MutStopTerminate(t) ==
  /\ pc[t] = "terminate" /\ (gen[t] = 0 \/ Usable(gen[t]))
  /\ Go(t, "terminate", "close")
  /\ signal' = [g \in Child |-> IF g = gen[t] /\ Lives(g) /\ busy[g] = 0
                                THEN "term" ELSE signal[g]]
  /\ UNCHANGED <<lock, current, spawned, alive, handle, pipe, wire, calls,
                 expired, outcome, gen, id, then>>

StopTerminate(t) ==
  /\ pc[t] = "terminate" /\ (gen[t] = 0 \/ Usable(gen[t]))
  /\ Go(t, "terminate", IF Lives(gen[t]) THEN "kill" ELSE "close")
  /\ signal' = [g \in Child |-> IF g = gen[t] /\ Lives(g) /\ signal[g] = "none"
                                THEN "term" ELSE signal[g]]
  /\ UNCHANGED <<lock, current, spawned, alive, handle, pipe, wire, calls,
                 expired, outcome, gen, id, then>>

\* After the grace period a child that is still alive is killed.
StopKill(t) ==
  /\ Usable(gen[t])
  /\ Go(t, "kill", "close")
  /\ signal' = [signal EXCEPT ![gen[t]] = IF Lives(gen[t]) THEN "kill" ELSE @]
  /\ UNCHANGED <<lock, current, spawned, alive, handle, pipe, wire, calls,
                 expired, outcome, gen, id, then>>

\* is_alive() on a Process that another _stop closed.
StopClosed(t) ==
  /\ pc[t] \in {"terminate", "kill"} /\ gen[t] # 0 /\ ~handle[gen[t]]
  /\ Leave(t, "raw")
  /\ UNCHANGED <<current, procs, wire, calls, expired, gen, id, then>>

\* The Process is closed unless it still runs; the connection always is.
StopClose(t) ==
  /\ pc[t] = "close"
  /\ handle' = [g \in Child |-> IF g = gen[t] THEN alive[g] /\ handle[g]
                                ELSE handle[g]]
  /\ pipe' = [g \in Child |-> pipe[g] /\ g # gen[t]]
  /\ IF then[t] = "spawn"
     THEN pc' = [pc EXCEPT ![t] = "spawn"] /\ UNCHANGED <<lock, outcome>>
     ELSE Leave(t, then[t])
  /\ UNCHANGED <<current, spawned, alive, signal, wire, calls, expired, gen, id,
                 then>>

-----------------------------------------------------------------------------
(* shutdown.                                                               *)

\* It waits for the lock, and goes on without it when the wait is over.
Shutdown(t) ==
  /\ Go(t, "idle", "read")
  /\ lock' = IF lock = None THEN t ELSE lock
  /\ UNCHANGED <<current, procs, wire, calls, expired, outcome, gen, id, then>>

ShutdownRead(t) ==
  /\ Go(t, "read", "farewell")
  /\ gen' = [gen EXCEPT ![t] = current]
  /\ UNCHANGED <<lock, current, procs, wire, calls, expired, outcome, id, then>>

\* It asks a live child to exit, waits for it, and stops it.
Farewell(t) ==
  /\ pc[t] = "farewell" /\ (gen[t] # 0 => handle[gen[t]])
  /\ inbox' = [g \in Child |-> IF g = gen[t] /\ alive[g] /\ pipe[g]
                               THEN Append(inbox[g], 0) ELSE inbox[g]]
  /\ Stop(t, "closed")
  /\ UNCHANGED <<lock, current, procs, outbox, busy, calls, expired, outcome,
                 gen, id>>

FarewellClosed(t) ==
  /\ pc[t] = "farewell" /\ gen[t] # 0 /\ ~handle[gen[t]]
  /\ Leave(t, "raw")
  /\ UNCHANGED <<current, procs, wire, calls, expired, gen, id, then>>

-----------------------------------------------------------------------------
(* _serve, in the child.                                                   *)

Unaffected == UNCHANGED <<lock, current, spawned, signal, handle, pipe, calls, pc,
                          expired, outcome, gen, id, then>>

\* The child takes the next message, if it is a request.
ServeReceive(g) ==
  /\ Runs(g) /\ busy[g] = 0
  /\ inbox[g] # <<>> /\ Head(inbox[g]) # 0
  /\ busy' = [busy EXCEPT ![g] = Head(inbox[g])]
  /\ inbox' = [inbox EXCEPT ![g] = Tail(@)]
  /\ UNCHANGED <<alive, outbox>> /\ Unaffected

\* The result, or the exception infer raised, is sent back.
ServeReply(g, status) ==
  /\ Runs(g) /\ busy[g] # 0 /\ pipe[g]
  /\ outbox' = [outbox EXCEPT ![g] = Append(@, [id |-> busy[g],
                                                status |-> status])]
  /\ busy' = [busy EXCEPT ![g] = 0]
  /\ UNCHANGED <<alive, inbox>> /\ Unaffected

\* The parent went away or asks the child to exit.
ServeExit(g) ==
  /\ Runs(g)
  /\ \/ busy[g] = 0 /\ inbox[g] # <<>> /\ Head(inbox[g]) = 0
     \/ busy[g] = 0 /\ inbox[g] = <<>> /\ ~pipe[g]
     \/ busy[g] # 0 /\ ~pipe[g]
  /\ Ends(g)
  /\ UNCHANGED wire /\ Unaffected

\* A segmentation fault, os._exit, the OOM killer, or the signal it was sent.
ChildDies(g) ==
  /\ alive[g] /\ Ends(g)
  /\ UNCHANGED wire /\ Unaffected

Killed(g) == signal[g] = "kill" /\ ChildDies(g)

-----------------------------------------------------------------------------
CallerStep(t) ==
  \/ Acquire(t) \/ LockTimeout(t) \/ StartTooLate(t)
  \/ EnsureStarted(t) \/ Reuse(t) \/ Respawn(t) \/ ProbeClosed(t)
  \/ Spawn(t) \/ SpawnFails(t) \/ Send(t) \/ SendFails(t)
  \/ AwaitTimeout(t) \/ Receive(t) \/ AwaitCrash(t) \/ AwaitClosed(t)

StopStep(t) ==
  StopTake(t) \/ StopClear(t) \/ StopTerminate(t) \/ StopKill(t)
  \/ StopClosed(t) \/ StopClose(t)

CloserStep(t) == ShutdownRead(t) \/ Farewell(t) \/ FarewellClosed(t)

ServeStep(g) ==
  \/ ServeReceive(g) \/ ServeExit(g) \/ ChildDies(g)
  \/ \E status \in {"ok", "error"} : ServeReply(g, status)

Next ==
  \/ \E t \in Callers : Ask(t) \/ Expire(t) \/ CallerStep(t)
  \/ \E t \in Closers : Shutdown(t) \/ CloserStep(t)
  \/ \E t \in Threads : StopStep(t)
  \/ \E g \in Child : ServeStep(g)

\* Threads run, deadlines pass and a killed process ends.  A child may hang,
\* and nobody need make a request or shut the worker down.
Fairness ==
  /\ \A t \in Callers : WF_vars(Expire(t)) /\ WF_vars(CallerStep(t))
  /\ \A t \in Closers : WF_vars(CloserStep(t))
  /\ \A t \in Threads : WF_vars(StopStep(t))
  /\ \A g \in Child : WF_vars(Killed(g))

Spec == Init /\ [][Next]_vars
FairSpec == Spec /\ Fairness

-----------------------------------------------------------------------------
(* Correctness.                                                            *)

\* Every variable holds what its code counterpart may hold.
TypeOK ==
  /\ lock \in Threads \cup {None}
  /\ current \in {0} \cup Child /\ spawned \in {0} \cup Child
  /\ alive \in [Child -> BOOLEAN] /\ handle \in [Child -> BOOLEAN]
  /\ signal \in [Child -> {"none", "term", "kill"}]
  /\ pipe \in [Child -> BOOLEAN]
  /\ inbox \in [Child -> Seq(Nat)] /\ busy \in [Child -> Nat]
  /\ outbox \in [Child -> Seq([id : Nat, status : {"ok", "error"}])]
  /\ asked \in 0 .. MaxRequests /\ nextId \in Nat
  /\ pc \in [Threads -> {"idle", "lock", "start", "probe", "spawn", "send",
                         "await", "take", "clear", "terminate", "kill", "close",
                         "read", "farewell", "done"}]
  /\ expired \in [Threads -> BOOLEAN]
  /\ outcome \in [Threads -> {"none", "ok", "error", "timeout", "crashed",
                              "unstarted", "closed", "raw"}]
  /\ gen \in [Threads -> {0} \cup Child] /\ id \in [Threads -> Nat]
  /\ then \in [Threads -> {"none", "spawn", "timeout", "crashed", "closed"}]

\* "One request runs at a time per worker (guarded by a lock)", whatever times
\* out and whoever shuts the worker down meanwhile.
OneAtATime ==
  \A t, u \in Callers :
    {pc[t], pc[u]} \subseteq {"start", "probe", "spawn", "send", "await"} => t = u

\* "One request runs at a time per worker": two children never infer at once,
\* so a worker that was given up on never shares the GPU with its successor.
OneInference ==
  \A g, h \in Child : Runs(g) /\ Runs(h) /\ busy[g] # 0 /\ busy[h] # 0 => g = h

\* "Stale reply; cannot normally happen": the reply a request finds in its
\* connection is its own, whatever timed out or crashed before it.
NoStaleReply ==
  \A t \in Callers :
    pc[t] = "await" /\ outbox[gen[t]] # <<>> => Head(outbox[gen[t]]).id = id[t]

\* "A caller that never got the lock times out without touching the worker":
\* the child that serves a request is not signalled before its deadline, the
\* request is told of a timeout only after that deadline, and of a crash only
\* when its child has really gone.
OwnDeadline ==
  [][\A t \in Callers :
       /\ pc[t] = "await" /\ ~expired[t] => signal'[gen[t]] = signal[gen[t]]
       /\ outcome'[t] = "timeout" => expired'[t]
       /\ outcome'[t] = "crashed" => gen'[t] = 0 \/ ~alive'[gen'[t]]]_vars

\* Every request ends as documented: with its result, the model's error, a
\* timeout, a crash, or the OSError of a child that cannot be started.
DocumentedOutcome == \A t \in Callers : outcome[t] # "raw"

\* Every run and every shutdown comes to its end, even if the child hangs; and
\* a child that is no longer the worker ends, and gives its GPU memory back.
EveryCallEnds ==
  /\ \A t \in Threads : pc[t] \notin {"idle", "done"} ~> pc[t] \in {"idle", "done"}
  /\ \A g \in Child : (alive[g] /\ current # g) ~> ~alive[g]

=============================================================================
