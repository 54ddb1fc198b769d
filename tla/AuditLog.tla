------------------------------ MODULE AuditLog ------------------------------
(***************************************************************************)
(* What the execution trace promises its callers, with no file, no fsync   *)
(* and no recovery: a log that grows at its end, whose acknowledged        *)
(* entries never move and are never forgotten.  An entry that was never    *)
(* acknowledged may be kept or may be forgotten, but only together with    *)
(* everything after it.                                                    *)
(***************************************************************************)
EXTENDS Naturals, Sequences

CONSTANT Entry

VARIABLES
  log,   \* the history that the next process to load the trace will see
  acked  \* <<position, entry>> of every acknowledged append

Holds(l, a) == a[1] \in DOMAIN l /\ l[a[1]] = a[2]

Init == log = <<>> /\ acked = {}

\* The log grows by one entry at its end.
Record ==
  /\ Len(log') = Len(log) + 1
  /\ SubSeq(log', 1, Len(log)) = log
  /\ log'[Len(log')] \in Entry
  /\ UNCHANGED acked

Acknowledge ==
  /\ log # <<>>
  /\ acked' = acked \cup {<<Len(log), log[Len(log)]>>}
  /\ UNCHANGED log

Forget(length) ==
  /\ log' = SubSeq(log, 1, length)
  /\ \A a \in acked : Holds(log', a)
  /\ UNCHANGED acked

Next ==
  \/ Record
  \/ Acknowledge
  \/ \E length \in 0 .. Len(log) : Forget(length)

Spec == Init /\ [][Next]_<<log, acked>>

=============================================================================
