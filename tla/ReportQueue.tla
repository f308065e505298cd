---------------------------- MODULE ReportQueue ----------------------------
(***************************************************************************)
(* What the offline queue of the install scripts promises, with no files   *)
(* and no lock: a queue that grows at its tail, one report at a time, and  *)
(* shrinks at its head only by reports that the server has stored or that  *)
(* were put aside because the server refuses them.                         *)
(***************************************************************************)
EXTENDS Naturals, Sequences

CONSTANTS
  Report,     \* the reports there can be
  Malformed,  \* those the server refuses
  Backlog     \* the reports queued by earlier scripts

VARIABLES
  queue,   \* reports waiting for the next script
  stored,  \* reports the server has
  dead     \* reports put aside

vars == <<queue, stored, dead>>

Waiting == {queue[n] : n \in DOMAIN queue}

Init ==
  /\ queue = Backlog
  /\ stored = {}
  /\ dead = {}

Enqueue(r) ==
  /\ r \notin Waiting
  /\ queue' = Append(queue, r)
  /\ UNCHANGED <<stored, dead>>

Store(r) ==
  /\ r \notin Malformed
  /\ stored' = stored \cup {r}
  /\ UNCHANGED <<queue, dead>>

PutAside(r) ==
  /\ r \in Malformed
  /\ dead' = dead \cup {r}
  /\ UNCHANGED <<queue, stored>>

\* The first n reports are through.
Remove(n) ==
  /\ \A m \in 1 .. n : queue[m] \in stored \cup dead
  /\ queue' = SubSeq(queue, n + 1, Len(queue))
  /\ UNCHANGED <<stored, dead>>

Next ==
  \/ \E r \in Report : Enqueue(r) \/ Store(r) \/ PutAside(r)
  \/ \E n \in 1 .. Len(queue) : Remove(n)

Spec == Init /\ [][Next]_vars
=============================================================================
