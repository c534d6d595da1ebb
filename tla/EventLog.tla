------------------------------ MODULE EventLog ------------------------------
(***************************************************************************)
(* What the ingest pipeline promises to the rest of the system, whatever   *)
(* its workers, caches and retries do: an append-only log of event rows.   *)
(* One delivery of a task contributes its rows in a single step, and hands *)
(* all of them to detection in a single later step, if it hands any.       *)
(*                                                                         *)
(* A row is <<task, delivery number, position in the batch>>.              *)
(***************************************************************************)
VARIABLES
  log,     \* rows visible to readers
  handed   \* rows named by a published detection task

SameDelivery(r, s) == r[1] = s[1] /\ r[2] = s[2]

Init == log = {} /\ handed = {}

\* The rows of a delivery appear together, and once.
Append ==
  /\ log \subseteq log' /\ log' # log
  /\ \A r, s \in log' \ log : SameDelivery(r, s)
  /\ \A r \in log' \ log, s \in log : ~SameDelivery(r, s)
  /\ UNCHANGED handed

\* Detection is given exactly the rows that a delivery appended.
Handoff ==
  /\ \E r \in log : handed' = handed \cup {s \in log : SameDelivery(r, s)}
  /\ UNCHANGED log

Next == Append \/ Handoff

Spec == Init /\ [][Next]_<<log, handed>>
=============================================================================
