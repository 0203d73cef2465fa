----------------------------- MODULE QueueScan -----------------------------
(***************************************************************************)
(* The scheduling policy of TaskQueue.next (tasks/queue.py): one queue per *)
(* requester, a single consumer, and a scan that starts at the head of the *)
(* dict of queues on every call.  Task ids, the database and the wakeup    *)
(* event are abstracted away (module TaskQueue has them); what is left is  *)
(* finite however long the system runs, which is what a question about     *)
(* starvation needs.                                                       *)
(***************************************************************************)
EXTENDS Naturals, Sequences

CONSTANTS
  Requester,
  Capacity   \* bound: tasks one requester has waiting

VARIABLES
  backlog,   \* tasks waiting per requester
  order,     \* requesters in the insertion order of the dict
  serving    \* the requester whose task is being dispatched: {} or {r}

vars == <<backlog, order, serving>>

Idle == [r \in Requester |-> 0]

Listed(r) == \E i \in DOMAIN order : order[i] = r

Init == backlog = Idle /\ order = <<>> /\ serving = {}

(* A task of r is put in its queue, by enqueue or by replay_pending. *)
Arrive(r) ==
  /\ backlog[r] < Capacity
  /\ backlog' = [backlog EXCEPT ![r] = @ + 1]
  /\ order' = IF Listed(r) THEN order ELSE Append(order, r)
  /\ UNCHANGED serving

(* next(): the first requester of the dict with a waiting task. *)
First(r) ==
  \E i \in DOMAIN order :
    /\ order[i] = r
    /\ backlog[r] > 0
    /\ \A j \in 1..(i - 1) : backlog[order[j]] = 0

Serve(r) ==
  /\ serving = {}
  /\ First(r)
  /\ backlog' = [backlog EXCEPT ![r] = @ - 1]
  /\ serving' = {r}
  /\ UNCHANGED order

(* The database refuses the look or the update after get_nowait: the task   *)
(* has left its queue and is served by nobody.                              *)
Drop(r) ==
  /\ serving = {}
  /\ First(r)
  /\ backlog' = [backlog EXCEPT ![r] = @ - 1]
  /\ UNCHANGED <<order, serving>>

Finish ==
  /\ serving # {}
  /\ serving' = {}
  /\ UNCHANGED <<backlog, order>>

(* The process stops: everything in memory is gone. *)
Restart ==
  /\ backlog' = Idle
  /\ order' = <<>>
  /\ serving' = {}

Consume == Finish \/ \E r \in Requester : Serve(r)

Run == Consume \/ \E r \in Requester : Arrive(r)

Next == Run \/ Restart \/ \E r \in Requester : Drop(r)

Spec == Init /\ [][Next]_vars

(* One life of the process, with a worker that never stops for good. *)
FairSpec == Init /\ [][Run]_vars /\ WF_vars(Consume)

-----------------------------------------------------------------------------
(* tasks/queue.py:3 "so one user's backlog never starves another": whoever  *)
(* has a task waiting is eventually served.                                 *)
NoStarvation ==
  \A r \in Requester : (backlog[r] > 0) ~> (serving = {r})
=============================================================================
