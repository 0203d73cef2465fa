----------------------------- MODULE TaskQueue -----------------------------
(***************************************************************************)
(* The task queue of the process: the `tasks' table of the database        *)
(* (core/storage.py), the in-memory queues in front of it                  *)
(* (tasks/queue.py), the single worker that drains them (tasks/worker.py)  *)
(* and the start and stop of the process (app.py).                         *)
(*                                                                         *)
(* One action is one stretch of code between two points at which the event *)
(* loop may switch or the process may stop.  The rows of the table survive *)
(* a crash; the queues, their order, the wakeup event and the worker do    *)
(* not.                                                                    *)
(***************************************************************************)
EXTENDS Naturals, Sequences, FiniteSets, Selecting

CONSTANTS
  Requester,   \* the open_ids whose messages are queued
  MaxTasks,    \* bound: rows ever inserted in the tasks table
  MaxCrashes,  \* bound: times the process stops
  MaxFaults    \* bound: database errors that hit the worker

ASSUME TaskQueueAssumption ==
  /\ MaxTasks \in Nat
  /\ MaxCrashes \in Nat
  /\ MaxFaults \in Nat

VARIABLES
  tasks,     \* the tasks table; the index of a row is its id
  queues,    \* _queues[oid]: ids waiting in memory
  order,     \* the keys of the dict _queues, in insertion order
  wakeup,    \* the asyncio.Event _wakeup
  worker,    \* where the worker coroutine stands
  current,   \* the task the worker is dispatching, 0 if none
  phase,     \* of the process
  replayed,  \* rows replay_pending has looked at
  crashes, faults

table    == <<tasks>>
memory   == <<queues, order, wakeup>>
process  == <<worker, current, phase, replayed>>
counters == <<crashes, faults>>
vars     == <<table, memory, process, counters>>

Status == {"pending", "running", "done", "failed"}
Task   == [oid : Requester, status : Status, attempts : Nat]

TaskId == DOMAIN tasks

TypeOK ==
  /\ tasks \in Seq(Task)
  /\ Len(tasks) <= MaxTasks
  /\ queues \in [Requester -> Seq(Nat)]
  /\ order \in Seq(Requester)
  /\ wakeup \in BOOLEAN
  /\ worker \in {"off", "scanning", "waiting", "busy", "dead"}
  /\ current \in Nat
  /\ phase \in {"down", "replaying", "up"}
  /\ replayed \in Nat
  /\ crashes \in 0..MaxCrashes
  /\ faults \in 0..MaxFaults

-----------------------------------------------------------------------------
NoQueues == [r \in Requester |-> <<>>]

(* A new database; the process is not started yet. *)
Init ==
  /\ tasks = <<>>
  /\ queues = NoQueues
  /\ order = <<>>
  /\ wakeup = FALSE
  /\ worker = "off"
  /\ current = 0
  /\ phase = "down"
  /\ replayed = 0
  /\ crashes = 0
  /\ faults = 0

(* Mutant: the queue is a stack. *)
PutFirst(r, t) ==
  /\ queues' = [queues EXCEPT ![r] = <<t>> \o @]
  /\ order' = IF \E i \in DOMAIN order : order[i] = r THEN order ELSE Append(order, r)

(* _q(oid).put(tid): the defaultdict creates the queue at its first use,    *)
(* which is what places the requester in the scanning order.                *)
Put(r, t) ==
  /\ queues' = [queues EXCEPT ![r] = Append(@, t)]
  /\ order' = IF \E i \in DOMAIN order : order[i] = r THEN order ELSE Append(order, r)

(* Mutant: the scan starts at the requester who came last. *)
LastNonEmpty(r) ==
  \E i \in DOMAIN order :
    /\ order[i] = r
    /\ queues[r] # <<>>
    /\ \A j \in (i + 1)..Len(order) : queues[order[j]] = <<>>

(* The requester whose queue `next' finds first: the scan starts at the     *)
(* beginning of the dict on every call.                                     *)
FirstNonEmpty(r) ==
  \E i \in DOMAIN order :
    /\ order[i] = r
    /\ queues[r] # <<>>
    /\ \A j \in 1..(i - 1) : queues[order[j]] = <<>>

SetStatus(t, s) == tasks' = [tasks EXCEPT ![t].status = s]

-----------------------------------------------------------------------------
(* The process *)

(* Mutants: the running rows are not reset; and all that is not done is. *)
RecoverNothing ==
  /\ phase = "down"
  /\ phase' = "replaying"
  /\ replayed' = 0
  /\ UNCHANGED <<table, memory, worker, current, counters>>

RecoverUnfinished ==
  /\ phase = "down"
  /\ phase' = "replaying"
  /\ replayed' = 0
  /\ tasks' = [t \in TaskId |->
                 IF tasks[t].status # "done"
                 THEN [tasks[t] EXCEPT !.status = "pending"] ELSE tasks[t]]
  /\ UNCHANGED <<memory, worker, current, counters>>

(* First statement of replay_pending: running rows of the last life of the  *)
(* process become pending again.                                            *)
Recover ==
  /\ phase = "down"
  /\ phase' = "replaying"
  /\ replayed' = 0
  /\ tasks' = [t \in TaskId |->
                 IF tasks[t].status = "running"
                 THEN [tasks[t] EXCEPT !.status = "pending"] ELSE tasks[t]]
  /\ UNCHANGED <<memory, worker, current, counters>>

(* Mutant: the loop misses the first row. *)
ReplayFromSecond ==
  /\ phase = "replaying"
  /\ replayed < Len(tasks)
  /\ replayed' = replayed + 1
  /\ IF replayed > 0 /\ tasks[replayed + 1].status = "pending"
     THEN Put(tasks[replayed + 1].oid, replayed + 1)
     ELSE UNCHANGED <<queues, order>>
  /\ UNCHANGED <<table, wakeup, worker, current, phase, counters>>

(* One turn of the loop of replay_pending over the table in scheduled_at    *)
(* order, which is insertion order (the clock does not step back).          *)
ReplayNext ==
  /\ phase = "replaying"
  /\ replayed < Len(tasks)
  /\ replayed' = replayed + 1
  /\ IF tasks[replayed + 1].status = "pending"
     THEN Put(tasks[replayed + 1].oid, replayed + 1)
     ELSE UNCHANGED <<queues, order>>
  /\ UNCHANGED <<table, wakeup, worker, current, phase, counters>>

(* The end of replay_pending and of the startup hook: create_task(worker).  *)
Start ==
  /\ phase = "replaying"
  /\ replayed = Len(tasks)
  /\ phase' = "up"
  /\ worker' = "scanning"
  /\ wakeup' = (wakeup \/ \E r \in Requester : queues[r] # <<>>)
  /\ UNCHANGED <<table, queues, order, current, replayed, counters>>

(* The process is killed, or stops and cancels the worker at its await.     *)
Crash ==
  /\ phase # "down"
  /\ crashes < MaxCrashes
  /\ crashes' = crashes + 1
  /\ phase' = "down"
  /\ queues' = NoQueues
  /\ order' = <<>>
  /\ wakeup' = FALSE
  /\ worker' = "off"
  /\ current' = 0
  /\ UNCHANGED <<table, replayed, faults>>

-----------------------------------------------------------------------------
(* The producers: the webhook handler and the Slack adapter *)

(* Mutant: the wakeup is not set. *)
EnqueueQuietly(r) ==
  /\ phase = "up"
  /\ Len(tasks) < MaxTasks
  /\ tasks' = Append(tasks, [oid |-> r, status |-> "pending", attempts |-> 0])
  /\ Put(r, Len(tasks) + 1)
  /\ UNCHANGED <<wakeup, process, counters>>

Enqueue(r) ==
  /\ phase = "up"
  /\ Len(tasks) < MaxTasks
  /\ tasks' = Append(tasks, [oid |-> r, status |-> "pending", attempts |-> 0])
  /\ Put(r, Len(tasks) + 1)
  /\ wakeup' = TRUE
  /\ UNCHANGED <<process, counters>>

-----------------------------------------------------------------------------
(* The worker *)

(* next() finds a task: get_nowait, then mark_task_running. *)
Take(r) ==
  /\ worker = "scanning"
  /\ FirstNonEmpty(r)
  /\ queues' = [queues EXCEPT ![r] = Tail(@)]
  /\ current' = Head(queues[r])
  /\ tasks' = [tasks EXCEPT ![current'].status = "running",
                            ![current'].attempts = @ + 1]
  /\ worker' = "busy"
  /\ UNCHANGED <<order, wakeup, phase, replayed, counters>>

(* next() finds every queue empty: clear, then wait. *)
Sleep ==
  /\ worker = "scanning"
  /\ \A r \in Requester : queues[r] = <<>>
  /\ wakeup' = FALSE
  /\ worker' = "waiting"
  /\ UNCHANGED <<table, queues, order, current, phase, replayed, counters>>

Wake ==
  /\ worker = "waiting"
  /\ wakeup
  /\ worker' = "scanning"
  /\ UNCHANGED <<table, memory, current, phase, replayed, counters>>

(* Mutant: mark_failed without terminal=True. *)
FinishNonTerminal(s) ==
  /\ worker = "busy"
  /\ SetStatus(current, IF s = "failed" THEN "pending" ELSE s)
  /\ worker' = "scanning"
  /\ current' = 0
  /\ UNCHANGED <<memory, phase, replayed, counters>>

(* dispatch returned (done) or raised (failed; every call passes terminal). *)
Finish(s) ==
  /\ worker = "busy"
  /\ SetStatus(current, s)
  /\ worker' = "scanning"
  /\ current' = 0
  /\ UNCHANGED <<memory, phase, replayed, counters>>

(* A database error in next(), which runs outside the worker's try, or in   *)
(* the mark_failed of its except clause: run() ends and nothing restarts    *)
(* it.  In next() the id has already left the queue, and the row is running *)
(* or still pending, whichever statement raised.                            *)
DieInNext(r) ==
  /\ worker = "scanning"
  /\ FirstNonEmpty(r)
  /\ queues' = [queues EXCEPT ![r] = Tail(@)]
  /\ \/ UNCHANGED tasks
     \/ tasks' = [tasks EXCEPT ![Head(queues[r])].status = "running",
                               ![Head(queues[r])].attempts = @ + 1]
  /\ UNCHANGED current

DieInFinish ==
  /\ worker = "busy"
  /\ current' = 0
  /\ UNCHANGED <<table, queues>>

WorkerDies ==
  /\ faults < MaxFaults
  /\ faults' = faults + 1
  /\ DieInFinish \/ \E r \in Requester : DieInNext(r)
  /\ worker' = "dead"
  /\ UNCHANGED <<order, wakeup, phase, replayed, crashes>>

-----------------------------------------------------------------------------
Worker  == Sleep \/ Wake \/ (\E r \in Requester : Take(r)) \/ Finish("done") \/ Finish("failed")
Startup == Recover \/ ReplayNext \/ Start

Next ==
  \/ \E r \in Requester : Enqueue(r)
  \/ Worker
  \/ Startup
  \/ Crash
  \/ WorkerDies

Spec == Init /\ [][Next]_vars

(* systemd restarts the process (Restart=always), and the event loop runs a *)
(* ready coroutine: neither needs anything from outside.                    *)
FairSpec == Spec /\ WF_vars(Startup) /\ WF_vars(Worker)

-----------------------------------------------------------------------------
(* Properties *)

(* A task starts only when every earlier task of the same requester is      *)
(* finished: replies are interpreted in the order they were sent, across    *)
(* crashes and replays.                                                     *)
StartsInOrder ==
  [][\A t \in TaskId :
       (tasks[t].status = "pending" /\ tasks'[t].status = "running") =>
         \A u \in 1..(t - 1) :
           tasks[u].oid = tasks[t].oid => tasks[u].status \in {"done", "failed"}]_vars

(* While the process is up and its worker lives, the in-memory queues hold  *)
(* exactly the pending rows, each in the queue of its requester and in id   *)
(* order: no accepted message waits in the table unseen.                    *)
QueuesMirrorTable ==
  (phase = "up" /\ worker # "dead") =>
    \A r \in Requester :
      /\ \A i, j \in DOMAIN queues[r] : i < j => queues[r][i] < queues[r][j]
      /\ {queues[r][i] : i \in DOMAIN queues[r]} =
           {t \in TaskId : tasks[t].oid = r /\ tasks[t].status = "pending"}

(* The clear-then-wait of next() never sleeps through an enqueue. *)
NoLostWakeup ==
  (worker = "waiting" /\ ~wakeup) => \A r \in Requester : queues[r] = <<>>

(* Outside a recovery exactly the dispatched task is `running', and a task  *)
(* is dispatched again only because the process stopped in between.         *)
RunsOncePerLife ==
  /\ \A t \in TaskId : tasks[t].attempts <= crashes + 1
  /\ (phase = "up" /\ worker # "dead") =>
        \A t \in TaskId : tasks[t].status = "running" <=> t = current

(* A finished task is never picked up again, whatever crashes and replays. *)
FinishedStaysFinished ==
  [][\A t \in TaskId : tasks[t].status \in {"done", "failed"} => tasks'[t] = tasks[t]]_vars

(* With finitely many messages and crashes every accepted message is        *)
(* dispatched to its end, unless a database error ends the worker for good. *)
EveryTaskFinishes ==
  \A t \in 1..MaxTasks :
    (t \in TaskId) ~> \/ t \in TaskId /\ tasks[t].status \in {"done", "failed"}
                      \/ worker = "dead"

-----------------------------------------------------------------------------
(* The inductive invariant behind the four safety properties. *)

Alive == phase = "up" /\ worker # "dead"

(* Ids in a queue are in increasing order, ... *)
Ordered ==
  \A r \in Requester : \A i, j \in DOMAIN queues[r] :
    i < j => queues[r][i] < queues[r][j]

(* ... each one is a pending row of that requester that has been put, ...   *)
Queued ==
  \A r \in Requester : \A i \in DOMAIN queues[r] :
    /\ queues[r][i] \in TaskId
    /\ tasks[queues[r][i]].oid = r
    /\ tasks[queues[r][i]].status = "pending"
    /\ phase = "replaying" => queues[r][i] <= replayed

(* ... and no pending row that should be in memory is missing.              *)
NoneMissing ==
  \A t \in TaskId :
    (tasks[t].status = "pending" /\ (Alive \/ (phase = "replaying" /\ t <= replayed))) =>
      \E i \in DOMAIN queues[tasks[t].oid] : queues[tasks[t].oid][i] = t

Running ==
  /\ Alive => \A t \in TaskId : tasks[t].status = "running" <=> t = current
  /\ phase = "replaying" => \A t \in TaskId : tasks[t].status # "running"

WorkerState ==
  /\ worker = "off" <=> phase # "up"
  /\ worker = "busy" => current \in TaskId
  /\ worker # "busy" => current = 0
  /\ phase = "down" => \A r \in Requester : queues[r] = <<>>
  /\ phase = "replaying" => replayed <= Len(tasks)

Attempts ==
  \A t \in TaskId :
    /\ tasks[t].attempts <= crashes + 1
    /\ (tasks[t].status = "pending" \/ (tasks[t].status = "running" /\ phase = "down")) =>
          tasks[t].attempts <= crashes

IInv == TypeOK /\ Ordered /\ Queued /\ NoneMissing /\ Running /\ WorkerState
          /\ Attempts /\ NoLostWakeup

-----------------------------------------------------------------------------
(* The queue without its ids: how many tasks each requester has waiting.    *)
Scan == INSTANCE QueueScan WITH
          Capacity <- MaxTasks,
          backlog <- [r \in Requester |-> Len(queues[r])],
          serving <- IF worker = "busy" THEN {tasks[current].oid} ELSE {}

(* The detailed queue serves requesters in the order of the abstract scan.  *)
ImplementsScan == Scan!Spec

-----------------------------------------------------------------------------
(* The table without the queues: the rows of each requester that are not    *)
(* finished, in id order.                                                   *)
Unfinished(r) ==
  {t \in TaskId : tasks[t].oid = r /\ tasks[t].status \notin {"done", "failed"}}

Unread(r) == Select([t \in TaskId |-> t], Unfinished(r))

Mail == INSTANCE Inbox WITH
          Message <- 1..MaxTasks,
          unread  <- [r \in Requester |-> Unread(r)],
          serving <- IF worker = "busy" THEN {tasks[current].oid} ELSE {}

(* Whatever stops and is replayed, an accepted message is dispatched when   *)
(* those its requester sent before are finished, and again until it is      *)
(* finished itself; then never again.                                       *)
ImplementsInbox == Mail!Spec
=============================================================================
