-------------------------- MODULE TaskQueueProofs --------------------------
(***************************************************************************)
(* The safety of the task queue for every set of requesters and every      *)
(* bound.  IInv (module TaskQueue) is shown inductive, one lemma per       *)
(* action; the safety properties follow from it.                           *)
(***************************************************************************)
EXTENDS TaskQueue, Basics

-----------------------------------------------------------------------------
(* Sequences *)

(* A sequence with one element replaced. *)
LEMMA ExceptElements ==
  ASSUME NEW S, NEW q \in Seq(S), NEW i \in DOMAIN q, NEW e \in S
  PROVE  /\ [q EXCEPT ![i] = e] \in Seq(S)
         /\ Len([q EXCEPT ![i] = e]) = Len(q)
         /\ DOMAIN [q EXCEPT ![i] = e] = DOMAIN q
         /\ [q EXCEPT ![i] = e][i] = e
         /\ \A j \in DOMAIN q : j # i => [q EXCEPT ![i] = e][j] = q[j]
OBVIOUS

(* A function on an initial interval of the ids is a sequence. *)
LEMMA IntervalIsSeq ==
  ASSUME NEW S, NEW n \in Nat, NEW f, f = [i \in 1..n |-> f[i]],
         \A i \in 1..n : f[i] \in S
  PROVE  f \in Seq(S)
OBVIOUS

(* Row ids are the interval of the ids given out so far. *)
LEMMA TaskIdIsInterval ==
  ASSUME TypeOK
  PROVE  TaskId = 1..Len(tasks) /\ Len(tasks) \in Nat
BY DEF TypeOK, TaskId

(* The fields of a row. *)
LEMMA RowType ==
  ASSUME TypeOK, NEW t \in TaskId
  PROVE  /\ tasks[t] \in Task
         /\ tasks[t].oid \in Requester
         /\ tasks[t].status \in Status
         /\ tasks[t].attempts \in Nat
<1>1. tasks[t] \in Task
  BY DEF TypeOK, TaskId
<1> QED
  BY <1>1 DEF Task

-----------------------------------------------------------------------------
(* Initially nothing is queued. *)
LEMMA InitInv == Init => IInv
<1> SUFFICES ASSUME Init PROVE IInv
  OBVIOUS
<1>1. TypeOK
  <2>1. <<>> \in Seq(Task) /\ <<>> \in Seq(Requester) /\ <<>> \in Seq(Nat) /\ Len(<<>>) = 0
    OBVIOUS
  <2>2. NoQueues \in [Requester -> Seq(Nat)]
    BY <2>1 DEF NoQueues
  <2>3. 0 \in 0..MaxCrashes /\ 0 \in 0..MaxFaults /\ 0 <= MaxTasks
    BY TaskQueueAssumption DEF TaskQueueAssumption
  <2>4. tasks \in Seq(Task) /\ Len(tasks) <= MaxTasks /\ order \in Seq(Requester)
    BY <2>1, <2>3 DEF Init
  <2>5. queues \in [Requester -> Seq(Nat)]
    BY <2>2 DEF Init
  <2> QED
    BY <2>3, <2>4, <2>5 DEF Init, TypeOK
<1>2. TaskId = {}
  BY DEF Init, TaskId
<1>3. \A r \in Requester : queues[r] = <<>>
  BY DEF Init, NoQueues
<1>4. Ordered /\ Queued
  BY <1>3 DEF Ordered, Queued
<1>5. NoneMissing /\ Running /\ Attempts
  BY <1>2 DEF NoneMissing, Running, Attempts, Init
<1>6. WorkerState /\ NoLostWakeup
  BY <1>3 DEF WorkerState, NoLostWakeup, Init
<1> QED
  BY <1>1, <1>4, <1>5, <1>6 DEF IInv

-----------------------------------------------------------------------------
(* The process *)

(* Recovery resets the rows that were running: no row is running when the   *)
(* replay begins.                                                           *)
LEMMA RecoverInv == IInv /\ Recover => IInv'
<1> SUFFICES ASSUME IInv, Recover PROVE IInv'
  OBVIOUS
<1> USE DEF IInv, Recover, memory, counters
<1>1. TaskId' = TaskId /\ Len(tasks') = Len(tasks)
  BY DEF TypeOK, TaskId
<1>2. \A t \in TaskId : /\ tasks'[t].oid = tasks[t].oid
                        /\ tasks'[t].attempts = tasks[t].attempts
                        /\ tasks'[t].status # "running"
                        /\ tasks'[t].status = tasks[t].status \/ tasks[t].status = "running"
                        /\ tasks'[t] \in Task
  <2> SUFFICES ASSUME NEW t \in TaskId
               PROVE  /\ tasks'[t].oid = tasks[t].oid
                      /\ tasks'[t].attempts = tasks[t].attempts
                      /\ tasks'[t].status # "running"
                      /\ tasks'[t].status = tasks[t].status \/ tasks[t].status = "running"
                      /\ tasks'[t] \in Task
    OBVIOUS
  <2>1. tasks[t] \in Task
    BY RowType
  <2>2. tasks'[t] = IF tasks[t].status = "running"
                    THEN [tasks[t] EXCEPT !.status = "pending"] ELSE tasks[t]
    OBVIOUS
  <2> QED
    BY <2>1, <2>2 DEF Task, Status
<1>3. TypeOK'
  <2>1. tasks' \in Seq(Task)
    <3>1. TaskId = 1..Len(tasks) /\ Len(tasks) \in Nat
      BY TaskIdIsInterval
    <3>2. tasks' = [t \in 1..Len(tasks) |-> tasks'[t]]
      BY <3>1
    <3>3. \A t \in 1..Len(tasks) : tasks'[t] \in Task
      BY <1>2, <3>1
    <3> QED
      BY <3>1, <3>2, <3>3, IntervalIsSeq
  <2> QED
    BY <1>1, <2>1 DEF TypeOK
<1>4. \A r \in Requester : queues[r] = <<>>
  BY DEF WorkerState
<1>5. Ordered' /\ Queued' /\ NoLostWakeup'
  BY <1>4 DEF Ordered, Queued, NoLostWakeup
<1>6. NoneMissing'
  BY <1>1 DEF NoneMissing, Alive, TypeOK, TaskId
<1>7. Running'
  BY <1>1, <1>2 DEF Running, Alive
<1>8. WorkerState'
  BY <1>1, TaskIdIsInterval DEF WorkerState
<1>9. Attempts'
  BY <1>1, <1>2 DEF Attempts
<1> QED
  BY <1>3, <1>5, <1>6, <1>7, <1>8, <1>9

(* The replay looks at one row and queues it if it is pending: the queues   *)
(* are complete up to that row.                                             *)
LEMMA ReplayNextInv == IInv /\ ReplayNext => IInv'
<1> SUFFICES ASSUME IInv, ReplayNext PROVE IInv'
  OBVIOUS
<1> USE DEF IInv, table, counters
<1> DEFINE t == replayed + 1
           r == tasks[t].oid
<1>1. /\ t \in TaskId /\ t \in Nat
      /\ TaskId' = TaskId /\ tasks' = tasks
      /\ replayed' = t /\ phase = "replaying" /\ phase' = "replaying"
      /\ worker' = "off" /\ worker = "off"
  BY DEF ReplayNext, TypeOK, TaskId, WorkerState
<1>2. r \in Requester
  BY <1>1, RowType
<1>3. CASE tasks[t].status = "pending"
  <2>1. queues' = [queues EXCEPT ![r] = Append(@, t)]
    BY <1>3 DEF ReplayNext, Put
  <2>2. TypeOK'
    <3>1. order' \in Seq(Requester)
      <4>1. order' = order \/ order' = Append(order, r)
        BY <1>3 DEF ReplayNext, Put
      <4>2. order \in Seq(Requester)
        BY DEF TypeOK
      <4> QED
        BY <1>2, <4>1, <4>2
    <3>2. queues' \in [Requester -> Seq(Nat)]
      BY <1>1, <1>2, <2>1, AppendElements DEF TypeOK
    <3> QED
      BY <1>1, <3>1, <3>2 DEF TypeOK, ReplayNext
  <2>3. \A i \in DOMAIN queues[r] : queues[r][i] < t
    BY <1>1, <1>2 DEF Queued, TypeOK, TaskId
  <2>4. queues[r] \in Seq(Nat) /\ queues'[r] = Append(queues[r], t)
    BY <1>2, <2>1 DEF TypeOK
  <2> DEFINE q  == queues[r]
             qq == queues'[r]
  <2>a. /\ \A i \in DOMAIN q : i \in DOMAIN qq /\ qq[i] = q[i]
        /\ \A i \in DOMAIN qq : i \in DOMAIN q \/ i = Len(q) + 1
        /\ Len(q) + 1 \in DOMAIN qq /\ qq[Len(q) + 1] = t
        /\ DOMAIN q = 1..Len(q) /\ Len(q) \in Nat
    <3>1. q \in Seq(Nat) /\ qq = Append(q, t) /\ t \in Nat
      BY <1>1, <2>4
    <3>2. DOMAIN q = 1..Len(q) /\ Len(q) \in Nat
      BY <3>1
    <3> HIDE DEF q, qq
    <3>3. /\ DOMAIN qq = DOMAIN q \cup {Len(q) + 1} /\ qq[Len(q) + 1] = t
          /\ \A i \in DOMAIN q : qq[i] = q[i]
      BY <3>1, AppendElements
    <3> QED
      BY <3>2, <3>3
  <2> HIDE DEF q, qq
  <2>5. \A p \in Requester : p # r => queues'[p] = queues[p]
    BY <2>1 DEF TypeOK
  <2>6. Ordered'
    <3> SUFFICES ASSUME NEW p \in Requester, NEW i \in DOMAIN queues'[p],
                        NEW j \in DOMAIN queues'[p], i < j
                 PROVE  queues'[p][i] < queues'[p][j]
      BY DEF Ordered
    <3>1. CASE p # r
      BY <2>5, <3>1 DEF Ordered
    <3>2. CASE p = r
      <4>1. \A k, l \in DOMAIN queues[r] : k < l => queues[r][k] < queues[r][l]
        BY <1>2 DEF Ordered
      <4>2. t \in Nat
        BY <1>1
      <4>3. \A k, l \in DOMAIN Append(queues[r], t) :
              k < l => Append(queues[r], t)[k] < Append(queues[r], t)[l]
        BY <2>3, <2>4, <4>1, <4>2, AppendKeepsOrder
      <4> QED
        BY <2>4, <3>2, <4>3
    <3> QED
      BY <3>1, <3>2
  <2>7. Queued'
    <3> SUFFICES ASSUME NEW p \in Requester, NEW i \in DOMAIN queues'[p]
                 PROVE  /\ queues'[p][i] \in TaskId
                        /\ tasks[queues'[p][i]].oid = p
                        /\ tasks[queues'[p][i]].status = "pending"
                        /\ queues'[p][i] <= t
      BY <1>1 DEF Queued
    <3>1. CASE p # r
      BY <1>1, <2>5, <3>1 DEF Queued, TypeOK, TaskId
    <3>2. CASE p = r /\ i \in DOMAIN queues[r]
      <4>1. queues'[p][i] = queues[r][i]
        BY <2>a, <3>2 DEF q, qq
      <4>2. /\ queues[r][i] \in TaskId /\ tasks[queues[r][i]].oid = r
            /\ tasks[queues[r][i]].status = "pending" /\ queues[r][i] <= replayed
        BY <1>1, <1>2, <3>2 DEF Queued
      <4> QED
        BY <1>1, <3>2, <4>1, <4>2, TaskIdIsInterval DEF TypeOK
    <3>3. CASE p = r /\ i = Len(queues[r]) + 1
      <4>1. queues'[p][i] = t
        BY <2>a, <3>3 DEF q, qq
      <4> QED
        BY <1>1, <1>3, <3>3, <4>1
    <3> QED
      BY <2>a, <3>1, <3>2, <3>3 DEF q, qq
  <2>8. NoneMissing'
    <3> SUFFICES ASSUME NEW u \in TaskId, tasks[u].status = "pending", u <= t
                 PROVE  \E i \in DOMAIN queues'[tasks[u].oid] : queues'[tasks[u].oid][i] = u
      BY <1>1 DEF NoneMissing, Alive
    <3>1. tasks[u].oid \in Requester
      BY RowType
    <3>2. CASE u = t
      BY <1>1, <2>a, <3>2 DEF q, qq
    <3>3. CASE u # t
      <4>1. u <= replayed
        BY <1>1, <3>3 DEF TypeOK, TaskId
      <4>2. PICK i \in DOMAIN queues[tasks[u].oid] : queues[tasks[u].oid][i] = u
        BY <1>1, <4>1 DEF NoneMissing
      <4> QED
        BY <1>1, <2>a, <2>5, <3>1, <4>2 DEF q, qq
    <3> QED
      BY <3>2, <3>3
  <2>9. Running' /\ WorkerState' /\ Attempts' /\ NoLostWakeup'
    BY <1>1 DEF Running, Alive, WorkerState, Attempts, NoLostWakeup, ReplayNext, TypeOK, TaskId
  <2> QED
    BY <2>2, <2>6, <2>7, <2>8, <2>9
<1>4. CASE tasks[t].status # "pending"
  <2>1. UNCHANGED <<queues, order>>
    BY <1>4 DEF ReplayNext
  <2>2. TypeOK'
    BY <1>1, <2>1 DEF TypeOK, ReplayNext
  <2>3. Ordered'
    BY <2>1 DEF Ordered
  <2>4. Queued'
    BY <1>1, <2>1 DEF Queued, TypeOK, TaskId
  <2>5. NoneMissing'
    <3> SUFFICES ASSUME NEW u \in TaskId, tasks[u].status = "pending", u <= t
                 PROVE  \E i \in DOMAIN queues[tasks[u].oid] : queues[tasks[u].oid][i] = u
      BY <1>1, <2>1 DEF NoneMissing, Alive
    <3>1. u <= replayed
      BY <1>1, <1>4 DEF TypeOK, TaskId
    <3> QED
      BY <1>1, <3>1 DEF NoneMissing
  <2>6. Running' /\ WorkerState' /\ Attempts' /\ NoLostWakeup'
    BY <1>1, <2>1 DEF Running, Alive, WorkerState, Attempts, NoLostWakeup, ReplayNext, TypeOK, TaskId
  <2> QED
    BY <2>2, <2>3, <2>4, <2>5, <2>6
<1> QED
  BY <1>3, <1>4

(* When all rows have been looked at the queues are complete, and the       *)
(* worker may start.                                                        *)
LEMMA StartInv == IInv /\ Start => IInv'
<1> SUFFICES ASSUME IInv, Start PROVE IInv'
  OBVIOUS
<1> USE DEF IInv, Start, table, counters
<1>1. current = 0 /\ 0 \notin TaskId
  BY DEF WorkerState, TypeOK, TaskId
<1>2. TypeOK'
  BY DEF TypeOK
<1>3. Ordered' /\ Attempts'
  BY DEF Ordered, Attempts, TaskId
<1>4. Queued'
  BY DEF Queued, TaskId
<1>5. NoneMissing'
  BY DEF NoneMissing, Alive, TypeOK, TaskId
<1>6. Running' /\ WorkerState' /\ NoLostWakeup'
  BY <1>1 DEF Running, Alive, WorkerState, NoLostWakeup, TaskId
<1> QED
  BY <1>2, <1>3, <1>4, <1>5, <1>6

(* The end of the process empties the queues; the table keeps what it       *)
(* holds.                                                                   *)
LEMMA CrashInv == IInv /\ Crash => IInv'
<1> SUFFICES ASSUME IInv, Crash PROVE IInv'
  OBVIOUS
<1> USE DEF IInv, Crash, table
<1>1. \A r \in Requester : queues'[r] = <<>>
  BY DEF NoQueues
<1>2. TypeOK'
  <2>1. <<>> \in Seq(Requester) /\ <<>> \in Seq(Nat)
    OBVIOUS
  <2>2. NoQueues \in [Requester -> Seq(Nat)]
    BY <2>1 DEF NoQueues
  <2>3. crashes' \in 0..MaxCrashes
    BY TaskQueueAssumption DEF TypeOK, TaskQueueAssumption
  <2>4. queues' \in [Requester -> Seq(Nat)] /\ order' \in Seq(Requester)
    BY <2>1, <2>2
  <2> QED
    BY <2>3, <2>4 DEF TypeOK
<1>3. Ordered' /\ Queued' /\ NoLostWakeup'
  BY <1>1 DEF Ordered, Queued, NoLostWakeup
<1>4. NoneMissing' /\ Running' /\ WorkerState'
  BY <1>1 DEF NoneMissing, Running, WorkerState, Alive
<1>5. Attempts'
  <2> SUFFICES ASSUME NEW t \in TaskId
               PROVE  tasks[t].attempts <= crashes' /\ tasks[t].attempts <= crashes' + 1
    BY DEF Attempts, TaskId
  <2>1. tasks[t].attempts \in Nat /\ crashes \in Nat
    BY RowType, TaskQueueAssumption DEF TypeOK, TaskQueueAssumption
  <2> QED
    BY <2>1 DEF Attempts
<1> QED
  BY <1>2, <1>3, <1>4, <1>5

-----------------------------------------------------------------------------
(* The producers *)

(* A new row has the greatest id and goes to the end of its queue. *)
LEMMA EnqueueInv == ASSUME NEW r \in Requester PROVE IInv /\ Enqueue(r) => IInv'
<1> SUFFICES ASSUME IInv, Enqueue(r) PROVE IInv'
  OBVIOUS
<1> USE DEF IInv, process, counters
<1> DEFINE t   == Len(tasks) + 1
           row == [oid |-> r, status |-> "pending", attempts |-> 0]
           q   == queues[r]
           qq  == queues'[r]
<1>1. /\ TaskId = 1..Len(tasks) /\ Len(tasks) \in Nat
      /\ t \in Nat /\ t \notin TaskId /\ current \in Nat
      /\ phase = "up" /\ phase' = "up" /\ worker' = worker
  BY TaskIdIsInterval DEF Enqueue, TypeOK
<1>2. row \in Task
  BY DEF Task, Status
<1>3. /\ tasks' \in Seq(Task) /\ Len(tasks') = t /\ tasks'[t] = row
      /\ \A u \in TaskId : tasks'[u] = tasks[u]
      /\ TaskId' = TaskId \cup {t}
  BY <1>1, <1>2 DEF Enqueue, TypeOK, TaskId
<1>4. queues' = [queues EXCEPT ![r] = Append(@, t)]
  BY DEF Enqueue, Put
<1>5. /\ \A i \in DOMAIN q : i \in DOMAIN qq /\ qq[i] = q[i]
      /\ \A i \in DOMAIN qq : i \in DOMAIN q \/ i = Len(q) + 1
      /\ Len(q) + 1 \in DOMAIN qq /\ qq[Len(q) + 1] = t
      /\ DOMAIN q = 1..Len(q) /\ Len(q) \in Nat
      /\ qq \in Seq(Nat)
  <2>1. queues[r] \in Seq(Nat) /\ queues'[r] = Append(queues[r], t) /\ t \in Nat
    BY <1>1, <1>4 DEF TypeOK
  <2> QED
    BY <2>1, AppendElements
<1>6. \A p \in Requester : p # r => queues'[p] = queues[p]
  BY <1>4 DEF TypeOK
<1>7. row.oid = r /\ row.status = "pending" /\ row.attempts = 0
  OBVIOUS
<1> HIDE DEF t, row, q, qq
<1>8. TypeOK'
  <2>1. order' \in Seq(Requester)
    <3>1. order' = order \/ order' = Append(order, r)
      BY DEF Enqueue, Put
    <3>2. order \in Seq(Requester)
      BY DEF TypeOK
    <3> QED
      BY <3>1, <3>2
  <2>2. queues' \in [Requester -> Seq(Nat)]
    BY <1>4, <1>5 DEF TypeOK, qq
  <2>3. Len(tasks') <= MaxTasks
    BY <1>1, <1>3, TaskQueueAssumption DEF Enqueue, TypeOK, t, TaskQueueAssumption
  <2> QED
    BY <1>3, <2>1, <2>2, <2>3 DEF TypeOK, Enqueue
<1>9. \A i \in DOMAIN q : q[i] \in TaskId /\ q[i] < t
  BY <1>1 DEF Queued, q, t
<1>10. Ordered'
  <2> SUFFICES ASSUME NEW p \in Requester, NEW i \in DOMAIN queues'[p],
                      NEW j \in DOMAIN queues'[p], i < j
               PROVE  queues'[p][i] < queues'[p][j]
    BY DEF Ordered
  <2>1. CASE p # r
    BY <1>6, <2>1 DEF Ordered
  <2>2. CASE p = r
    <3>1. /\ queues[r] \in Seq(Nat) /\ queues'[r] = Append(queues[r], t) /\ t \in Nat
          /\ \A k \in DOMAIN queues[r] : queues[r][k] < t
      BY <1>1, <1>4, <1>9 DEF TypeOK, q
    <3>2. \A k, l \in DOMAIN queues[r] : k < l => queues[r][k] < queues[r][l]
      BY DEF Ordered
    <3>3. \A k, l \in DOMAIN Append(queues[r], t) :
            k < l => Append(queues[r], t)[k] < Append(queues[r], t)[l]
      BY <3>1, <3>2, AppendKeepsOrder
    <3> QED
      BY <2>2, <3>1, <3>3
  <2> QED
    BY <2>1, <2>2
<1>11. Queued'
  <2> SUFFICES ASSUME NEW p \in Requester, NEW i \in DOMAIN queues'[p]
               PROVE  /\ queues'[p][i] \in TaskId'
                      /\ tasks'[queues'[p][i]].oid = p
                      /\ tasks'[queues'[p][i]].status = "pending"
    BY <1>1 DEF Queued
  <2>1. CASE p # r \/ i \in DOMAIN queues[r]
    <3>1. i \in DOMAIN queues[p] /\ queues'[p][i] = queues[p][i]
      BY <1>5, <1>6, <2>1 DEF q, qq
    <3>2. /\ queues[p][i] \in TaskId /\ tasks[queues[p][i]].oid = p
          /\ tasks[queues[p][i]].status = "pending"
      BY <3>1 DEF Queued
    <3> QED
      BY <1>3, <3>1, <3>2
  <2>2. CASE p = r /\ i = Len(queues[r]) + 1
    BY <1>3, <1>5, <1>7, <2>2 DEF q, qq
  <2>3. p # r \/ i \in DOMAIN queues[r] \/ i = Len(queues[r]) + 1
    BY <1>5 DEF q, qq
  <2> QED
    BY <2>1, <2>2, <2>3
<1>12. NoneMissing'
  <2> SUFFICES ASSUME NEW u \in TaskId', tasks'[u].status = "pending", Alive
               PROVE  \E i \in DOMAIN queues'[tasks'[u].oid] : queues'[tasks'[u].oid][i] = u
    BY <1>1 DEF NoneMissing, Alive
  <2>1. CASE u = t
    BY <1>3, <1>5, <1>7, <2>1 DEF qq, q
  <2>2. CASE u \in TaskId
    <3>1. tasks[u].oid \in Requester /\ tasks'[u] = tasks[u]
      BY <1>3, <2>2, RowType
    <3>2. PICK i \in DOMAIN queues[tasks[u].oid] : queues[tasks[u].oid][i] = u
      BY <2>2, <3>1 DEF NoneMissing
    <3>3. i \in DOMAIN queues'[tasks[u].oid] /\ queues'[tasks[u].oid][i] = u
      <4>1. CASE tasks[u].oid = r
        BY <1>5, <3>2, <4>1 DEF q, qq
      <4>2. CASE tasks[u].oid # r
        BY <1>6, <3>1, <3>2, <4>2
      <4> QED
        BY <4>1, <4>2
    <3> QED
      BY <3>1, <3>3
  <2> QED
    BY <1>3, <2>1, <2>2
<1>13. Running' /\ WorkerState'
  <2>1. current' = current /\ (Alive' <=> Alive) /\ current # t
    BY <1>1 DEF Enqueue, Alive, WorkerState, t
  <2>2. Running'
    BY <1>1, <1>3, <1>7, <2>1 DEF Running
  <2> QED
    BY <1>1, <1>3, <2>1, <2>2 DEF WorkerState
<1>14. Attempts'
  <2>1. crashes \in Nat /\ crashes' = crashes
    BY TaskQueueAssumption DEF TypeOK, TaskQueueAssumption, Enqueue
  <2> QED
    BY <1>1, <1>3, <1>7, <2>1 DEF Attempts
<1>15. NoLostWakeup'
  BY DEF NoLostWakeup, Enqueue
<1> QED
  BY <1>8, <1>10, <1>11, <1>12, <1>13, <1>14, <1>15

-----------------------------------------------------------------------------
(* The worker *)

(* What leaves the queue of r, in Take and in DieInNext: its head t, which  *)
(* is a pending row of r older than everything left in the queue.           *)
LEMMA PopFacts ==
  ASSUME IInv, NEW r \in Requester, FirstNonEmpty(r),
         queues' = [queues EXCEPT ![r] = Tail(@)]
  PROVE  /\ Head(queues[r]) \in TaskId
         /\ tasks[Head(queues[r])].oid = r
         /\ tasks[Head(queues[r])].status = "pending"
         /\ queues' \in [Requester -> Seq(Nat)]
         /\ \A p \in Requester : p # r => queues'[p] = queues[p]
         /\ \A i \in DOMAIN queues'[r] :
               /\ i + 1 \in DOMAIN queues[r] /\ queues'[r][i] = queues[r][i + 1]
               /\ queues'[r][i] > Head(queues[r])
         /\ \A i \in DOMAIN queues[r] :
               queues[r][i] = Head(queues[r]) \/
                 (i - 1 \in DOMAIN queues'[r] /\ queues'[r][i - 1] = queues[r][i])
         /\ DOMAIN queues'[r] \subseteq Nat /\ DOMAIN queues[r] \subseteq Nat
<1> USE DEF IInv
<1> DEFINE q == queues[r]
<1>1. q \in Seq(Nat) /\ q # <<>>
  BY DEF FirstNonEmpty, TypeOK
<1>2. queues'[r] = Tail(q) /\ \A p \in Requester : p # r => queues'[p] = queues[p]
  BY DEF TypeOK
<1>3. /\ 1 \in DOMAIN q /\ Head(q) = q[1] /\ Tail(q) \in Seq(Nat)
      /\ \A i \in DOMAIN Tail(q) : i + 1 \in DOMAIN q /\ Tail(q)[i] = q[i + 1]
      /\ \A i \in DOMAIN q : i = 1 \/ (i - 1 \in DOMAIN Tail(q) /\ Tail(q)[i - 1] = q[i])
      /\ DOMAIN q \subseteq Nat /\ DOMAIN Tail(q) \subseteq Nat \ {0}
  <2>1. DOMAIN q = 1..Len(q) /\ DOMAIN Tail(q) = 1..Len(Tail(q))
    BY <1>1
  <2>2. DOMAIN q \subseteq Nat /\ DOMAIN Tail(q) \subseteq Nat \ {0}
    BY <1>1, <2>1
  <2> QED
    BY <1>1, <2>2, TailElements
<1> HIDE DEF q
<1>4. Head(q) \in TaskId /\ tasks[Head(q)].oid = r /\ tasks[Head(q)].status = "pending"
  BY <1>3 DEF Queued, q
<1>5. queues' \in [Requester -> Seq(Nat)]
  BY <1>2, <1>3 DEF TypeOK, q
<1>6. \A i \in DOMAIN Tail(q) : Tail(q)[i] > Head(q)
  <2> SUFFICES ASSUME NEW i \in DOMAIN Tail(q) PROVE Tail(q)[i] > Head(q)
    OBVIOUS
  <2>1. 1 < i + 1 /\ i + 1 \in DOMAIN q
    BY <1>3
  <2>2. q[1] < q[i + 1]
    BY <1>3, <2>1 DEF Ordered, q
  <2>3. q[1] \in Nat /\ q[i + 1] \in Nat
    BY <1>1, <1>3, <2>1
  <2> QED
    BY <1>3, <2>2, <2>3
<1> QED
  BY <1>2, <1>3, <1>4, <1>5, <1>6 DEF q

(* Taking the head of a queue keeps the queues sound, whether its row       *)
(* becomes running (Take) or the statement that does it raises (DieInNext). *)
LEMMA PopKeepsQueues ==
  ASSUME IInv, NEW r \in Requester, FirstNonEmpty(r), worker = "scanning",
         queues' = [queues EXCEPT ![r] = Tail(@)], phase' = phase,
         TaskId' = TaskId,
         \A u \in TaskId : tasks'[u] = tasks[u] \/ u = Head(queues[r])
  PROVE  Ordered' /\ Queued'
<1> USE DEF IInv
<1> DEFINE h == Head(queues[r])
<1>0. phase = "up"
  BY DEF WorkerState, TypeOK
<1>3. \A p \in Requester : p # r => queues'[p] = queues[p]
  BY PopFacts
<1>4. \A i \in DOMAIN queues'[r] :
        /\ i + 1 \in DOMAIN queues[r] /\ queues'[r][i] = queues[r][i + 1]
        /\ queues'[r][i] > h /\ i \in Nat
  BY PopFacts
<1>5. tasks[h].oid = r /\ h \in Nat /\ TaskId \subseteq Nat
  <2>1. tasks[h].oid = r /\ h \in TaskId
    BY PopFacts
  <2>2. TaskId \subseteq Nat
    BY TaskIdIsInterval
  <2> QED
    BY <2>1, <2>2
<1> HIDE DEF h
<1>1. Ordered'
  <2> SUFFICES ASSUME NEW p \in Requester, NEW i \in DOMAIN queues'[p],
                      NEW j \in DOMAIN queues'[p], i < j
               PROVE  queues'[p][i] < queues'[p][j]
    BY DEF Ordered
  <2>1. CASE p # r
    BY <1>3, <2>1 DEF Ordered
  <2>2. CASE p = r
    <3>1. /\ i + 1 \in DOMAIN queues[r] /\ queues'[r][i] = queues[r][i + 1]
          /\ j + 1 \in DOMAIN queues[r] /\ queues'[r][j] = queues[r][j + 1]
          /\ i \in Nat /\ j \in Nat
      BY <1>4, <2>2
    <3> QED
      BY <2>2, <3>1 DEF Ordered
  <2> QED
    BY <2>1, <2>2
<1>2. Queued'
  <2> SUFFICES ASSUME NEW p \in Requester, NEW i \in DOMAIN queues'[p]
               PROVE  /\ queues'[p][i] \in TaskId
                      /\ tasks'[queues'[p][i]].oid = p
                      /\ tasks'[queues'[p][i]].status = "pending"
    BY <1>0 DEF Queued
  <2>1. CASE p # r
    <3>1. /\ queues'[p][i] \in TaskId /\ tasks[queues'[p][i]].oid = p
          /\ tasks[queues'[p][i]].status = "pending"
      BY <1>3, <2>1 DEF Queued
    <3>2. queues'[p][i] # h
      BY <1>5, <2>1, <3>1
    <3> QED
      BY <3>1, <3>2 DEF h
  <2>2. CASE p = r
    <3>1. /\ i + 1 \in DOMAIN queues[r] /\ queues'[r][i] = queues[r][i + 1]
          /\ queues'[r][i] > h
      BY <1>4, <2>2
    <3>2. /\ queues'[r][i] \in TaskId /\ tasks[queues'[r][i]].oid = r
          /\ tasks[queues'[r][i]].status = "pending"
      <4>1. \A k \in DOMAIN queues[r] :
              /\ queues[r][k] \in TaskId /\ tasks[queues[r][k]].oid = r
              /\ tasks[queues[r][k]].status = "pending"
        BY DEF Queued
      <4> QED
        BY <3>1, <4>1
    <3>3. queues'[r][i] # h
      <4> DEFINE x == queues'[r][i]
      <4>1. x \in Nat /\ h \in Nat /\ x > h
        BY <1>5, <3>1, <3>2
      <4> HIDE DEF x
      <4>2. x # h
        BY <4>1
      <4> QED
        BY <4>2 DEF x
    <3> QED
      BY <2>2, <3>2, <3>3 DEF h
  <2> QED
    BY <2>1, <2>2
<1> QED
  BY <1>1, <1>2

(* The row of a task that mark_task_running picks. *)
LEMMA RunningRow ==
  ASSUME TypeOK, NEW t \in TaskId,
         tasks' = [tasks EXCEPT ![t].status = "running", ![t].attempts = @ + 1]
  PROVE  /\ TaskId' = TaskId /\ Len(tasks') = Len(tasks)
         /\ \A u \in TaskId : u # t => tasks'[u] = tasks[u]
         /\ tasks'[t].oid = tasks[t].oid /\ tasks'[t].status = "running"
         /\ tasks'[t].attempts = tasks[t].attempts + 1
         /\ tasks' \in Seq(Task)
<1> DEFINE row == [oid |-> tasks[t].oid, status |-> "running",
                   attempts |-> tasks[t].attempts + 1]
<1>1. tasks[t] \in Task /\ tasks[t].attempts \in Nat /\ tasks[t].oid \in Requester
  BY RowType
<1>2. row \in Task
  BY <1>1 DEF Task, Status
<1>3. tasks' = [tasks EXCEPT ![t] = row]
  <2>1. tasks[t] = [oid |-> tasks[t].oid, status |-> tasks[t].status,
                    attempts |-> tasks[t].attempts]
    BY <1>1 DEF Task
  <2> DEFINE mid == [oid |-> tasks[t].oid, status |-> "running",
                     attempts |-> tasks[t].attempts]
  <2>2. [tasks[t] EXCEPT !.status = "running"] = mid
    BY <2>1
  <2>3. mid.attempts = tasks[t].attempts
    OBVIOUS
  <2>5. [mid EXCEPT !.attempts = tasks[t].attempts + 1] = row
    <3>1. ASSUME NEW o, NEW s, NEW m, NEW n
          PROVE  [[oid |-> o, status |-> s, attempts |-> m] EXCEPT !.attempts = n]
                   = [oid |-> o, status |-> s, attempts |-> n]
      OBVIOUS
    <3> QED
      BY <3>1
  <2> HIDE DEF mid, row
  <2>6. [[tasks[t] EXCEPT !.status = "running"] EXCEPT !.attempts = @ + 1] = row
    BY <2>2, <2>3, <2>5
  <2>4. tasks' = [tasks EXCEPT ![t] =
                    [[tasks[t] EXCEPT !.status = "running"] EXCEPT !.attempts = @ + 1]]
    BY DEF TaskId, TypeOK
  <2> QED
    BY <2>4, <2>6
<1>4. row.oid = tasks[t].oid /\ row.status = "running" /\ row.attempts = tasks[t].attempts + 1
  OBVIOUS
<1> HIDE DEF row
<1>5. tasks \in Seq(Task) /\ t \in DOMAIN tasks
  BY DEF TypeOK, TaskId
<1> DEFINE new == [tasks EXCEPT ![t] = row]
<1>6. /\ new \in Seq(Task) /\ DOMAIN new = DOMAIN tasks /\ Len(new) = Len(tasks)
      /\ new[t] = row /\ \A u \in DOMAIN tasks : u # t => new[u] = tasks[u]
  BY <1>2, <1>5, ExceptElements
<1>7. tasks' = new
  BY <1>3
<1> HIDE DEF new
<1>8. tasks'[t] = row
  BY <1>6, <1>7
<1> QED
  BY <1>4, <1>6, <1>7, <1>8 DEF TaskId

(* The head of a queue becomes the running row. *)
LEMMA TakeInv == ASSUME NEW r \in Requester PROVE IInv /\ Take(r) => IInv'
<1> SUFFICES ASSUME IInv, Take(r) PROVE IInv'
  OBVIOUS
<1> USE DEF IInv, counters
<1> DEFINE t == Head(queues[r])
<1>1. /\ FirstNonEmpty(r) /\ worker = "scanning" /\ worker' = "busy" /\ current' = t
      /\ queues' = [queues EXCEPT ![r] = Tail(@)]
      /\ tasks' = [tasks EXCEPT ![t].status = "running", ![t].attempts = @ + 1]
      /\ phase' = phase /\ crashes' = crashes
  BY DEF Take
<1>2. phase = "up" /\ current = 0
  BY <1>1 DEF WorkerState, TypeOK
<1>3. t \in TaskId /\ tasks[t].oid = r /\ tasks[t].status = "pending"
  BY <1>1, PopFacts
<1>4. queues' \in [Requester -> Seq(Nat)]
  BY <1>1, PopFacts
<1>5. \A p \in Requester : p # r => queues'[p] = queues[p]
  BY <1>1, PopFacts
<1>6. \A i \in DOMAIN queues[r] :
        queues[r][i] = t \/
          (i - 1 \in DOMAIN queues'[r] /\ queues'[r][i - 1] = queues[r][i])
  BY <1>1, PopFacts
<1>7. TaskId \subseteq Nat /\ 0 \notin TaskId
  BY TaskIdIsInterval
<1> HIDE DEF t
<1>8. /\ TaskId' = TaskId /\ Len(tasks') = Len(tasks)
      /\ \A u \in TaskId : u # t => tasks'[u] = tasks[u]
      /\ tasks'[t].oid = r /\ tasks'[t].status = "running"
      /\ tasks'[t].attempts = tasks[t].attempts + 1
      /\ tasks' \in Seq(Task)
  BY <1>1, <1>3, RunningRow
<1>9. TypeOK'
  BY <1>1, <1>3, <1>4, <1>7, <1>8 DEF TypeOK, Take
<1>10. Ordered' /\ Queued'
  BY <1>1, <1>8, PopKeepsQueues DEF t
<1>11. NoneMissing'
  <2> SUFFICES ASSUME NEW u \in TaskId, tasks'[u].status = "pending"
               PROVE  \E i \in DOMAIN queues'[tasks'[u].oid] : queues'[tasks'[u].oid][i] = u
    BY <1>8 DEF NoneMissing
  <2>1. u # t /\ tasks'[u] = tasks[u] /\ tasks[u].oid \in Requester
    BY <1>8, RowType
  <2>2. PICK i \in DOMAIN queues[tasks[u].oid] : queues[tasks[u].oid][i] = u
    BY <1>1, <1>2, <2>1 DEF NoneMissing, Alive
  <2> QED
    BY <1>5, <1>6, <2>1, <2>2
<1>12. Running'
  <2>1. \A u \in TaskId : tasks[u].status # "running"
    BY <1>1, <1>2, <1>7 DEF Running, Alive
  <2> QED
    BY <1>1, <1>2, <1>8, <2>1 DEF Running, Alive
<1>13. WorkerState' /\ NoLostWakeup'
  BY <1>1, <1>2, <1>3, <1>8 DEF WorkerState, NoLostWakeup
<1>14. Attempts'
  <2>1. crashes \in Nat /\ tasks[t].attempts \in Nat /\ tasks[t].attempts <= crashes
    BY <1>3, RowType, TaskQueueAssumption DEF TypeOK, TaskQueueAssumption, Attempts
  <2> SUFFICES ASSUME NEW u \in TaskId
               PROVE  /\ tasks'[u].attempts <= crashes + 1
                      /\ tasks'[u].status = "pending" => tasks'[u].attempts <= crashes
    BY <1>1, <1>2, <1>8 DEF Attempts
  <2> QED
    BY <1>8, <2>1 DEF Attempts
<1> QED
  BY <1>9, <1>10, <1>11, <1>12, <1>13, <1>14

(* The worker waits only when it has found every queue empty. *)
LEMMA SleepInv == IInv /\ Sleep => IInv'
<1> SUFFICES ASSUME IInv, Sleep PROVE IInv'
  OBVIOUS
<1> USE DEF IInv, Sleep, table, counters
<1>1. phase = "up" /\ current = 0
  BY DEF WorkerState, TypeOK
<1>2. TypeOK' /\ Ordered' /\ Attempts'
  BY DEF TypeOK, Ordered, Attempts, TaskId
<1>3. Queued' /\ NoneMissing'
  BY <1>1 DEF Queued, NoneMissing, Alive, TaskId
<1>4. Running' /\ WorkerState' /\ NoLostWakeup'
  BY <1>1 DEF Running, Alive, WorkerState, NoLostWakeup, TaskId
<1> QED
  BY <1>2, <1>3, <1>4

(* The worker that is woken looks again. *)
LEMMA WakeInv == IInv /\ Wake => IInv'
<1> SUFFICES ASSUME IInv, Wake PROVE IInv'
  OBVIOUS
<1> USE DEF IInv, Wake, table, memory, counters
<1>1. phase = "up" /\ current = 0
  BY DEF WorkerState, TypeOK
<1>2. TypeOK' /\ Ordered' /\ Attempts'
  BY DEF TypeOK, Ordered, Attempts, TaskId
<1>3. Queued' /\ NoneMissing'
  BY <1>1 DEF Queued, NoneMissing, Alive, TaskId
<1>4. Running' /\ WorkerState' /\ NoLostWakeup'
  BY <1>1 DEF Running, Alive, WorkerState, NoLostWakeup, TaskId
<1> QED
  BY <1>2, <1>3, <1>4

(* The running row is marked, and none is running. *)
LEMMA FinishInv ==
  ASSUME NEW s \in {"done", "failed"} PROVE IInv /\ Finish(s) => IInv'
<1> SUFFICES ASSUME IInv, Finish(s) PROVE IInv'
  OBVIOUS
<1> USE DEF IInv, memory, counters
<1>1. /\ worker = "busy" /\ worker' = "scanning" /\ current' = 0 /\ phase' = phase
      /\ queues' = queues /\ crashes' = crashes
      /\ tasks' = [tasks EXCEPT ![current].status = s]
  BY DEF Finish, SetStatus
<1>2. phase = "up" /\ current \in TaskId /\ tasks[current].status = "running"
  BY <1>1 DEF WorkerState, TypeOK, Running, Alive
<1>3. 0 \notin TaskId
  BY TaskIdIsInterval
<1>4. /\ TaskId' = TaskId /\ Len(tasks') = Len(tasks)
      /\ \A u \in TaskId : u # current => tasks'[u] = tasks[u]
      /\ tasks'[current].status = s
      /\ tasks'[current].attempts = tasks[current].attempts
      /\ tasks' \in Seq(Task)
  <2> DEFINE row == [tasks[current] EXCEPT !.status = s]
  <2>1. tasks[current] \in Task
    BY <1>2, RowType
  <2>2. row \in Task /\ row.status = s /\ row.attempts = tasks[current].attempts
    BY <2>1 DEF Task, Status
  <2>3. tasks' = [tasks EXCEPT ![current] = row]
    BY <1>1, <1>2
  <2> HIDE DEF row
  <2>4. tasks \in Seq(Task) /\ current \in DOMAIN tasks
    BY <1>2 DEF TypeOK, TaskId
  <2> QED
    BY <2>2, <2>3, <2>4, ExceptElements DEF TaskId
<1>5. TypeOK'
  BY <1>1, <1>4 DEF TypeOK, Finish
<1>6. Ordered'
  BY <1>1 DEF Ordered
<1>7. Queued'
  <2> SUFFICES ASSUME NEW p \in Requester, NEW i \in DOMAIN queues[p]
               PROVE  /\ queues[p][i] \in TaskId
                      /\ tasks'[queues[p][i]] = tasks[queues[p][i]]
    BY <1>1, <1>2, <1>4 DEF Queued
  <2> QED
    BY <1>2, <1>4 DEF Queued
<1>8. NoneMissing'
  <2> SUFFICES ASSUME NEW u \in TaskId, tasks'[u].status = "pending",
                      Alive \/ (phase = "replaying" /\ u <= replayed)
               PROVE  \E i \in DOMAIN queues[tasks'[u].oid] : queues[tasks'[u].oid][i] = u
    BY <1>1, <1>2, <1>4 DEF NoneMissing, Alive
  <2>1. tasks'[u] = tasks[u]
    BY <1>1, <1>4
  <2> QED
    BY <2>1 DEF NoneMissing
<1>9. Running' /\ WorkerState' /\ NoLostWakeup'
  <2>1. Running'
    BY <1>1, <1>2, <1>3, <1>4 DEF Running, Alive
  <2>2. WorkerState' /\ NoLostWakeup'
    BY <1>1, <1>2, <1>3 DEF Alive, WorkerState, NoLostWakeup
  <2> QED
    BY <2>1, <2>2
<1>10. Attempts'
  BY <1>1, <1>2, <1>4 DEF Attempts
<1> QED
  BY <1>5, <1>6, <1>7, <1>8, <1>9, <1>10

(* A database error ends the worker, in next or in mark_failed; its queues  *)
(* need not mirror the table any more.                                      *)
LEMMA WorkerDiesInv == IInv /\ WorkerDies => IInv'
<1> SUFFICES ASSUME IInv, WorkerDies PROVE IInv'
  OBVIOUS
<1> USE DEF IInv
<1>1. /\ faults < MaxFaults /\ faults' = faults + 1 /\ worker' = "dead"
      /\ order' = order /\ wakeup' = wakeup /\ phase' = phase
      /\ replayed' = replayed /\ crashes' = crashes
  BY DEF WorkerDies
<1>2. faults' \in 0..MaxFaults
  BY <1>1, TaskQueueAssumption DEF TypeOK, TaskQueueAssumption
<1>3. CASE DieInFinish
  <2>1. /\ worker = "busy" /\ current' = 0 /\ tasks' = tasks /\ queues' = queues
    BY <1>3 DEF DieInFinish, table
  <2>2. TypeOK'
    BY <1>1, <1>2, <2>1 DEF TypeOK
  <2>3. Ordered' /\ Queued' /\ Attempts'
    BY <1>1, <2>1 DEF Ordered, Queued, Attempts, TaskId
  <2>4. phase = "up"
    BY <2>1 DEF WorkerState, TypeOK
  <2>5. NoneMissing' /\ Running' /\ WorkerState' /\ NoLostWakeup'
    BY <1>1, <2>1, <2>4 DEF NoneMissing, Running, WorkerState, NoLostWakeup, Alive
  <2> QED
    BY <2>2, <2>3, <2>5
<1>4. ASSUME NEW r \in Requester, DieInNext(r) PROVE IInv'
  <2> DEFINE t == Head(queues[r])
  <2>1. /\ worker = "scanning" /\ FirstNonEmpty(r) /\ current' = current
        /\ queues' = [queues EXCEPT ![r] = Tail(@)]
        /\ \/ tasks' = tasks
           \/ tasks' = [tasks EXCEPT ![t].status = "running", ![t].attempts = @ + 1]
    BY <1>4 DEF DieInNext
  <2>2. phase = "up" /\ current = 0
    BY <2>1 DEF WorkerState, TypeOK
  <2>3. /\ t \in TaskId /\ tasks[t].oid = r /\ tasks[t].status = "pending"
        /\ queues' \in [Requester -> Seq(Nat)]
    BY <2>1, PopFacts
  <2> HIDE DEF t
  <2>4. /\ TaskId' = TaskId /\ Len(tasks') = Len(tasks)
        /\ \A u \in TaskId : u # t => tasks'[u] = tasks[u]
        /\ tasks'[t] = tasks[t] \/ ( /\ tasks'[t].status = "running"
                                    /\ tasks'[t].attempts = tasks[t].attempts + 1)
        /\ tasks' \in Seq(Task)
    <3>1. CASE tasks' = tasks
      BY <3>1 DEF TaskId, TypeOK
    <3>2. CASE tasks' = [tasks EXCEPT ![t].status = "running", ![t].attempts = @ + 1]
      BY <2>3, <3>2, RunningRow
    <3> QED
      BY <2>1, <3>1, <3>2
  <2>5. TypeOK'
    BY <1>1, <1>2, <2>1, <2>3, <2>4 DEF TypeOK
  <2>6. Ordered' /\ Queued'
    BY <1>1, <2>1, <2>4, PopKeepsQueues DEF t
  <2>7. NoneMissing' /\ Running' /\ WorkerState' /\ NoLostWakeup'
    BY <1>1, <2>1, <2>2 DEF NoneMissing, Running, WorkerState, NoLostWakeup, Alive
  <2>8. Attempts'
    <3>1. crashes \in Nat /\ tasks[t].attempts \in Nat /\ tasks[t].attempts <= crashes
      BY <2>3, RowType, TaskQueueAssumption DEF TypeOK, TaskQueueAssumption, Attempts
    <3> SUFFICES ASSUME NEW u \in TaskId
                 PROVE  /\ tasks'[u].attempts <= crashes + 1
                        /\ tasks'[u].status = "pending" => tasks'[u].attempts <= crashes
      BY <1>1, <2>2, <2>4 DEF Attempts
    <3> QED
      BY <2>4, <3>1 DEF Attempts
  <2> QED
    BY <2>5, <2>6, <2>7, <2>8
<1> QED
  BY <1>3, <1>4 DEF WorkerDies

-----------------------------------------------------------------------------
(* The theorems *)

(* Every step keeps the invariant. *)
LEMMA NextInv == IInv /\ [Next]_vars => IInv'
<1> SUFFICES ASSUME IInv, [Next]_vars PROVE IInv'
  OBVIOUS
<1>1. CASE Next
  BY <1>1, EnqueueInv, TakeInv, SleepInv, WakeInv, FinishInv, RecoverInv, ReplayNextInv,
     StartInv, CrashInv, WorkerDiesInv DEF Next, Worker, Startup
<1>2. CASE UNCHANGED vars
  BY <1>2 DEF vars, table, memory, process, counters, IInv, TypeOK, Ordered, Queued,
     NoneMissing, Running, WorkerState, Attempts, NoLostWakeup, Alive, TaskId
<1> QED
  BY <1>1, <1>2

(* The invariant holds in every reachable state, for any number of          *)
(* requesters, tasks, crashes and database errors.                          *)
THEOREM Invariance == Spec => []IInv
BY InitInv, NextInv, PTL DEF Spec

(* Type correctness of the task queue. *)
THEOREM TypeCorrect == Spec => []TypeOK
<1>1. IInv => TypeOK
  BY DEF IInv
<1> QED
  BY <1>1, Invariance, PTL

(* The worker never sleeps on a non-empty queue with the event cleared. *)
THEOREM WakeupSafe == Spec => []NoLostWakeup
<1>1. IInv => NoLostWakeup
  BY DEF IInv
<1> QED
  BY <1>1, Invariance, PTL

(* With a live worker the queues in memory are exactly the pending rows, in *)
(* id order: no message accepted and stored waits unseen.                   *)
THEOREM MirrorSafe == Spec => []QueuesMirrorTable
<1>1. IInv => QueuesMirrorTable
  <2> SUFFICES ASSUME IInv, phase = "up", worker # "dead", NEW r \in Requester
               PROVE  /\ \A i, j \in DOMAIN queues[r] : i < j => queues[r][i] < queues[r][j]
                      /\ {queues[r][i] : i \in DOMAIN queues[r]} =
                           {t \in TaskId : tasks[t].oid = r /\ tasks[t].status = "pending"}
    BY DEF QueuesMirrorTable
  <2> USE DEF IInv
  <2>1. \A i \in DOMAIN queues[r] :
          queues[r][i] \in {t \in TaskId : tasks[t].oid = r /\ tasks[t].status = "pending"}
    BY DEF Queued
  <2>2. \A t \in TaskId : (tasks[t].oid = r /\ tasks[t].status = "pending") =>
          \E i \in DOMAIN queues[r] : queues[r][i] = t
    BY DEF NoneMissing, Alive
  <2> QED
    BY <2>1, <2>2 DEF Ordered
<1> QED
  BY <1>1, Invariance, PTL

(* A task runs at most once in each life of the process, and only the task  *)
(* being dispatched is marked running.                                      *)
THEOREM RunsOnceSafe == Spec => []RunsOncePerLife
<1>1. IInv => RunsOncePerLife
  BY DEF IInv, RunsOncePerLife, Attempts, Running, Alive
<1> QED
  BY <1>1, Invariance, PTL

(* Tasks of one requester start in the order in which they were accepted:   *)
(* an earlier task that is neither done nor failed would still be in the    *)
(* queue, before the head.                                                  *)
LEMMA StartsInOrderStep ==
  ASSUME IInv, Next, NEW t \in TaskId, tasks[t].status = "pending",
         tasks'[t].status = "running", NEW u \in 1..(t - 1), tasks[u].oid = tasks[t].oid
  PROVE  tasks[u].status \in {"done", "failed"}
<1> USE DEF IInv
<1>1. PICK r \in Requester : FirstNonEmpty(r) /\ worker = "scanning" /\ t = Head(queues[r])
                             /\ queues' = [queues EXCEPT ![r] = Tail(@)]
  <2>1. CASE \E r \in Requester : Enqueue(r)
    BY <2>1 DEF Enqueue, TypeOK, TaskId
  <2>2. CASE \E r \in Requester : Take(r)
    <3>1. PICK r \in Requester : Take(r)
      BY <2>2
    <3>2. t = Head(queues[r])
      BY <3>1 DEF Take, TypeOK, TaskId
    <3> QED
      BY <3>1, <3>2 DEF Take
  <2>3. CASE Sleep \/ Wake
    BY <2>3 DEF Sleep, Wake, table
  <2>4. CASE Finish("done") \/ Finish("failed")
    <3>1. PICK s \in {"done", "failed"} : Finish(s)
      BY <2>4
    <3>2. tasks' = [tasks EXCEPT ![current].status = s] /\ tasks \in Seq(Task)
      BY <3>1 DEF Finish, SetStatus, TypeOK
    <3>3. tasks[t] \in Task
      BY RowType
    <3>4. CASE t = current
      <4>1. tasks'[t] = [tasks[t] EXCEPT !.status = s]
        BY <3>2, <3>4 DEF TaskId
      <4>2. tasks'[t].status = s
        BY <3>3, <4>1 DEF Task
      <4> QED
        BY <4>2
    <3>5. CASE t # current
      <4>1. tasks'[t] = tasks[t]
        BY <3>2, <3>5 DEF TaskId
      <4> QED
        BY <4>1
    <3> QED
      BY <3>4, <3>5
  <2>5. CASE Startup
    BY <2>5 DEF Startup, Recover, ReplayNext, Start, table
  <2>6. CASE Crash
    BY <2>6 DEF Crash, table
  <2>7. CASE WorkerDies
    <3>1. PICK r \in Requester : DieInNext(r)
      BY <2>7 DEF WorkerDies, DieInFinish, table
    <3>2. t = Head(queues[r])
      BY <3>1 DEF DieInNext, TypeOK, TaskId
    <3> QED
      BY <3>1, <3>2 DEF DieInNext
  <2> QED
    BY <2>1, <2>2, <2>3, <2>4, <2>5, <2>6, <2>7 DEF Next, Worker
<1>2. phase = "up" /\ current = 0
  BY <1>1 DEF WorkerState, TypeOK
<1>3. u \in TaskId /\ u < t /\ tasks[t].oid = r /\ u # 0 /\ TaskId \subseteq Nat
  <2>1. t \in Nat /\ t \in 1..Len(tasks) /\ Len(tasks) \in Nat
    BY TaskIdIsInterval
  <2>2. u \in TaskId /\ u < t /\ u # 0 /\ TaskId \subseteq Nat
    BY <2>1, TaskIdIsInterval
  <2>3. tasks[t].oid = r
    BY <1>1, PopFacts
  <2> QED
    BY <2>2, <2>3
<1>4. tasks[u].status # "running"
  BY <1>1, <1>2, <1>3 DEF Running, Alive
<1>5. tasks[u].status # "pending"
  <2> SUFFICES ASSUME tasks[u].status = "pending" PROVE FALSE
    OBVIOUS
  <2>1. PICK i \in DOMAIN queues[r] : queues[r][i] = u
    BY <1>1, <1>2, <1>3 DEF NoneMissing, Alive
  <2>2. /\ queues[r] # <<>> /\ queues[r] \in Seq(Nat)
        /\ \A j \in DOMAIN queues[r] : queues[r][j] = t \/ t < queues[r][j]
    <3>1. queues[r] # <<>> /\ queues[r] \in Seq(Nat)
      BY <1>1 DEF FirstNonEmpty, TypeOK
    <3>2. 1 \in DOMAIN queues[r] /\ queues[r][1] = t /\ DOMAIN queues[r] \subseteq Nat \ {0}
      BY <1>1, <3>1
    <3>3. \A j \in DOMAIN queues[r] : j = 1 \/ 1 < j
      BY <3>2
    <3> QED
      BY <3>1, <3>2, <3>3 DEF Ordered
  <2>3. u = t \/ t < u
    BY <2>1, <2>2
  <2>4. t \in Nat
    BY <1>3
  <2> QED
    BY <1>3, <2>3, <2>4
<1>6. tasks[u].status \in Status
  BY <1>3, RowType
<1> QED
  BY <1>4, <1>5, <1>6 DEF Status

(* StartsInOrder: a task starts only when the earlier ones of its requester *)
(* have ended, in whichever life of the process they were accepted.         *)
THEOREM StartsInOrderSafe == Spec => StartsInOrder
<1>1. IInv /\ [Next]_vars =>
        [\A t \in TaskId :
           (tasks[t].status = "pending" /\ tasks'[t].status = "running") =>
             \A u \in 1..(t - 1) :
               tasks[u].oid = tasks[t].oid => tasks[u].status \in {"done", "failed"}]_vars
  BY StartsInOrderStep
<1> QED
  BY <1>1, Invariance, PTL DEF Spec, StartsInOrder

(* A finished row never changes again: the head of a queue is pending, the  *)
(* task being dispatched is running, and recovery touches running rows.     *)
LEMMA FinishedStep ==
  ASSUME IInv, Next, NEW t \in TaskId, tasks[t].status \in {"done", "failed"}
  PROVE  tasks'[t] = tasks[t]
<1> USE DEF IInv
<1>1. t \in DOMAIN tasks /\ tasks \in Seq(Task)
  BY DEF TaskId, TypeOK
<1>2. CASE \E r \in Requester : Enqueue(r)
  BY <1>1, <1>2 DEF Enqueue
<1>3. ASSUME NEW r \in Requester, FirstNonEmpty(r),
             queues' = [queues EXCEPT ![r] = Tail(@)]
      PROVE  t # Head(queues[r])
  BY <1>3, PopFacts
<1>4. CASE \E r \in Requester : Take(r)
  <2>1. PICK r \in Requester : Take(r)
    BY <1>4
  <2>2. t # Head(queues[r])
    BY <2>1, <1>3 DEF Take
  <2> QED
    BY <1>1, <2>1, <2>2 DEF Take
<1>5. CASE Finish("done") \/ Finish("failed")
  <2>1. PICK s \in {"done", "failed"} : Finish(s)
    BY <1>5
  <2>2. tasks[current].status = "running"
    BY <2>1 DEF Finish, Running, Alive, WorkerState, TypeOK
  <2> QED
    BY <1>1, <2>1, <2>2 DEF Finish, SetStatus
<1>6. CASE Startup
  BY <1>6 DEF Startup, Recover, ReplayNext, Start, table
<1>7. CASE Sleep \/ Wake \/ Crash
  BY <1>7 DEF Sleep, Wake, Crash, table
<1>8. CASE WorkerDies
  <2>1. CASE DieInFinish
    BY <2>1 DEF DieInFinish, table
  <2>2. CASE \E r \in Requester : DieInNext(r)
    <3>1. PICK r \in Requester : DieInNext(r)
      BY <2>2
    <3>2. t # Head(queues[r])
      BY <3>1, <1>3 DEF DieInNext
    <3> QED
      BY <1>1, <3>1, <3>2 DEF DieInNext
  <2> QED
    BY <1>8, <2>1, <2>2 DEF WorkerDies
<1> QED
  BY <1>2, <1>4, <1>5, <1>6, <1>7, <1>8 DEF Next, Worker

(* FinishedStaysFinished: mark_done and mark_failed are final; recovery and *)
(* replay leave finished rows alone.                                        *)
THEOREM FinishedSafe == Spec => FinishedStaysFinished
<1>1. IInv /\ [Next]_vars =>
        [\A t \in TaskId : tasks[t].status \in {"done", "failed"} => tasks'[t] = tasks[t]]_vars
  BY FinishedStep
<1> QED
  BY <1>1, Invariance, PTL DEF Spec, FinishedStaysFinished

-----------------------------------------------------------------------------
(* The queue is the scan with ids: every step of TaskQueue is one of        *)
(* QueueScan under the mapping of Scan, or changes nothing of it.           *)

(* An increasing queue of ids up to n is no longer than n. *)
LEMMA IncreasingIsShort ==
  ASSUME NEW q \in Seq(Nat), NEW n \in Nat,
         \A i, j \in DOMAIN q : i < j => q[i] < q[j],
         \A i \in DOMAIN q : q[i] \in 1..n
  PROVE  Len(q) <= n
<1> DEFINE T == {i \in Nat : i \in DOMAIN q => i <= q[i]}
<1>1. DOMAIN q = 1..Len(q) /\ Len(q) \in Nat
  OBVIOUS
<1>2. 0 \in T
  BY <1>1
<1>3. ASSUME NEW i \in Nat, i \in T PROVE i + 1 \in T
  <2> SUFFICES ASSUME i + 1 \in DOMAIN q PROVE i + 1 <= q[i + 1]
    OBVIOUS
  <2>1. CASE i = 0
    BY <2>1
  <2>2. CASE i # 0
    <3>1. i \in DOMAIN q /\ i < i + 1
      BY <1>1, <2>2
    <3>2. i <= q[i] /\ q[i] < q[i + 1] /\ q[i] \in Nat /\ q[i + 1] \in Nat
      BY <1>3, <3>1
    <3> QED
      BY <3>2
  <2> QED
    BY <2>1, <2>2
<1>4. T = Nat
  BY <1>2, <1>3, InductionOnSet
<1>5. CASE q = <<>>
  BY <1>5
<1>6. CASE q # <<>>
  <2>1. Len(q) \in DOMAIN q
    BY <1>1, <1>6
  <2>2. Len(q) <= q[Len(q)] /\ q[Len(q)] \in 1..n
    BY <1>1, <1>4, <2>1
  <2> QED
    BY <1>1, <2>2
<1> QED
  BY <1>5, <1>6

(* What waits in memory has a row, and was put if the replay goes on. *)
LEMMA QueueIsShort ==
  ASSUME IInv, NEW r \in Requester
  PROVE  /\ queues[r] \in Seq(Nat) /\ Len(queues[r]) \in Nat
         /\ Len(queues[r]) <= Len(tasks)
         /\ phase = "replaying" => Len(queues[r]) <= replayed
<1>1. queues[r] \in Seq(Nat) /\ Len(tasks) \in Nat /\ replayed \in Nat
  BY DEF IInv, TypeOK
<1>2. \A i, j \in DOMAIN queues[r] : i < j => queues[r][i] < queues[r][j]
  BY DEF IInv, Ordered
<1>3. \A i \in DOMAIN queues[r] :
        queues[r][i] \in 1..Len(tasks) /\ (phase = "replaying" => queues[r][i] \in 1..replayed)
  BY <1>1, TaskIdIsInterval DEF IInv, Queued
<1>4. Len(queues[r]) <= Len(tasks)
  BY <1>1, <1>2, <1>3, IncreasingIsShort
<1>5. phase = "replaying" => Len(queues[r]) <= replayed
  BY <1>1, <1>2, <1>3, IncreasingIsShort
<1> QED
  BY <1>1, <1>4, <1>5

(* The queue as the scan sees it. *)
Backlog == [r \in Requester |-> Len(queues[r])]
Serving == IF worker = "busy" THEN {tasks[current].oid} ELSE {}

(* A put is an arrival. *)
LEMMA PutArrives ==
  ASSUME IInv, NEW r \in Requester, NEW id \in Nat, Put(r, id), Len(queues[r]) < MaxTasks,
         Serving' = Serving
  PROVE  Scan!Arrive(r)
<1>1. queues \in [Requester -> Seq(Nat)]
  BY DEF IInv, TypeOK
<1>2. queues' = [queues EXCEPT ![r] = Append(@, id)]
  BY DEF Put
<1>3. Len(Append(queues[r], id)) = Len(queues[r]) + 1
  BY <1>1
<1>4. Backlog' = [Backlog EXCEPT ![r] = @ + 1]
  BY <1>1, <1>2, <1>3 DEF Backlog
<1>5. order' = IF Scan!Listed(r) THEN order ELSE Append(order, r)
  BY DEF Put, Scan!Listed
<1>6. Backlog[r] < MaxTasks
  BY DEF Backlog
<1> QED
  BY <1>4, <1>5, <1>6 DEF Scan!Arrive, Backlog, Serving

(* Steps that take the head of the queue found first. *)
LEMMA PopIsFirst ==
  ASSUME IInv, NEW r \in Requester, FirstNonEmpty(r), queues' = [queues EXCEPT ![r] = Tail(@)]
  PROVE  /\ Scan!First(r) /\ Backlog' = [Backlog EXCEPT ![r] = @ - 1]
         /\ Head(queues[r]) \in TaskId /\ tasks[Head(queues[r])].oid = r
<1>1. queues \in [Requester -> Seq(Nat)] /\ order \in Seq(Requester)
  BY DEF IInv, TypeOK
<1>2. PICK i \in DOMAIN order : /\ order[i] = r
                                /\ queues[r] # <<>>
                                /\ \A j \in 1..(i - 1) : queues[order[j]] = <<>>
  BY DEF FirstNonEmpty
<1>3. Len(queues[r]) \in Nat /\ Len(queues[r]) > 0 /\ Len(Tail(queues[r])) = Len(queues[r]) - 1
  BY <1>1, <1>2
<1>4. \A j \in 1..(i - 1) : order[j] \in Requester /\ Len(queues[order[j]]) = 0
  BY <1>1, <1>2
<1>5. Scan!First(r)
  BY <1>2, <1>3, <1>4 DEF Scan!First
<1>6. Backlog' = [Backlog EXCEPT ![r] = @ - 1]
  BY <1>1, <1>3 DEF Backlog
<1>7. Head(queues[r]) \in TaskId /\ tasks[Head(queues[r])].oid = r
  BY <1>1, <1>2, TailElements DEF IInv, Queued
<1> QED
  BY <1>5, <1>6, <1>7

(* Every step is one of the scan: the row of the task at hand keeps its     *)
(* requester, and no requester has more waiting than there are rows.        *)
LEMMA ScanSteps ==
  ASSUME IInv, [Next]_vars
  PROVE  [Scan!Next]_(Scan!vars)
<1> USE DEF Scan!Next, Scan!Run, Scan!Consume
<1>a. UNCHANGED <<queues, order>> /\ Serving' = Serving => UNCHANGED Scan!vars
  BY DEF Scan!vars, Serving
<1>b. MaxTasks \in Nat /\ Len(tasks) \in Nat /\ Len(tasks) <= MaxTasks /\ replayed \in Nat
  BY TaskQueueAssumption DEF IInv, TypeOK
<1>1. ASSUME NEW r \in Requester, Enqueue(r) PROVE Scan!Next
  <2>1. Len(queues[r]) < MaxTasks
    BY <1>b, <1>1, QueueIsShort DEF Enqueue
  <2>2. Serving' = Serving
    <3>1. worker = "busy" => current \in TaskId
      BY DEF IInv, WorkerState
    <3>2. tasks' = Append(tasks, [oid |-> r, status |-> "pending", attempts |-> 0])
          /\ UNCHANGED <<worker, current>>
      BY <1>1 DEF Enqueue, process
    <3>3. \A t \in TaskId : tasks'[t] = tasks[t]
      BY <3>2 DEF IInv, TypeOK, TaskId
    <3> QED
      BY <3>1, <3>2, <3>3 DEF Serving
  <2>3. Put(r, Len(tasks) + 1) /\ Len(tasks) + 1 \in Nat
    BY <1>1 DEF Enqueue, IInv, TypeOK
  <2> QED
    BY <2>1, <2>2, <2>3, PutArrives
<1>2. CASE ReplayNext
  <2>1. worker = "off" /\ worker' = "off" /\ phase = "replaying" /\ replayed < Len(tasks)
    BY <1>2 DEF ReplayNext, IInv, WorkerState
  <2>2. Serving' = Serving
    BY <2>1 DEF Serving
  <2>3. CASE tasks[replayed + 1].status = "pending"
    <3> DEFINE id == replayed + 1
               r  == tasks[id].oid
    <3>1. id \in TaskId /\ id \in Nat /\ r \in Requester
      BY <2>1, TaskIdIsInterval, RowType DEF IInv, TypeOK
    <3>2. Put(r, id)
      BY <1>2, <2>3 DEF ReplayNext
    <3>3. Len(queues[r]) < MaxTasks
      <4>1. Len(queues[r]) <= replayed /\ Len(queues[r]) \in Nat
        <5> HIDE DEF r
        <5> QED
          BY <2>1, <3>1, QueueIsShort
      <4> QED
        BY <1>b, <2>1, <4>1
    <3> HIDE DEF r, id
    <3> QED
      BY <2>2, <3>1, <3>2, <3>3, PutArrives
  <2>4. CASE tasks[replayed + 1].status # "pending"
    BY <1>2, <1>a, <2>2, <2>4 DEF ReplayNext
  <2> QED
    BY <2>3, <2>4
<1>3. CASE Recover \/ Start
  BY <1>3, <1>a DEF Recover, Start, memory, Serving, IInv, WorkerState
<1>4. CASE Crash
  <2>1. Backlog' = [r \in Requester |-> 0] /\ order' = <<>> /\ Serving' = {}
    BY <1>4 DEF Crash, Backlog, NoQueues, Serving
  <2> QED
    BY <2>1 DEF Scan!Restart, Scan!Idle, Backlog, Serving
<1>5. ASSUME NEW r \in Requester, Take(r) PROVE Scan!Next
  <2>1. /\ FirstNonEmpty(r) /\ queues' = [queues EXCEPT ![r] = Tail(@)] /\ order' = order
        /\ worker = "scanning" /\ worker' = "busy" /\ current' = Head(queues[r])
        /\ tasks' = [tasks EXCEPT ![current'].status = "running", ![current'].attempts = @ + 1]
    BY <1>5 DEF Take
  <2>2. /\ Scan!First(r) /\ Backlog' = [Backlog EXCEPT ![r] = @ - 1]
        /\ current' \in TaskId /\ tasks[current'].oid = r
    BY <2>1, PopIsFirst
  <2>3. tasks'[current'].oid = r
    <3>1. tasks[current'] \in Task
      BY <2>2, RowType DEF IInv
    <3> QED
      BY <2>1, <2>2, <3>1 DEF TaskId, Task
  <2>4. Serving = {} /\ Serving' = {r}
    BY <2>1, <2>3 DEF Serving
  <2> QED
    BY <2>1, <2>2, <2>4 DEF Scan!Serve, Backlog, Serving
<1>6. CASE Sleep \/ Wake
  BY <1>6, <1>a DEF Sleep, Wake, memory, Serving
<1>7. ASSUME NEW s, Finish(s) PROVE Scan!Next
  <2>1. Serving # {} /\ Serving' = {} /\ UNCHANGED <<queues, order>>
    BY <1>7 DEF Finish, Serving, memory
  <2> QED
    BY <2>1 DEF Scan!Finish, Serving
<1>8. CASE WorkerDies
  <2>1. order' = order /\ worker' = "dead"
    BY <1>8 DEF WorkerDies
  <2>2. CASE DieInFinish
    <3>1. Serving # {} /\ Serving' = {} /\ UNCHANGED <<queues, order>>
      BY <2>1, <2>2 DEF DieInFinish, Serving
    <3> QED
      BY <3>1 DEF Scan!Finish, Serving
  <2>3. ASSUME NEW r \in Requester, DieInNext(r) PROVE Scan!Next
    <3>1. /\ FirstNonEmpty(r) /\ queues' = [queues EXCEPT ![r] = Tail(@)]
          /\ Serving = {} /\ Serving' = {}
      BY <2>1, <2>3 DEF DieInNext, Serving
    <3>2. Scan!First(r) /\ Backlog' = [Backlog EXCEPT ![r] = @ - 1]
      BY <3>1, PopIsFirst
    <3> QED
      BY <2>1, <3>1, <3>2 DEF Scan!Drop, Backlog, Serving
  <2> QED
    BY <1>8, <2>2, <2>3 DEF WorkerDies
<1>9. CASE UNCHANGED vars
  BY <1>9, <1>a DEF vars, table, memory, process, Serving
<1> QED
  BY <1>1, <1>2, <1>3, <1>4, <1>5, <1>6, <1>7, <1>8, <1>9 DEF Next, Worker, Startup

(* The queue of the code serves requesters as the abstract scan does.       *)
THEOREM ScanRefined == Spec => ImplementsScan
<1>1. Init => Scan!Init
  <2> SUFFICES ASSUME Init PROVE Scan!Init
    OBVIOUS
  <2>1. Backlog = [r \in Requester |-> 0] /\ order = <<>> /\ Serving = {}
    BY DEF Init, Backlog, NoQueues, Serving
  <2> QED
    BY <2>1 DEF Scan!Init, Scan!Idle, Backlog, Serving
<1>2. IInv /\ [Next]_vars => [Scan!Next]_(Scan!vars)
  BY ScanSteps
<1> QED
  BY <1>1, <1>2, Invariance, PTL DEF Spec, ImplementsScan, Scan!Spec
-----------------------------------------------------------------------------
(* The inbox: what a requester has sent and is not finished yet, whichever  *)
(* of its messages are in memory, in the table only, or with the worker.    *)

(* The task at hand is the oldest of its requester that is not finished.    *)
CurrentFirst ==
  worker = "busy" => \A t \in Unfinished(tasks[current].oid) : current <= t

MInv == IInv /\ CurrentFirst

Box == [r \in Requester |-> Unread(r)]

(* Unread lists the rows that are not finished. *)
LEMMA UnreadLists ==
  ASSUME NEW r
  PROVE  /\ TypeOK => Listing(Unread(r), Unfinished(r)) /\ Unfinished(r) \subseteq Nat
         /\ TypeOK' => Listing(Unread(r)', Unfinished(r)') /\ Unfinished(r)' \subseteq Nat
<1>1. ASSUME TypeOK PROVE Listing(Unread(r), Unfinished(r)) /\ Unfinished(r) \subseteq Nat
  <2>1. TaskId = 1..Len(tasks) /\ Len(tasks) \in Nat
    BY <1>1 DEF TypeOK, TaskId
  <2>2. Unfinished(r) \subseteq 1..Len(tasks)
    BY <2>1 DEF Unfinished
  <2>3. Listing(Select([t \in 1..Len(tasks) |-> t], Unfinished(r)), Unfinished(r))
    BY <2>1, <2>2, SelectLists
  <2> QED
    BY <2>1, <2>2, <2>3 DEF Unread
<1>2. ASSUME TypeOK' PROVE Listing(Unread(r)', Unfinished(r)') /\ Unfinished(r)' \subseteq Nat
  <2>1. TaskId' = 1..Len(tasks') /\ Len(tasks') \in Nat
    BY <1>2 DEF TypeOK, TaskId
  <2>2. Unfinished(r)' \subseteq 1..Len(tasks')
    BY <2>1 DEF Unfinished
  <2>3. Listing(Select([t \in 1..Len(tasks') |-> t], Unfinished(r)'), Unfinished(r)')
    BY <2>1, <2>2, SelectLists
  <2> QED
    BY <2>1, <2>2, <2>3 DEF Unread
<1> QED
  BY <1>1, <1>2

(* Rows whose status changes, but not to a final one or from one.           *)
Finished(s) == s \in {"done", "failed"}

LEMMA SameUnfinished ==
  ASSUME TypeOK, TypeOK', TaskId' = TaskId,
         \A t \in TaskId : /\ tasks'[t].oid = tasks[t].oid
                           /\ Finished(tasks'[t].status) <=> Finished(tasks[t].status)
  PROVE  (\A r : Unfinished(r)' = Unfinished(r)) /\ Box' = Box
<1>1. ASSUME NEW r PROVE Unfinished(r)' = Unfinished(r)
  <2>1. \A t : t \in Unfinished(r)' <=> t \in Unfinished(r)
    BY DEF Unfinished, Finished
  <2> QED
    BY <2>1
<1>2. ASSUME NEW r PROVE Unread(r)' = Unread(r)
  BY <1>1, UnreadLists, ListingUnique
<1> QED
  BY <1>1, <1>2 DEF Box

(* What an enqueue adds to the rows. *)
LEMMA NewRow ==
  ASSUME IInv, NEW r \in Requester, Enqueue(r)
  PROVE  /\ Len(tasks) + 1 \in 1..MaxTasks
         /\ Unfinished(r)' = Unfinished(r) \cup {Len(tasks) + 1}
         /\ \A p : p # r => Unfinished(p)' = Unfinished(p)
         /\ \A t \in TaskId : t \in Nat /\ t < Len(tasks) + 1 /\ tasks'[t] = tasks[t]
<1> DEFINE id  == Len(tasks) + 1
           row == [oid |-> r, status |-> "pending", attempts |-> 0]
<1>1. tasks \in Seq(Task) /\ Len(tasks) < MaxTasks /\ tasks' = Append(tasks, row)
  BY DEF IInv, TypeOK, Enqueue
<1>2. row \in Task
  BY DEF Task, Status
<1>3. row.oid = r /\ row.status = "pending"
  OBVIOUS
<1> HIDE DEF row
<1>4. TaskId' = TaskId \cup {id} /\ tasks'[id] = row /\ \A t \in TaskId : tasks'[t] = tasks[t]
  BY <1>1, <1>2, AppendElements DEF TaskId
<1>5. \A t \in TaskId : t \in Nat /\ t < id
  BY <1>1 DEF TaskId
<1>6. id \in 1..MaxTasks
  BY <1>1, TaskQueueAssumption DEF TaskQueueAssumption
<1> HIDE DEF id
<1>7. \A p : Unfinished(p)' = IF p = r THEN Unfinished(p) \cup {id} ELSE Unfinished(p)
  BY <1>3, <1>4, <1>5 DEF Unfinished
<1> QED
  BY <1>4, <1>5, <1>6, <1>7 DEF id

(* What the end of a task takes from them. *)
LEMMA FinishedRow ==
  ASSUME IInv, NEW s \in {"done", "failed"}, Finish(s), NEW r, r = tasks[current].oid
  PROVE  /\ current \in Unfinished(r) /\ r \in Requester
         /\ Unfinished(r)' = Unfinished(r) \ {current}
         /\ \A p : p # r => Unfinished(p)' = Unfinished(p)
<1>1. worker = "busy" /\ tasks' = [tasks EXCEPT ![current].status = s]
  BY DEF Finish, SetStatus
<1>2. current \in TaskId /\ phase = "up" /\ worker # "dead"
  BY <1>1 DEF IInv, WorkerState
<1>3. tasks[current].status = "running" /\ tasks[current] \in Task
  BY <1>2, RowType DEF IInv, Running, Alive
<1> DEFINE row == [tasks[current] EXCEPT !.status = s]
<1>4. row.oid = r /\ row.status = s
  BY <1>3 DEF Task
<1>5. tasks \in Seq(Task) /\ tasks' = [tasks EXCEPT ![current] = row]
  BY <1>1 DEF IInv, TypeOK
<1> HIDE DEF row
<1>6. /\ TaskId' = TaskId /\ tasks'[current] = row
      /\ \A t \in TaskId : t # current => tasks'[t] = tasks[t]
  BY <1>2, <1>5 DEF TaskId
<1>7. \A p : Unfinished(p)' = IF p = r THEN Unfinished(p) \ {current} ELSE Unfinished(p)
  BY <1>2, <1>3, <1>4, <1>6 DEF Unfinished
<1>8. current \in Unfinished(r)
  BY <1>2, <1>3 DEF Unfinished
<1>9. r \in Requester
  BY <1>3 DEF Task
<1> QED
  BY <1>7, <1>8, <1>9

(* Every other step leaves the unfinished rows as they are. *)
LEMMA OthersFinishNothing ==
  ASSUME IInv, IInv', [Next]_vars, ~ (\E r \in Requester : Enqueue(r)),
         ~ Finish("done"), ~ Finish("failed")
  PROVE  /\ TaskId' = TaskId
         /\ \A t \in TaskId : tasks'[t].oid = tasks[t].oid
         /\ (\A r : Unfinished(r)' = Unfinished(r)) /\ Box' = Box
<1> USE DEF IInv
<1>1. /\ TaskId' = TaskId
      /\ \A t \in TaskId : /\ tasks'[t].oid = tasks[t].oid
                           /\ Finished(tasks'[t].status) <=> Finished(tasks[t].status)
  <2>1. CASE tasks' = tasks
    BY <2>1 DEF TaskId
  <2>2. CASE Recover
    <3>1. tasks' = [t \in TaskId |->
                      IF tasks[t].status = "running"
                      THEN [tasks[t] EXCEPT !.status = "pending"] ELSE tasks[t]]
      BY <2>2 DEF Recover
    <3>2. TaskId' = TaskId
      BY <3>1 DEF TaskId
    <3>3. ASSUME NEW t \in TaskId
          PROVE  /\ tasks'[t].oid = tasks[t].oid
                 /\ Finished(tasks'[t].status) <=> Finished(tasks[t].status)
      <4>1. tasks[t] \in Task
        BY RowType
      <4>2. CASE tasks[t].status = "running"
        <5>1. tasks'[t] = [tasks[t] EXCEPT !.status = "pending"]
          BY <3>1, <4>2
        <5> QED
          BY <4>1, <4>2, <5>1 DEF Task, Finished
      <4>3. CASE tasks[t].status # "running"
        BY <3>1, <4>3
      <4> QED
        BY <4>2, <4>3
    <3> QED
      BY <3>2, <3>3
  <2>3. ASSUME NEW t \in TaskId, tasks[t].status = "pending",
               tasks' = [tasks EXCEPT ![t].status = "running", ![t].attempts = @ + 1]
        PROVE  <1>1
    BY <2>3, RunningRow DEF Finished
  <2>4. CASE \E r \in Requester : Take(r)
    <3>1. PICK r \in Requester : Take(r)
      BY <2>4
    <3>2. Head(queues[r]) \in TaskId /\ tasks[Head(queues[r])].status = "pending"
      BY <3>1, PopFacts DEF Take
    <3>3. tasks' = [tasks EXCEPT ![Head(queues[r])].status = "running",
                                 ![Head(queues[r])].attempts = @ + 1]
      BY <3>1 DEF Take
    <3> QED
      BY <2>3, <3>2, <3>3
  <2>5. CASE WorkerDies
    <3>1. CASE DieInFinish
      BY <2>1, <3>1 DEF DieInFinish, table
    <3>2. CASE \E r \in Requester : DieInNext(r)
      <4>1. PICK r \in Requester : DieInNext(r)
        BY <3>2
      <4>2. Head(queues[r]) \in TaskId /\ tasks[Head(queues[r])].status = "pending"
        BY <4>1, PopFacts DEF DieInNext
      <4> QED
        BY <2>1, <2>3, <4>1, <4>2 DEF DieInNext
    <3> QED
      BY <2>5, <3>1, <3>2 DEF WorkerDies
  <2>6. tasks' = tasks \/ Recover \/ (\E r \in Requester : Take(r)) \/ WorkerDies
    BY DEF Next, Worker, Startup, ReplayNext, Start, Crash, Sleep, Wake, table, vars
  <2> QED
    BY <2>1, <2>2, <2>4, <2>5, <2>6
<1> QED
  BY <1>1, SameUnfinished

(* The task taken is the oldest that is not finished, and what comes later  *)
(* is younger.                                                              *)
LEMMA CurrentFirstStep ==
  ASSUME MInv, IInv', [Next]_vars
  PROVE  CurrentFirst'
<1> SUFFICES ASSUME worker' = "busy", NEW t \in Unfinished(tasks[current].oid)'
             PROVE  current' <= t
  BY DEF CurrentFirst
<1> USE DEF MInv
<1>1. CASE \E r \in Requester : Enqueue(r)
  <2>1. PICK r \in Requester : Enqueue(r)
    BY <1>1
  <2>2. worker = "busy" /\ current' = current /\ current \in TaskId
    BY <2>1 DEF Enqueue, process, IInv, WorkerState
  <2>3. current \in Nat /\ current < Len(tasks) + 1 /\ tasks'[current] = tasks[current]
    BY <2>1, <2>2, NewRow
  <2>4. t \in Unfinished(tasks[current].oid) \/ t = Len(tasks) + 1
    BY <2>1, <2>2, <2>3, NewRow
  <2>5. Len(tasks) \in Nat
    BY DEF IInv, TypeOK
  <2> QED
    BY <2>2, <2>3, <2>4, <2>5 DEF CurrentFirst
<1>2. CASE \E r \in Requester : Take(r)
  <2>1. PICK r \in Requester : Take(r)
    BY <1>2
  <2>2. /\ current' \in TaskId /\ tasks[current'].status = "pending"
        /\ tasks' = [tasks EXCEPT ![current'].status = "running", ![current'].attempts = @ + 1]
        /\ Next
    BY <2>1, PopFacts DEF Take, Next, Worker
  <2>3. tasks'[current'].status = "running" /\ tasks'[current'].oid = tasks[current'].oid
    BY <2>2, RunningRow DEF IInv
  <2>4. \A u \in 1..(current' - 1) :
          tasks[u].oid = tasks[current'].oid => tasks[u].status \in {"done", "failed"}
    BY <2>2, <2>3, StartsInOrderStep
  <2>5. t \in Unfinished(tasks[current'].oid)
    <3>1. \A p : Unfinished(p)' = Unfinished(p)
      <4>1. worker = "scanning" /\ worker' = "busy"
        BY <2>1 DEF Take
      <4>2. ~ Finish("done") /\ ~ Finish("failed") /\ ~ (\E p \in Requester : Enqueue(p))
        BY <4>1 DEF Finish, Enqueue, process
      <4> QED
        BY <4>2, OthersFinishNothing
    <3> QED
      BY <2>3, <3>1
  <2>6. current' \in Nat /\ t \in Nat \ {0}
    BY <2>2, <2>5, TaskIdIsInterval DEF IInv, Unfinished
  <2>7. tasks[t].oid = tasks[current'].oid /\ tasks[t].status \notin {"done", "failed"}
    BY <2>5 DEF Unfinished
  <2>8. PICK k \in Nat : k = current'
    BY <2>6
  <2>9. t \notin 1..(k - 1)
    BY <2>4, <2>7, <2>8
  <2>10. k <= t
    BY <2>6, <2>9
  <2> QED
    BY <2>8, <2>10
<1>3. CASE UNCHANGED vars
  <2>1. UNCHANGED <<tasks, worker, current>>
    BY <1>3 DEF vars, table, process
  <2> QED
    BY <2>1 DEF CurrentFirst, Unfinished, TaskId
<1>4. worker' # "busy"
      \/ (\E r \in Requester : Enqueue(r)) \/ (\E r \in Requester : Take(r)) \/ UNCHANGED vars
  <2>1. CASE Startup
    BY <2>1 DEF Startup, Recover, ReplayNext, Start, IInv, WorkerState
  <2>2. CASE Sleep \/ Wake \/ Finish("done") \/ Finish("failed") \/ Crash \/ WorkerDies
    BY <2>2 DEF Sleep, Wake, Finish, Crash, WorkerDies
  <2> QED
    BY <2>1, <2>2 DEF Next, Worker
<1> QED
  BY <1>1, <1>2, <1>3, <1>4

(* The oldest unfinished task of its requester is the one at hand, always.  *)
THEOREM OldestFirst == Spec => []MInv
<1>1. Init => MInv
  BY InitInv DEF MInv, CurrentFirst, Init
<1>2. MInv /\ [Next]_vars => MInv'
  BY NextInv, CurrentFirstStep DEF MInv
<1> QED
  BY <1>1, <1>2, PTL DEF Spec

(* Every step is one of the inbox, or nothing in it. *)
LEMMA InboxSteps ==
  ASSUME MInv, IInv', [Next]_vars
  PROVE  [Mail!Next]_(Mail!vars)
<1> USE DEF Mail!Next
<1>a. IInv /\ TypeOK /\ TypeOK'
  BY DEF MInv, IInv
<1>b. \A r : /\ Listing(Unread(r), Unfinished(r)) /\ Listing(Unread(r)', Unfinished(r)')
             /\ Unfinished(r) \subseteq Nat
  BY <1>a, UnreadLists
<1>c. ASSUME Box' = Box, Serving' = Serving PROVE UNCHANGED Mail!vars
  BY <1>c DEF Mail!vars, Box, Serving
<1>1. CASE \E r \in Requester : Enqueue(r)
  <2>1. PICK r \in Requester : Enqueue(r)
    BY <1>1
  <2> DEFINE id == Len(tasks) + 1
  <2>2. /\ id \in 1..MaxTasks /\ id \in Nat
        /\ Unfinished(r)' = Unfinished(r) \cup {id}
        /\ \A p : p # r => Unfinished(p)' = Unfinished(p)
        /\ \A t \in TaskId : t \in Nat /\ t < id /\ tasks'[t] = tasks[t]
    BY <1>a, <2>1, NewRow
  <2> HIDE DEF id
  <2>3. \A x \in Unfinished(r) : x < id
    BY <2>2 DEF Unfinished
  <2>4. Unread(r)' = Append(Unread(r), id)
    <3>1. Listing(Append(Unread(r), id), Unfinished(r)')
      BY <1>b, <2>2, <2>3, ListingAppend
    <3> QED
      BY <1>b, <3>1, ListingUnique
  <2>5. \A p : p # r => Unread(p)' = Unread(p)
    BY <1>b, <2>2, ListingUnique
  <2>6. Box' = [Box EXCEPT ![r] = Append(@, id)]
    BY <2>4, <2>5 DEF Box
  <2>7. Serving' = Serving
    <3>1. UNCHANGED <<worker, current>> /\ (worker = "busy" => current \in TaskId)
      BY <1>a, <2>1 DEF Enqueue, process, IInv, WorkerState
    <3> QED
      BY <2>2, <3>1 DEF Serving
  <2>8. Mail!Arrive(r, id)
    BY <2>6, <2>7 DEF Mail!Arrive, Box, Serving
  <2> QED
    BY <2>2, <2>8
<1>2. ASSUME NEW s \in {"done", "failed"}, Finish(s) PROVE Mail!Next
  <2> PICK r : r = tasks[current].oid
    OBVIOUS
  <2>1. /\ current \in Unfinished(r) /\ r \in Requester
        /\ Unfinished(r)' = Unfinished(r) \ {current}
        /\ \A p : p # r => Unfinished(p)' = Unfinished(p)
    BY <1>a, <1>2, FinishedRow
  <2>2. worker = "busy" /\ worker' # "busy"
    BY <1>2 DEF Finish
  <2>3. Serving = {r} /\ Serving' = {}
    BY <2>2 DEF Serving
  <2>4. \A x \in Unfinished(r) : current <= x
    BY <2>2 DEF MInv, CurrentFirst
  <2>5. Unread(r)' = Tail(Unread(r))
    <3>1. Listing(Tail(Unread(r)), Unfinished(r)')
      BY <1>b, <2>1, <2>4, ListingTail
    <3> QED
      BY <1>b, <3>1, ListingUnique
  <2>6. \A p : p # r => Unread(p)' = Unread(p)
    BY <1>b, <2>1, ListingUnique
  <2>7. Box' = [Box EXCEPT ![r] = Tail(@)]
    BY <2>1, <2>5, <2>6 DEF Box
  <2>8. Mail!End(r)
    BY <2>3, <2>7 DEF Mail!End, Box, Serving
  <2> QED
    BY <2>1, <2>8
<1>3. CASE ~ (\E r \in Requester : Enqueue(r)) /\ ~ Finish("done") /\ ~ Finish("failed")
  <2>1. /\ TaskId' = TaskId /\ Box' = Box
        /\ \A t \in TaskId : tasks'[t].oid = tasks[t].oid
    BY <1>3, <1>a, OthersFinishNothing DEF MInv
  <2>2. CASE \E r \in Requester : Take(r)
    <3>1. PICK r \in Requester : Take(r)
      BY <2>2
    <3>2. /\ current' \in TaskId /\ tasks[current'].oid = r
          /\ tasks[current'].status = "pending"
          /\ worker = "scanning" /\ worker' = "busy"
      BY <1>a, <3>1, PopFacts DEF Take
    <3>3. Serving = {} /\ Serving' = {r}
      BY <2>1, <3>2 DEF Serving
    <3>4. current' \in Unfinished(r)
      BY <3>2 DEF Unfinished
    <3>5. Unread(r) # <<>>
      BY <1>b, <3>4 DEF Listing
    <3>6. Mail!Begin(r)
      BY <2>1, <3>3, <3>5 DEF Mail!Begin, Box, Serving
    <3> QED
      BY <3>6
  <2>3. CASE Serving' = {}
    <3>1. Mail!Break \/ Serving = {}
      BY <2>1, <2>3 DEF Mail!Break, Box, Serving
    <3> QED
      BY <1>c, <2>1, <2>3, <3>1
  <2>4. CASE UNCHANGED vars
    <3>1. UNCHANGED <<tasks, worker, current>>
      BY <2>4 DEF vars, table, process
    <3> QED
      BY <1>c, <2>1, <3>1 DEF Serving
  <2>5. Serving' = {} \/ (\E r \in Requester : Take(r)) \/ UNCHANGED vars
    <3>1. CASE Startup
      BY <1>a, <3>1 DEF Startup, Recover, ReplayNext, Start, IInv, WorkerState, Serving
    <3>2. CASE Sleep \/ Wake \/ Crash \/ WorkerDies
      BY <3>2 DEF Sleep, Wake, Crash, WorkerDies, Serving
    <3> QED
      BY <1>3, <3>1, <3>2 DEF Next, Worker
  <2> QED
    BY <2>2, <2>3, <2>4, <2>5
<1> QED
  BY <1>1, <1>2, <1>3

(* ImplementsInbox: the table, the queues, the worker and the replay, all   *)
(* together, are a first-in first-out inbox for each requester from which a *)
(* message is only gone when its handler has come to its end.               *)
THEOREM InboxRefined == Spec => ImplementsInbox
<1>1. Init => Mail!Init
  <2> SUFFICES ASSUME Init PROVE Mail!Init
    OBVIOUS
  <2>1. TypeOK /\ TaskId = {}
    BY InitInv DEF IInv, Init, TaskId
  <2>2. ASSUME NEW r PROVE Unread(r) = <<>>
    <3>1. Listing(Unread(r), {})
      <4>1. Unfinished(r) = {}
        BY <2>1 DEF Unfinished
      <4> QED
        BY <2>1, <4>1, UnreadLists
    <3>2. Unread(r) \in Seq(Nat) /\ DOMAIN Unread(r) = {}
      BY <3>1 DEF Listing
    <3> QED
      BY <3>2
  <2>3. Box = [r \in Requester |-> <<>>] /\ Serving = {}
    BY <2>2 DEF Init, Box, Serving
  <2> QED
    BY <2>3 DEF Mail!Init, Box, Serving
<1>2. MInv /\ MInv' /\ [Next]_vars => [Mail!Next]_(Mail!vars)
  BY InboxSteps DEF MInv
<1> QED
  BY <1>1, <1>2, OldestFirst, PTL DEF Spec, ImplementsInbox, Mail!Spec

-----------------------------------------------------------------------------
(* No task is left behind.  EveryTaskFinishes is checked, not proved, for   *)
(* it needs fairness; what it needs of the code besides is here: while a    *)
(* task is not finished there is a step to take, and only so many steps can *)
(* be taken before it is finished or something new happens.                 *)

(* A queue with something in it is a key of the dict. *)
Keyed == \A r \in Requester : queues[r] # <<>> => \E i \in DOMAIN order : order[i] = r

Open == {t \in TaskId : tasks[t].status \notin {"done", "failed"}}

(* The worker has something to do: a task at hand, one to take, or a wakeup *)
(* that it is to follow.                                                    *)
GoesOn ==
  (phase = "up" /\ worker # "dead" /\ Open # {}) =>
    \/ worker = "busy"
    \/ worker = "waiting" /\ wakeup
    \/ worker = "scanning" /\ \E r \in Requester : FirstNonEmpty(r)

(* A put makes the requester a key, and no key is lost. *)
LEMMA PutKeepsKeyed ==
  ASSUME TypeOK, Keyed, NEW r \in Requester, NEW id, Put(r, id)
  PROVE  Keyed'
<1>1. order \in Seq(Requester) /\ queues \in [Requester -> Seq(Nat)]
  BY DEF TypeOK
<1>2. /\ \A i \in DOMAIN order : i \in DOMAIN order' /\ order'[i] = order[i]
      /\ \E i \in DOMAIN order' : order'[i] = r
  <2>1. CASE \E i \in DOMAIN order : order[i] = r
    BY <2>1 DEF Put
  <2>2. CASE ~ \E i \in DOMAIN order : order[i] = r
    <3>1. order' = Append(order, r)
      BY <2>2 DEF Put
    <3> QED
      BY <1>1, <3>1, AppendElements
  <2> QED
    BY <2>1, <2>2
<1>3. \A p \in Requester : p = r \/ queues'[p] = queues[p]
  BY <1>1 DEF Put
<1> QED
  BY <1>2, <1>3 DEF Keyed

(* The dict never loses a queue with something in it. *)
LEMMA KeyedKept ==
  ASSUME IInv, Keyed, [Next]_vars
  PROVE  Keyed'
<1>a. TypeOK
  BY DEF IInv
<1>1. CASE UNCHANGED <<queues, order>>
  BY <1>1 DEF Keyed
<1>2. CASE Crash
  BY <1>2 DEF Crash, NoQueues, Keyed
<1>3. ASSUME NEW r \in Requester, Enqueue(r) PROVE Keyed'
  BY <1>3, <1>a, PutKeepsKeyed DEF Enqueue
<1>4. CASE ReplayNext
  <2>1. CASE tasks[replayed + 1].status = "pending"
    <3>1. replayed + 1 \in TaskId
      BY <1>4, <1>a, TaskIdIsInterval DEF ReplayNext, TypeOK
    <3>2. tasks[replayed + 1].oid \in Requester
      BY <1>a, <3>1, RowType
    <3>3. Put(tasks[replayed + 1].oid, replayed + 1)
      BY <1>4, <2>1 DEF ReplayNext
    <3> QED
      BY <1>a, <3>2, <3>3, PutKeepsKeyed
  <2>2. CASE tasks[replayed + 1].status # "pending"
    BY <1>1, <1>4, <2>2 DEF ReplayNext
  <2> QED
    BY <2>1, <2>2
<1>5. ASSUME NEW r \in Requester, FirstNonEmpty(r), order' = order,
             queues' = [queues EXCEPT ![r] = Tail(@)]
      PROVE  Keyed'
  <2>1. queues[r] # <<>> /\ \A p \in Requester : p = r \/ queues'[p] = queues[p]
    BY <1>5, <1>a DEF FirstNonEmpty, TypeOK
  <2> QED
    BY <1>5, <2>1 DEF Keyed
<1>6. ASSUME NEW r \in Requester, Take(r) PROVE Keyed'
  BY <1>5, <1>6 DEF Take
<1>7. CASE WorkerDies
  BY <1>1, <1>5, <1>7 DEF WorkerDies, DieInFinish, DieInNext
<1> QED
  BY <1>1, <1>2, <1>3, <1>4, <1>6, <1>7 DEF Next, Worker, Startup, Recover, Start, Sleep, Wake,
     Finish, memory, vars

(* What the scan of the dict finds, if anything waits: the first key with a *)
(* queue that is not empty.                                                 *)
LEMMA ScanFinds ==
  ASSUME TypeOK, Keyed, NEW r \in Requester, queues[r] # <<>>
  PROVE  \E p \in Requester : FirstNonEmpty(p)
<1> DEFINE W == {i \in DOMAIN order : queues[order[i]] # <<>>}
<1>1. DOMAIN order \subseteq Nat /\ DOMAIN order = 1..Len(order) /\ Len(order) \in Nat
      /\ \A i \in DOMAIN order : order[i] \in Requester
  BY DEF TypeOK
<1>2. W # {} /\ W \subseteq Nat
  BY <1>1 DEF Keyed
<1>3. PICK i \in W : \A j \in W : i <= j
  <2> HIDE DEF W
  <2> QED
    BY <1>2, LeastElement
<1>4. \A j \in 1..(i - 1) : j \in DOMAIN order /\ ~ (i <= j)
  BY <1>1
<1>5. \A j \in 1..(i - 1) : queues[order[j]] = <<>>
  BY <1>3, <1>4
<1>6. FirstNonEmpty(order[i])
  BY <1>5 DEF FirstNonEmpty
<1> QED
  BY <1>1, <1>6

(* A worker that lives never sleeps over a task, nor looks past it: there   *)
(* is a step for it while any task is not finished.                         *)
THEOREM WorkerGoesOn == Spec => []GoesOn
<1>1. Init => Keyed
  BY DEF Init, NoQueues, Keyed
<1>2. IInv /\ Keyed /\ [Next]_vars => Keyed'
  BY KeyedKept
<1>3. IInv /\ Keyed => GoesOn
  <2> SUFFICES ASSUME IInv, Keyed, phase = "up", worker # "dead", NEW t \in Open
               PROVE  \/ worker = "busy"
                      \/ worker = "waiting" /\ wakeup
                      \/ worker = "scanning" /\ \E r \in Requester : FirstNonEmpty(r)
    BY DEF GoesOn
  <2>1. /\ TypeOK /\ t \in TaskId /\ t # 0 /\ tasks[t].oid \in Requester
        /\ tasks[t].status \in {"pending", "running"}
    BY RowType, TaskIdIsInterval DEF IInv, Open, Status
  <2>2. CASE tasks[t].status = "running"
    BY <2>1, <2>2 DEF IInv, Running, Alive, WorkerState
  <2>3. CASE tasks[t].status = "pending"
    <3>1. queues[tasks[t].oid] # <<>>
      <4>1. PICK i \in DOMAIN queues[tasks[t].oid] : queues[tasks[t].oid][i] = t
        BY <2>1, <2>3 DEF IInv, NoneMissing, Alive
      <4>2. queues[tasks[t].oid] \in Seq(Nat)
        BY <2>1 DEF TypeOK
      <4> QED
        BY <4>1, <4>2
    <3>2. \E r \in Requester : FirstNonEmpty(r)
      BY <2>1, <3>1, ScanFinds
    <3>3. worker = "waiting" => wakeup
      BY <2>1, <3>1 DEF IInv, NoLostWakeup
    <3>4. worker \in {"scanning", "waiting", "busy"}
      BY <2>1 DEF IInv, WorkerState, TypeOK
    <3> QED
      BY <3>2, <3>3, <3>4
  <2> QED
    BY <2>1, <2>2, <2>3
<1> QED
  BY <1>1, <1>2, <1>3, Invariance, PTL DEF Spec

(* What is left to do before the process rests: the rest of the startup,    *)
(* four steps at most for each task, and the worker on its way to sleep.    *)
ToStart == CASE phase = "down"      -> 6 + Len(tasks)
             [] phase = "replaying" -> 5 + Len(tasks) - replayed
             [] OTHER               -> 0
ToSleep == CASE worker = "waiting" /\ wakeup -> 4
             [] worker = "scanning"          -> 3
             [] worker = "busy"              -> 2
             [] OTHER                        -> 0
ToDo == ToStart + ToSleep + 4 * Cardinality(Open)

(* Only a new message or a stop of the process makes it more. *)
QueueAdvances ==
  [][(\E r \in Requester : Enqueue(r)) \/ Crash \/ ToDo' < ToDo]_vars

(* The tasks that are open are finitely many, and finishing one makes them  *)
(* one less.                                                                *)
LEMMA OpenTasks ==
  ASSUME MInv, IInv', [Next]_vars, ~ (\E r \in Requester : Enqueue(r))
  PROVE  /\ Cardinality(Open) \in Nat /\ Len(tasks') = Len(tasks)
         /\ IF \E s \in {"done", "failed"} : Finish(s)
            THEN Cardinality(Open') = Cardinality(Open) - 1
            ELSE Open' = Open
<1>a. IInv /\ TypeOK
  BY DEF MInv, IInv
<1>1. IsFiniteSet(Open) /\ Cardinality(Open) \in Nat
  <2>1. TaskId = 1..Len(tasks) /\ Len(tasks) \in Nat /\ 1 \in Nat
    BY <1>a, TaskIdIsInterval
  <2>2. IsFiniteSet(TaskId)
    BY <2>1, FS_Interval
  <2>3. Open \subseteq TaskId
    BY DEF Open
  <2> QED
    BY <2>2, <2>3, FS_Subset, FS_CardinalityType
<1>2. \A t : t \in Open <=> t \in TaskId /\ t \in Unfinished(tasks[t].oid)
  BY DEF Open, Unfinished
<1>3. CASE \E s \in {"done", "failed"} : Finish(s)
  <2>1. PICK s \in {"done", "failed"} : Finish(s)
    BY <1>3
  <2>2. worker = "busy" /\ current \in TaskId /\ tasks' = [tasks EXCEPT ![current].status = s]
    BY <1>a, <2>1 DEF Finish, SetStatus, IInv, WorkerState
  <2>3. current \in Open
    BY <1>a, <2>1, <2>2, FinishedRow DEF Open, Unfinished
  <2>4. /\ Len(tasks') = Len(tasks) /\ TaskId' = TaskId /\ tasks'[current].status = s
        /\ \A t \in TaskId : t # current => tasks'[t] = tasks[t]
    <3>1. tasks[current] \in Task /\ tasks \in Seq(Task)
      BY <1>a, <2>2, RowType DEF TypeOK
    <3> QED
      BY <2>2, <3>1 DEF TaskId, Task
  <2>5. Open' = Open \ {current}
    BY <2>2, <2>4 DEF Open
  <2>6. Cardinality(Open \ {current}) = Cardinality(Open) - 1
    BY <1>1, <2>3, FS_RemoveElement
  <2> QED
    BY <1>1, <1>3, <2>4, <2>5, <2>6
<1>4. CASE ~ \E s \in {"done", "failed"} : Finish(s)
  <2>1. /\ TaskId' = TaskId /\ \A t \in TaskId : tasks'[t].oid = tasks[t].oid
        /\ \A r : Unfinished(r)' = Unfinished(r)
    BY <1>a, <1>4, OthersFinishNothing
  <2>2. ASSUME NEW t PROVE t \in Open' <=> t \in Open
    <3>1. t \in Open' <=> t \in TaskId /\ t \in {u \in TaskId' : /\ tasks'[u].oid = tasks'[t].oid
                                              /\ tasks'[u].status \notin {"done", "failed"}}
      BY <2>1 DEF Open
    <3> QED
      BY <1>2, <2>1, <3>1 DEF Unfinished
  <2>3. Len(tasks') = Len(tasks)
    BY <1>a, <2>1, TaskIdIsInterval DEF IInv, TypeOK, TaskId
  <2>4. Open' = Open
    BY <2>2
  <2> QED
    BY <1>1, <1>4, <2>3, <2>4
<1> QED
  BY <1>3, <1>4

(* Every other step of the process, its startup and its worker, leaves less *)
(* to do: without a new message or a stop, it comes to rest.                *)
THEOREM QueueAdvancesSafe == Spec => QueueAdvances
<1>1. MInv /\ MInv' /\ [Next]_vars =>
        [(\E r \in Requester : Enqueue(r)) \/ Crash \/ ToDo' < ToDo]_vars
  <2> SUFFICES ASSUME MInv, IInv', Next, ~ (\E r \in Requester : Enqueue(r)), ~ Crash
               PROVE  ToDo' < ToDo
    BY DEF MInv
  <2>a. /\ Cardinality(Open) \in Nat /\ Len(tasks') = Len(tasks) /\ Len(tasks) \in Nat
        /\ replayed \in Nat
        /\ phase = "replaying" => replayed <= Len(tasks)
        /\ worker = "off" <=> phase # "up"
    BY OpenTasks DEF MInv, IInv, TypeOK, WorkerState
  <2>b. (\A s \in {"done", "failed"} : ~ Finish(s)) => Open' = Open
    BY OpenTasks
  <2>1. CASE Startup
    <3>1. Open' = Open
      BY <2>1, <2>a, <2>b DEF Startup, Recover, ReplayNext, Start, Finish
    <3>2. CASE Recover
      <4>1. phase = "down" /\ phase' = "replaying" /\ replayed' = 0
        BY <3>2 DEF Recover
      <4>2. worker = "off" /\ worker' = "off"
        BY <2>a, <3>2, <4>1 DEF Recover
      <4>3. ToSleep = 0 /\ ToSleep' = 0
        BY <4>2 DEF ToSleep
      <4>4. ToStart = 6 + Len(tasks) /\ ToStart' = 5 + Len(tasks')
        BY <2>a, <4>1 DEF ToStart
      <4> QED
        BY <2>a, <3>1, <4>3, <4>4 DEF ToDo
    <3>3. CASE ReplayNext
      BY <2>a, <3>1, <3>3 DEF ReplayNext, ToDo, ToStart, ToSleep
    <3>4. CASE Start
      BY <2>a, <3>1, <3>4 DEF Start, ToDo, ToStart, ToSleep
    <3> QED
      BY <2>1, <3>2, <3>3, <3>4 DEF Startup
  <2>2. ASSUME worker \in {"scanning", "waiting", "busy"}, phase' = phase
        PROVE  phase = "up" /\ ToStart = 0 /\ ToStart' = 0
    BY <2>2, <2>a DEF ToStart, MInv, IInv, TypeOK
  <2>3. ASSUME NEW s \in {"done", "failed"}, Finish(s) PROVE ToDo' < ToDo
    <3>1. ToStart = 0 /\ ToStart' = 0 /\ ToSleep = 2 /\ ToSleep' = 3
      BY <2>2, <2>3 DEF Finish, ToSleep
    <3>2. Cardinality(Open') = Cardinality(Open) - 1
      BY <2>3, OpenTasks
    <3> QED
      BY <2>a, <3>1, <3>2 DEF ToDo
  <2>4. CASE Sleep \/ Wake \/ (\E r \in Requester : Take(r)) \/ WorkerDies
    <3>1. ToStart = 0 /\ ToStart' = 0
      BY <2>2, <2>4 DEF Sleep, Wake, Take, WorkerDies, DieInFinish, DieInNext
    <3>2. ToSleep \in Nat /\ ToSleep' \in Nat /\ ToSleep' < ToSleep
      <4>1. CASE Sleep
        <5>1. worker = "scanning" /\ worker' = "waiting" /\ wakeup' = FALSE
          BY <4>1 DEF Sleep
        <5> QED
          BY <5>1 DEF ToSleep
      <4>2. CASE Wake
        <5>1. worker = "waiting" /\ wakeup /\ worker' = "scanning"
          BY <4>2 DEF Wake
        <5> QED
          BY <5>1 DEF ToSleep
      <4>3. CASE \E r \in Requester : Take(r)
        <5>1. worker = "scanning" /\ worker' = "busy"
          BY <4>3 DEF Take
        <5> QED
          BY <5>1 DEF ToSleep
      <4>4. CASE WorkerDies
        <5>1. worker \in {"scanning", "busy"} /\ worker' = "dead"
          BY <4>4 DEF WorkerDies, DieInFinish, DieInNext
        <5> QED
          BY <5>1 DEF ToSleep
      <4> QED
        BY <2>4, <4>1, <4>2, <4>3, <4>4
    <3>3. CASE \A s \in {"done", "failed"} : ~ Finish(s)
      BY <2>a, <2>b, <3>1, <3>2, <3>3 DEF ToDo
    <3> QED
      BY <2>3, <3>3
  <2> QED
    BY <2>1, <2>3, <2>4 DEF Next, Worker
<1> QED
  BY <1>1, OldestFirst, PTL DEF Spec, QueueAdvances
=============================================================================
