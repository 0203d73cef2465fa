--------------------------- MODULE IngressProofs ---------------------------
(***************************************************************************)
(* The safety of the ingress for every set of events and every bound of    *)
(* faults: IInv (module Ingress) is inductive.  The steps that do not add  *)
(* a row are in one lemma each way they write the tables; Enqueue, which   *)
(* adds one, has the argument.                                             *)
(***************************************************************************)
EXTENDS Ingress, Basics

(* No event is known at the beginning. *)
LEMMA InitInv == Init => IInv
BY IngressAssumption
   DEF Init, IInv, TypeOK, LarkOnce, QueuedIsRecorded, HandlerInv, AnswerIsTrue, Event

-----------------------------------------------------------------------------
(* A delivery is looked at: an event may be recorded, a handler may start.  *)
LEMMA HandleInv ==
  ASSUME IInv, NEW e \in Event, Handle(e)
  PROVE  IInv'
<1> USE IngressAssumption DEF Event, Lark, Slack, Messages, Looks, Answer, Work
<1>1. CASE LarkDup(e) \/ SlackDup(e) \/ SlackIgnore(e)
  <2>1. /\ step = "idle" /\ UNCHANGED <<events, handled, tasks, step, at, bounds>>
        /\ answered' \in {answered, answered \cup {e}}
        /\ e \in Slack \/ e \in events
        /\ seen' \in {seen, seen \cup {e}}
        /\ e \in Lark => seen' = seen
    BY <1>1 DEF LarkDup, SlackDup, SlackIgnore, tables, memory
  <2> QED
    BY <2>1 DEF IInv, TypeOK, LarkOnce, QueuedIsRecorded, HandlerInv, AnswerIsTrue, Lost,
                Queued, bounds
<1>2. CASE LarkRecord(e)
  BY <1>2 DEF LarkRecord, IInv, TypeOK, LarkOnce, QueuedIsRecorded, HandlerInv, AnswerIsTrue,
              Lost, Queued, bounds
<1>3. CASE SlackTake(e)
  BY <1>3 DEF SlackTake, IInv, TypeOK, LarkOnce, QueuedIsRecorded, HandlerInv, AnswerIsTrue,
              Lost, Queued, tables, bounds
<1> QED
  BY <1>1, <1>2, <1>3 DEF Handle

(* The row is inserted.  The event of a Lark message is recorded and not    *)
(* queued yet, so no other row holds it, and no later delivery is taken.    *)
LEMMA EnqueueInv ==
  ASSUME IInv, Enqueue
  PROVE  IInv'
<1> USE IngressAssumption DEF Lark, Slack, Messages, Event
<1> DEFINE n == Len(tasks) + 1
<1>1. /\ step = "recorded" /\ at \in Messages
      /\ tasks' = Append(tasks, at)
      /\ UNCHANGED <<answered, events, handled, seen, bounds>>
  BY DEF Enqueue
<1>2. /\ tasks' \in Seq(Messages)
      /\ n \in DOMAIN tasks' /\ tasks'[n] = at
      /\ \A i \in DOMAIN tasks : i \in DOMAIN tasks' /\ tasks'[i] = tasks[i]
      /\ \A i \in DOMAIN tasks' : i \in DOMAIN tasks \/ i = n
  BY <1>1, AppendElements DEF IInv, TypeOK
<1>3. /\ \A e : Queued(e) => \E k \in DOMAIN tasks' : tasks'[k] = e
      /\ \E k \in DOMAIN tasks' : tasks'[k] = at
  BY <1>2 DEF Queued
<1>4. CASE at \in Lark
  <2>1. step' = "queued" /\ at' = at
    BY <1>4 DEF Enqueue, Work
  <2>2. at \in events /\ at \in LarkMessages /\ \A i \in DOMAIN tasks : tasks[i] # at
    BY <1>1, <1>4 DEF IInv, HandlerInv, Queued
  <2>3. TypeOK'
    BY <1>1, <1>2, <2>1, <2>2 DEF IInv, TypeOK, bounds
  <2>4. LarkOnce'
    BY <1>2, <2>2 DEF IInv, LarkOnce
  <2>5. QueuedIsRecorded'
    BY <1>1, <1>2, <2>2 DEF IInv, QueuedIsRecorded
  <2>6. HandlerInv'
    BY <1>3, <2>1, <2>2 DEF HandlerInv, Queued
  <2>7. AnswerIsTrue'
    BY <1>1, <1>3, <2>1 DEF IInv, AnswerIsTrue, Lost, Queued
  <2> QED
    BY <2>3, <2>4, <2>5, <2>6, <2>7 DEF IInv
<1>5. CASE at \notin Lark
  <2>1. step' = "idle" /\ at' = None
    BY <1>5 DEF Enqueue, Rest
  <2>2. TypeOK'
    BY <1>1, <1>2, <2>1 DEF IInv, TypeOK, bounds
  <2>3. LarkOnce'
    BY <1>2, <1>5 DEF IInv, LarkOnce
  <2>4. QueuedIsRecorded'
    BY <1>1, <1>2, <1>5 DEF IInv, QueuedIsRecorded
  <2>5. HandlerInv'
    BY <2>1 DEF HandlerInv
  <2>6. AnswerIsTrue'
    BY <1>1, <1>3, <1>5, <2>1 DEF IInv, AnswerIsTrue, Lost, Queued
  <2> QED
    BY <2>2, <2>3, <2>4, <2>5, <2>6 DEF IInv
<1> QED
  BY <1>4, <1>5

(* The other steps of a handler add no row and record no Lark event.        *)
LEMMA MarkHandledInv ==
  ASSUME IInv, MarkHandled
  PROVE  IInv'
BY IngressAssumption
   DEF MarkHandled, Answer, Rest, Lark, Slack, Messages, Event, IInv, TypeOK, LarkOnce,
       QueuedIsRecorded, HandlerInv, AnswerIsTrue, Lost, Queued, bounds

(* The adapter records an event of Slack: Lark's events are not touched. *)
LEMMA SlackRecordInv ==
  ASSUME IInv, SlackRecord
  PROVE  IInv'
BY IngressAssumption
   DEF SlackRecord, Work, Lark, Slack, Messages, Event, IInv, TypeOK, LarkOnce,
       QueuedIsRecorded, HandlerInv, AnswerIsTrue, Lost, Queued

(* A fault ends the handler, whatever it was doing. *)
LEMMA FaultInv ==
  ASSUME IInv,
         step' = "idle", at' = None, UNCHANGED <<answered, tables>>,
         seen' \subseteq seen,
         forgets' \in 0..MaxForgets, errors' \in 0..MaxErrors, crashes' \in 0..MaxCrashes
  PROVE  IInv'
BY IngressAssumption
   DEF Lark, Slack, Messages, Event, IInv, TypeOK, LarkOnce, QueuedIsRecorded, HandlerInv,
       AnswerIsTrue, Lost, Queued, tables

(* The dedup forgets a key. *)
LEMMA ForgetInv ==
  ASSUME IInv, NEW e \in Event, Forget(e)
  PROVE  IInv'
BY IngressAssumption
   DEF Forget, IInv, TypeOK, LarkOnce, QueuedIsRecorded, HandlerInv, AnswerIsTrue, Lost, Queued,
       tables

(* Every step of the platforms, the handler and the process keeps the       *)
(* invariant.                                                               *)
LEMMA NextInv == IInv /\ [Next]_vars => IInv'
<1> SUFFICES ASSUME IInv, [Next]_vars PROVE IInv'
  OBVIOUS
<1>1. CASE \E e \in Event : Handle(e)
  BY <1>1, HandleInv
<1>2. CASE \E e \in Event : LarkFails(e)
  BY <1>2, IngressAssumption, FaultInv DEF LarkFails, Rest, tables, IInv, TypeOK
<1>3. CASE \E e \in Event : Forget(e)
  BY <1>3, ForgetInv
<1>4. CASE Go
  BY <1>4, SlackRecordInv, EnqueueInv, MarkHandledInv DEF Go
<1>5. CASE SlackFails
  BY <1>5, IngressAssumption, FaultInv DEF SlackFails, Rest, tables, IInv, TypeOK
<1>6. CASE Crash
  BY <1>6, IngressAssumption, FaultInv DEF Crash, Rest, tables, IInv, TypeOK
<1>7. CASE UNCHANGED vars
  BY <1>7 DEF vars, tables, memory, bounds, IInv, TypeOK, LarkOnce, QueuedIsRecorded,
              HandlerInv, AnswerIsTrue, Lost, Queued
<1> QED
  BY <1>1, <1>2, <1>3, <1>4, <1>5, <1>6, <1>7 DEF Next

-----------------------------------------------------------------------------
(* The inductive invariant of the ingress. *)
THEOREM Invariance == Spec => []IInv
BY InitInv, NextInv, PTL DEF Spec

(* The tables, the memory of the adapter and the handler keep their types. *)
THEOREM TypeCorrect == Spec => []TypeOK
<1>1. IInv => TypeOK
  BY DEF IInv
<1> QED
  BY <1>1, Invariance, PTL

(* A Lark message becomes at most one task, however often it is delivered   *)
(* and wherever the process stops.                                          *)
THEOREM LarkOnceSafe == Spec => []LarkOnce
<1>1. IInv => LarkOnce
  BY DEF IInv
<1> QED
  BY <1>1, Invariance, PTL

(* Lark is not told that a message has arrived while it may still be        *)
(* delivered in vain, and no event is marked handled without its row.       *)
THEOREM AnswerSafe == Spec => []AnswerIsTrue
<1>1. IInv => AnswerIsTrue
  BY DEF IInv
<1> QED
  BY <1>1, Invariance, PTL

-----------------------------------------------------------------------------
(* Counting: what is lost, and how often a Slack message is queued *)

LostMessages == {e \in LarkMessages : Lost(e)}

(* Whom the handler is working on, and whom the dedup remembers. *)
Underway(e)   == IF step # "idle" /\ at = e THEN 1 ELSE 0
Remembered(e) == IF e \in seen THEN 1 ELSE 0

(* Each lost message has its fault. *)
LostCounted ==
  IsFiniteSet(LostMessages) /\ Cardinality(LostMessages) <= crashes + errors

(* Each task of a Slack message, and the one it may still become, has its   *)
(* key in the memory of the dedup, or a time at which a key was forgotten.  *)
CopiesCounted ==
  \A e \in SlackToBot :
    Copies(e) \in Nat /\ Copies(e) + Underway(e) <= Remembered(e) + forgets + crashes

(* Steps that lose no message. *)
LEMMA NoneLost ==
  ASSUME IInv, LostCounted, LostMessages' \subseteq LostMessages,
         crashes' \in Nat, errors' \in Nat, crashes' >= crashes, errors' >= errors
  PROVE  LostCounted'
<1>1. /\ IsFiniteSet(LostMessages')
      /\ Cardinality(LostMessages') <= Cardinality(LostMessages)
      /\ Cardinality(LostMessages) \in Nat /\ Cardinality(LostMessages') \in Nat
  BY GainsOne DEF LostCounted
<1>2. crashes \in Nat /\ errors \in Nat
  BY IngressAssumption DEF IInv, TypeOK
<1>3. Cardinality(LostMessages)' = Cardinality(LostMessages')
  OBVIOUS
<1> QED
  BY <1>1, <1>2, <1>3 DEF LostCounted

(* A fault loses the message that was being handled, or none. *)
LEMMA OneLost ==
  ASSUME IInv, LostCounted, at' = None, UNCHANGED <<events, tasks>>,
         crashes' + errors' = crashes + errors + 1
  PROVE  LostCounted'
<1>1. LostMessages' \subseteq LostMessages \cup {at}
  BY DEF LostMessages, Lost, Queued
<1>2. /\ IsFiniteSet(LostMessages')
      /\ Cardinality(LostMessages') <= Cardinality(LostMessages) + 1
      /\ Cardinality(LostMessages) \in Nat /\ Cardinality(LostMessages') \in Nat
  BY <1>1, GainsOne DEF LostCounted
<1>3. crashes \in Nat /\ errors \in Nat
  BY IngressAssumption DEF IInv, TypeOK
<1> QED
  BY <1>2, <1>3 DEF LostCounted

(* No step but a fault ends the handling of a Lark message that is recorded *)
(* and has no row.                                                          *)
LEMMA LostKept ==
  ASSUME IInv, LostCounted, [Next]_vars
  PROVE  LostCounted'
<1>0. /\ crashes \in Nat /\ errors \in Nat
      /\ UNCHANGED <<crashes, errors>> /\ LostMessages' \subseteq LostMessages => LostCounted'
  BY NoneLost, IngressAssumption DEF IInv, TypeOK
<1>1. ASSUME NEW e \in Event, Handle(e) PROVE LostCounted'
  <2>1. UNCHANGED <<tasks, crashes, errors>>
    BY <1>1 DEF Handle, LarkDup, LarkRecord, SlackDup, SlackIgnore, SlackTake, tables, bounds
  <2>2. /\ at = None /\ events' \subseteq events \cup {at'}
    BY <1>1 DEF Handle, LarkDup, LarkRecord, SlackDup, SlackIgnore, SlackTake, tables, memory,
       Looks, Work, IInv, HandlerInv
  <2>3. LostMessages' \subseteq LostMessages
    BY <2>1, <2>2, IngressAssumption DEF LostMessages, Lost, Queued, Event, Lark
  <2> QED
    BY <1>0, <2>1, <2>3
<1>2. ASSUME NEW e \in Event, LarkFails(e) PROVE LostCounted'
  BY <1>0, <1>2, OneLost DEF LarkFails, Rest, tables
<1>3. ASSUME NEW e \in Event, Forget(e) PROVE LostCounted'
  BY <1>0, <1>3 DEF Forget, LostMessages, Lost, Queued, tables
<1>4. CASE SlackRecord
  <2>1. /\ events' \subseteq events \cup {at}
        /\ at' = at /\ at \in SlackToBot /\ UNCHANGED <<tasks, crashes>>
    BY <1>4 DEF SlackRecord, Work, IInv, HandlerInv
  <2>2. errors' \in Nat /\ errors' >= errors
    BY <1>0, <1>4 DEF SlackRecord
  <2>3. LostMessages' \subseteq LostMessages
    BY <2>1 DEF LostMessages, Lost, Queued
  <2> QED
    BY <1>0, <2>1, <2>2, <2>3, NoneLost
<1>5. CASE Enqueue
  <2>1. tasks' = Append(tasks, at) /\ at \in Messages /\ tasks \in Seq(Messages)
        /\ UNCHANGED <<events, crashes, errors>>
    BY <1>5 DEF Enqueue, bounds, IInv, TypeOK
  <2>2. \A e : Queued(e) \/ e = at => Queued(e)'
    BY <2>1, AppendElements DEF Queued
  <2>3. LostMessages' \subseteq LostMessages
    BY <2>1, <2>2 DEF LostMessages, Lost
  <2> QED
    BY <1>0, <2>1, <2>3
<1>6. CASE MarkHandled
  <2>1. UNCHANGED <<events, tasks, crashes, errors>> /\ (at \in LarkOthers \/ Queued(at))
    BY <1>6 DEF MarkHandled, bounds, IInv, HandlerInv
  <2>2. LostMessages' \subseteq LostMessages
    BY <2>1, IngressAssumption DEF LostMessages, Lost, Queued
  <2> QED
    BY <1>0, <2>1, <2>2
<1>7. CASE SlackFails
  BY <1>0, <1>7, OneLost DEF SlackFails, Rest, tables
<1>8. CASE Crash
  BY <1>0, <1>8, OneLost DEF Crash, Rest, tables
<1>9. CASE UNCHANGED vars
  BY <1>0, <1>9 DEF vars, tables, memory, bounds, LostMessages, Lost, Queued
<1> QED
  BY <1>1, <1>2, <1>3, <1>4, <1>5, <1>6, <1>7, <1>8, <1>9 DEF Next, Go

(* A row is added for the message under way, which is then no longer so; it *)
(* is under way when its key has just been entered.                         *)
LEMMA CopiesKept ==
  ASSUME IInv, CopiesCounted, [Next]_vars
  PROVE  CopiesCounted'
<1> SUFFICES ASSUME NEW x \in SlackToBot
             PROVE  /\ Copies(x)' \in Nat
                    /\ Copies(x)' + Underway(x)' <= Remembered(x)' + forgets' + crashes'
  BY DEF CopiesCounted
<1>a. UNCHANGED tasks => Copies(x)' = Copies(x)
  BY DEF Copies
<1>b. Underway(x) \in {0, 1} /\ Remembered(x) \in {0, 1}
  BY DEF Underway, Remembered
<1>c. Underway(x)' \in {0, 1} /\ Remembered(x)' \in {0, 1}
  BY DEF Underway, Remembered
<1>0. /\ forgets \in Nat /\ crashes \in Nat /\ Copies(x) \in Nat
      /\ Copies(x) + Underway(x) <= Remembered(x) + forgets + crashes
      /\ Underway(x) \in {0, 1} /\ Remembered(x) \in {0, 1}
      /\ Underway(x)' \in {0, 1} /\ Remembered(x)' \in {0, 1}
      /\ UNCHANGED tasks => Copies(x)' = Copies(x)
  BY <1>a, <1>b, <1>c, IngressAssumption DEF CopiesCounted, IInv, TypeOK
<1> USE IngressAssumption DEF IInv, TypeOK, HandlerInv, Looks, Work, Rest, Lark, Slack, tables,
        memory, bounds
<1>1. ASSUME NEW e \in Event, Handle(e)
      PROVE  /\ UNCHANGED <<tasks, forgets, crashes>>
             /\ Underway(x)' <= Remembered(x)' - Remembered(x) + Underway(x)
  BY <1>0, <1>1 DEF Handle, LarkDup, LarkRecord, SlackDup, SlackIgnore, SlackTake, Underway,
     Remembered
<1>2. ASSUME NEW e \in Event, LarkFails(e)
      PROVE  UNCHANGED <<tasks, forgets, crashes, seen>> /\ Underway(x)' = 0
  BY <1>2 DEF LarkFails, Underway
<1>3. ASSUME NEW e \in Event, Forget(e)
      PROVE  /\ UNCHANGED <<tasks, crashes>> /\ forgets' = forgets + 1
             /\ Underway(x)' = Underway(x)
  BY <1>3 DEF Forget, Underway
<1>4. CASE SlackRecord
  <2>1. UNCHANGED <<tasks, forgets, crashes, seen>> /\ Underway(x)' = Underway(x)
    BY <1>4 DEF SlackRecord, Underway
  <2> QED
    BY <1>0, <2>1 DEF Remembered
<1>5. CASE Enqueue
  <2>1. /\ tasks' = Append(tasks, at) /\ UNCHANGED <<forgets, crashes, seen>>
        /\ at = x => Underway(x) = 1 /\ Underway(x)' = 0
        /\ at # x => Underway(x)' = 0
    BY <1>5 DEF Enqueue, Underway
  <2>2. tasks \in Seq(Messages) /\ at \in Messages /\ Copies(x) \in Nat
    BY <1>0, <1>5 DEF Enqueue
  <2>3. CountOf(Append(tasks, at), x)
          = IF at = x THEN CountOf(tasks, x) + 1 ELSE CountOf(tasks, x)
    BY <2>2, AppendCounts
  <2>4. Copies(x) = CountOf(tasks, x) /\ Copies(x)' = CountOf(tasks', x)
    BY DEF Copies, CountOf
  <2>5. Copies(x)' = IF at = x THEN Copies(x) + 1 ELSE Copies(x)
    BY <2>1, <2>3, <2>4, Zenon
  <2> QED
    BY <1>0, <2>1, <2>5 DEF Remembered
<1>6. CASE MarkHandled
  <2>1. UNCHANGED <<tasks, forgets, crashes, seen>> /\ Underway(x)' = 0
    BY <1>6 DEF MarkHandled, Underway
  <2> QED
    BY <1>0, <2>1 DEF Remembered
<1>7. CASE SlackFails
  <2>1. UNCHANGED <<tasks, forgets, crashes, seen>> /\ Underway(x)' = 0
    BY <1>7 DEF SlackFails, Underway
  <2> QED
    BY <1>0, <2>1 DEF Remembered
<1>8. CASE Crash
  <2>1. UNCHANGED <<tasks, forgets>> /\ crashes' = crashes + 1 /\ Underway(x)' = 0
    BY <1>8 DEF Crash, Underway
  <2> QED
    BY <1>0, <2>1
<1>9. CASE UNCHANGED vars
  BY <1>0, <1>9 DEF vars, Underway, Remembered
<1>10. CASE \E e \in Event : Handle(e)
  BY <1>0, <1>1, <1>10
<1>11. CASE \E e \in Event : LarkFails(e)
  BY <1>0, <1>2, <1>11 DEF Remembered
<1>12. CASE \E e \in Event : Forget(e)
  BY <1>0, <1>3, <1>12
<1> QED
  BY <1>4, <1>5, <1>6, <1>7, <1>8, <1>9, <1>10, <1>11, <1>12 DEF Next, Go

(* A stop or a refused statement loses one Lark message at most.            *)
THEOREM LossSafe == Spec => []OneLostPerFault
<1>1. Init => LostCounted
  <2> SUFFICES ASSUME Init PROVE LostCounted
    OBVIOUS
  <2>1. LostMessages = {}
    BY DEF Init, LostMessages, Lost
  <2>2. IsFiniteSet({}) /\ Cardinality({}) = 0
    BY FS_EmptySet
  <2> QED
    BY <2>1, <2>2 DEF Init, LostCounted
<1>2. IInv /\ LostCounted /\ [Next]_vars => LostCounted'
  BY LostKept
<1>3. LostCounted => OneLostPerFault
  BY DEF LostCounted, LostMessages, OneLostPerFault
<1> QED
  BY <1>1, <1>2, <1>3, Invariance, PTL DEF Spec

(* A Slack message is queued again only when its key has been forgotten.    *)
THEOREM SlackSafe == Spec => []SlackOnceWhileRemembered
<1>1. Init => CopiesCounted
  <2> SUFFICES ASSUME Init, NEW e \in SlackToBot
               PROVE  /\ Copies(e) = 0 /\ Underway(e) = 0 /\ Remembered(e) = 0
                      /\ forgets = 0 /\ crashes = 0
    BY DEF CopiesCounted
  <2>1. {k \in DOMAIN tasks : tasks[k] = e} = {}
    BY DEF Init
  <2> QED
    BY <2>1, FS_EmptySet DEF Init, Copies, Underway, Remembered
<1>2. IInv /\ CopiesCounted /\ [Next]_vars => CopiesCounted'
  BY CopiesKept
<1>3. IInv /\ CopiesCounted => SlackOnceWhileRemembered
  <2> SUFFICES ASSUME IInv, CopiesCounted, NEW e \in SlackToBot
               PROVE  Copies(e) <= 1 + forgets + crashes
    BY DEF SlackOnceWhileRemembered
  <2>1. forgets \in Nat /\ crashes \in Nat
    BY IngressAssumption DEF IInv, TypeOK
  <2>2. Underway(e) \in {0, 1} /\ Remembered(e) \in {0, 1}
    BY DEF Underway, Remembered
  <2> QED
    BY <2>1, <2>2 DEF CopiesCounted
<1> QED
  BY <1>1, <1>2, <1>3, Invariance, PTL DEF Spec
=============================================================================
