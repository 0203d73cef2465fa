------------------------------ MODULE Ingress ------------------------------
(***************************************************************************)
(* The two ways a message gets into the tasks table: the Lark webhook      *)
(* (routers/lark_webhook.py) and the Slack adapter (slack/adapter.py).     *)
(*                                                                         *)
(* Both run on one event loop.  Neither gives it up between its first look *)
(* at a delivery and the end (the await of enqueue never suspends: the     *)
(* queues have no bound), so one is at work at a time; the process may     *)
(* stop, and the database may refuse a statement, between any two writes.  *)
(* The platforms are outside: they deliver again what was not acknowledged *)
(* as far as they know.                                                    *)
(***************************************************************************)
EXTENDS Naturals, Sequences, FiniteSets

CONSTANTS
  LarkMessages,  \* events im.message.receive_v1
  LarkOthers,    \* events of another type
  SlackToBot,    \* direct messages and mentions
  SlackOthers,   \* what bots write, and channel messages without a mention
  None,          \* no event
  MaxForgets,    \* bound: keys the Slack dedup forgets (time to live, eviction)
  MaxErrors,     \* bound: statements the database refuses
  MaxCrashes     \* bound: times the process stops

Lark     == LarkMessages \cup LarkOthers
Slack    == SlackToBot \cup SlackOthers
Event    == Lark \cup Slack
Messages == LarkMessages \cup SlackToBot

ASSUME IngressAssumption ==
  /\ LarkMessages \cap LarkOthers = {} /\ SlackToBot \cap SlackOthers = {}
  /\ Lark \cap Slack = {}
  /\ None \notin Event
  /\ {MaxForgets, MaxErrors, MaxCrashes} \subseteq Nat

VARIABLES
  answered,  \* events whose acknowledgement has reached the platform
  events,    \* ids in the events table
  handled,   \* those with handled = 1
  tasks,     \* the messages of the rows of tasks, in id order
  seen,      \* keys in the memory of the Slack dedup
  step,      \* where the handler at work is
  at,        \* the event it works on
  forgets, errors, crashes

tables   == <<events, handled, tasks>>
memory   == <<seen, step, at>>
bounds   == <<forgets, errors, crashes>>
vars     == <<answered, tables, memory, bounds>>

TypeOK ==
  /\ answered \subseteq Event
  /\ events \subseteq Event
  /\ handled \subseteq events
  /\ tasks \in Seq(Messages)
  /\ seen \subseteq Slack
  /\ step \in {"idle", "taken", "recorded", "queued"}
  /\ at \in Event \cup {None}
  /\ step # "idle" => at \in Event
  /\ forgets \in 0..MaxForgets /\ errors \in 0..MaxErrors /\ crashes \in 0..MaxCrashes

Queued(e) == \E k \in DOMAIN tasks : tasks[k] = e

-----------------------------------------------------------------------------
Init ==
  /\ answered = {}
  /\ events = {} /\ handled = {} /\ tasks = <<>>
  /\ seen = {} /\ step = "idle" /\ at = None
  /\ forgets = 0 /\ errors = 0 /\ crashes = 0

Work(s, e) == step' = s /\ at' = e
Rest       == step' = "idle" /\ at' = None

(* A delivery, the first or another, reaches the handler.  Several may be   *)
(* under way, and wait for their turn: a step takes any.                    *)
Looks(e) == step = "idle" /\ e \notin answered

(* The delivery is over; its acknowledgement reaches the platform or not.   *)
Answer(e) == answered' \in {answered, answered \cup {e}}

-----------------------------------------------------------------------------
(* lark_webhook *)

LarkDup(e) ==
  /\ e \in Lark
  /\ Looks(e)
  /\ e \in events
  /\ Answer(e)
  /\ UNCHANGED <<tables, memory, bounds>>

(* Mutant: record_event is not called. *)
LarkForgetsToRecord(e) ==
  /\ e \in Lark
  /\ Looks(e)
  /\ e \notin events
  /\ Work("recorded", e)
  /\ UNCHANGED <<answered, tables, seen, bounds>>

(* event_seen, then record_event. *)
LarkRecord(e) ==
  /\ e \in Lark
  /\ Looks(e)
  /\ e \notin events
  /\ events' = events \cup {e}
  /\ Work("recorded", e)
  /\ UNCHANGED <<answered, handled, tasks, seen, bounds>>

(* Mutant: the type of the event is not looked at before the mark. *)
MarkHandledEarly ==
  /\ step = "queued" \/ (step = "recorded" /\ at \in Lark)
  /\ handled' = handled \cup {at}
  /\ Answer(at)
  /\ Rest
  /\ UNCHANGED <<events, tasks, seen, bounds>>

(* mark_event_handled, and the answer. *)
MarkHandled ==
  /\ step = "queued" \/ (step = "recorded" /\ at \in LarkOthers)
  /\ handled' = handled \cup {at}
  /\ Answer(at)
  /\ Rest
  /\ UNCHANGED <<events, tasks, seen, bounds>>

-----------------------------------------------------------------------------
(* _handle_message of the adapter.  A mention comes twice, as a message and *)
(* as an app_mention, with the same channel and ts: two deliveries of one   *)
(* key.  Slack is acknowledged whatever becomes of the message.             *)

SlackDup(e) ==
  /\ e \in Slack
  /\ Looks(e)
  /\ e \in seen
  /\ Answer(e)
  /\ UNCHANGED <<tables, memory, bounds>>

SlackIgnore(e) ==
  /\ e \in SlackOthers
  /\ Looks(e)
  /\ e \notin seen
  /\ seen' = seen \cup {e}
  /\ Answer(e)
  /\ UNCHANGED <<tables, step, at, bounds>>

(* Mutant: the key is looked up and not entered. *)
SlackTakeForgets(e) ==
  /\ e \in SlackToBot
  /\ Looks(e)
  /\ e \notin seen
  /\ Answer(e)
  /\ Work("taken", e)
  /\ UNCHANGED <<tables, seen, bounds>>

SlackTake(e) ==
  /\ e \in SlackToBot
  /\ Looks(e)
  /\ e \notin seen
  /\ seen' = seen \cup {e}
  /\ Answer(e)
  /\ Work("taken", e)
  /\ UNCHANGED <<tables, bounds>>

(* event_seen is called and its result dropped; record_event ignores a row  *)
(* that is there, and its errors are logged.                                *)
SlackRecord ==
  /\ step = "taken"
  /\ \/ events' = events \cup {at} /\ UNCHANGED errors
     \/ errors < MaxErrors /\ errors' = errors + 1 /\ UNCHANGED events
  /\ Work("recorded", at)
  /\ UNCHANGED <<answered, handled, tasks, seen, forgets, crashes>>

(* The dedup forgets with time, and its oldest keys when it is full. *)
Forget(e) ==
  /\ step = "idle"
  /\ e \in seen
  /\ forgets < MaxForgets
  /\ forgets' = forgets + 1
  /\ seen' = seen \ {e}
  /\ UNCHANGED <<answered, tables, step, at, errors, crashes>>

-----------------------------------------------------------------------------
(* TaskQueue.enqueue: the row; the queue in memory is TaskQueue's.          *)
Enqueue ==
  /\ step = "recorded"
  /\ at \in Messages
  /\ tasks' = Append(tasks, at)
  /\ IF at \in Lark THEN Work("queued", at) ELSE Rest
  /\ UNCHANGED <<answered, events, handled, seen, bounds>>

(* Mutant: the platform is told that it was received. *)
LarkFailsAnswered(e) ==
  /\ e \in Lark
  /\ IF step = "idle" THEN Looks(e) ELSE at = e
  /\ errors < MaxErrors
  /\ errors' = errors + 1
  /\ answered' = answered \cup {e}
  /\ Rest
  /\ UNCHANGED <<tables, seen, forgets, crashes>>

(* A statement of the webhook raises, or what it was sent cannot be parsed: *)
(* the answer is 500.                                                       *)
LarkFails(e) ==
  /\ e \in Lark
  /\ IF step = "idle" THEN Looks(e) ELSE at = e
  /\ errors < MaxErrors
  /\ errors' = errors + 1
  /\ Rest
  /\ UNCHANGED <<answered, tables, seen, forgets, crashes>>

(* The row of a Slack message cannot be inserted. *)
SlackFails ==
  /\ step = "recorded" /\ at \in Slack
  /\ errors < MaxErrors
  /\ errors' = errors + 1
  /\ Rest
  /\ UNCHANGED <<answered, tables, seen, forgets, crashes>>

(* The process stops: connections, memory and the handler are gone.         *)
Crash ==
  /\ crashes < MaxCrashes
  /\ crashes' = crashes + 1
  /\ seen' = {}
  /\ Rest
  /\ UNCHANGED <<answered, tables, forgets, errors>>

-----------------------------------------------------------------------------
Handle(e) ==
  \/ LarkDup(e) \/ LarkRecord(e) \/ SlackDup(e) \/ SlackIgnore(e) \/ SlackTake(e)

Go == SlackRecord \/ Enqueue \/ MarkHandled

Next ==
  \/ \E e \in Event : Handle(e) \/ LarkFails(e) \/ Forget(e)
  \/ Go \/ SlackFails \/ Crash

(* The platforms deliver again what is not acknowledged, the loop serves    *)
(* every connection in the end, and a handler goes on.                      *)
Fairness ==
  /\ \A e \in Event : SF_vars(Handle(e))
  /\ WF_vars(Go)

Spec == Init /\ [][Next]_vars /\ Fairness

-----------------------------------------------------------------------------
(* Properties *)

Copies(e) == Cardinality({k \in DOMAIN tasks : tasks[k] = e})

(* A Lark message becomes at most one task, however often it is delivered,  *)
(* and whenever the process stops (the record before the row).              *)
LarkOnce ==
  \A i, j \in DOMAIN tasks : (tasks[i] = tasks[j] /\ tasks[i] \in Lark) => i = j

(* A Lark message that is recorded and will not be queued: its next         *)
(* delivery is answered as a duplicate.                                     *)
Lost(e) == e \in events /\ ~Queued(e) /\ at # e

(* A stop or a refused statement loses one Lark message at most, the one    *)
(* that was being handled.                                                  *)
OneLostPerFault == Cardinality({e \in LarkMessages : Lost(e)}) <= crashes + errors

(* A Slack message becomes more than one task only if the dedup forgot it,  *)
(* with time or with the process.                                           *)
SlackOnceWhileRemembered == \A e \in SlackToBot : Copies(e) <= 1 + forgets + crashes

(* Lark is told that a message has arrived only when it is queued or lost   *)
(* to a fault, and the handled mark is not set before the row is there.     *)
AnswerIsTrue ==
  \A e \in LarkMessages : /\ e \in answered => Queued(e) \/ Lost(e)
                          /\ e \in handled => Queued(e)

(* Every Lark message is queued, unless a fault loses it. *)
EveryMessageSettled == \A e \in LarkMessages : <>(Queued(e) \/ Lost(e))

(* The invariant of the proofs.  What makes LarkOnce hold is that the event *)
(* is recorded before its row, and that the handler that has recorded it is *)
(* the only one that may still queue it.                                    *)
QueuedIsRecorded == \A k \in DOMAIN tasks : tasks[k] \in Lark => tasks[k] \in events

HandlerInv ==
  /\ step = "taken" => at \in SlackToBot
  /\ (step = "recorded" /\ at \in Lark) => at \in events /\ at \notin answered /\ ~Queued(at)
  /\ (step = "recorded" /\ at \in Slack) => at \in SlackToBot
  /\ step = "queued" => at \in LarkMessages /\ Queued(at)
  /\ step = "idle" => at = None

IInv == TypeOK /\ LarkOnce /\ QueuedIsRecorded /\ HandlerInv /\ AnswerIsTrue

=============================================================================
