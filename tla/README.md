# review-agent in TLA+

review-agent is an asyncio server that runs reviews over instant messages. A
*requester* sends material; the agent asks what the review is about, scans the
material with an LLM, walks the requester through the findings one reply at a
time, merges the replies, judges the result at a final gate and delivers a
brief to the *responder* and the requester. Everything that must survive the
process is in one SQLite file and a directory per session.

This directory models its core: what is persisted, in which order, and what
becomes of a review when messages, failures and the end of the process fall
between two steps.

- [Components](#components)
- [Modules](#modules)
- [Runs](#runs)
- [Fairness](#fairness)
- [Proofs](#proofs)
- [Disagreements with the documentation](#disagreements-with-the-documentation)
- [Abstractions](#abstractions)
- [Not modelled](#not-modelled)
- [Plan](#plan)

## Components

| component | state it keeps | operations | what makes it hard | what makes it correct |
|---|---|---|---|---|
| task queue, worker, process life (`tasks/queue.py`, `tasks/worker.py`, `app.py`) | `tasks` table; in memory: a queue per requester, the order of the queues, an event, the worker coroutine | `enqueue`, `next`, `mark_done`, `mark_failed`, `replay_pending`, start, stop | a stop between any two writes; clear-then-wait; replay of what was running; a database error in the only worker | no accepted message is lost, reordered or finished twice; the worker never sleeps through a message |
| dispatcher (`core/dispatcher.py`) | none of its own: `sessions`, `llm_calls`, files | one handler per stage of the session, busy-stage recovery, close chain, failure path | a handler is a dozen writes with awaits between them, and is run again from its start after a crash | the reply is applied to the prompt it answers; no session that has ended is revived; none is closed without a verdict, unless an LLM failure had ended it before |
| pipeline (`pipeline/*.py`) | `annotations.jsonl`, `cursor.json`, `normalized.md`, `verdict.json` | scan, choose subject, Q&A, merge, gate, summary | cursor, findings and stage are three files and a row that must agree | a finding to ask about whenever the Q&A asks; the gate gives up |
| delivery (`pipeline/deliver.py`, `delivery_backends/`) | `outbound` table | fan-out to document, DMs, archive; dedup | one target fails; the run is cut off; the same run again | closed only when all are reached, or refused in an answer that looks well; the same message once; the link with it |
| Lark webhook (`routers/lark_webhook.py`) | `events` table | dedup, record, enqueue, mark handled | redelivery; a stop between record and enqueue | each message is a task exactly once |
| Slack adapter (`slack/adapter.py`) | a dictionary with expiry times | filters, dedup, enqueue | redelivery after a restart or after expiry | as above |
| Lark client, token (`lark/client.py`, `lark/token.py`) | token, user cache | requests with retry | rate limits, a token that ends while it is on its way, an answer that never comes | a token in use is alive; nothing is posted twice but after an unclear answer; what a call returns tells what was done; every call ends |
| LLM client (`llm/deepseek.py`) | none | calls with retry | as above | an answer or an exception after bounded attempts |
| user registry (`core/dispatcher.py`, `cli.py`) | `users` table | auto-registration, opening of a session, CLI commands | an await between read and write; a second process; foreign keys | requesters are paired with people the operator named; what is entered by hand stands; nobody is registered or welcomed twice |
| material (`core/dispatcher.py`, `pipeline/ingest.py`, `pipeline/ingest_backends/`) | `normalized.md` | read, store, append, overwrite, substitute | links that fail in part, tools that pass on, a stop between a write and the answer | the material holds what the requester was told it holds; nothing is in it twice that was not read anew |
| prompts, formatting, configuration, secrets, dashboard, deployment | none that matters here | | | |

How they interact. The webhook and the Slack adapter turn a message into a row
of `tasks` and put its id on a queue in memory. The single worker takes ids one
by one and calls the dispatcher; so handlers are never interleaved, and the
interesting interleavings are those of producers with the worker and of the
process's end with everything. The dispatcher looks up the active session of
the sender and calls the handler of its stage, which calls the pipeline. The
pipeline calls the LLM, writes files and rows, and sends messages through the
Lark client. On start `recover_running_tasks` and `replay_pending` hand
unfinished tasks to the dispatcher again, from the start of the handler and in
whatever stage the first run had reached.

## Modules

| module | models | uses |
|---|---|---|
| `TaskQueue` | the tasks table, the queues, the worker, start and stop | `QueueScan`, `Inbox`, `Selecting` |
| `QueueScan` | the service discipline alone: which requester is served next | |
| `Inbox` | what the queue owes to messages and handlers take for granted: one at a time, in order, none gone before its handler has ended | |
| `TaskQueueProofs` | the theorems about `TaskQueue` | `TaskQueue`, `Basics` |
| `ReviewSession` | the sessions of one requester: dispatcher, pipeline, files, the end of the process | `ReviewLifecycle`, `Selecting` |
| `ReviewLifecycle` | what a review promises: gather, review, close under a verdict, and not for ever | |
| `ReviewProofs` | the theorems about `ReviewSession` | `ReviewSession`, `Inbox`, `Basics` |
| `Selecting` | the list comprehension with a condition, of which the orders of findings and of targets are made | |
| `Delivery` | the fan-out of the brief over its targets, the outbound table, repeated runs | `Selecting` |
| `DeliveryProofs` | the theorems about `Delivery` | `Delivery`, `Basics` |
| `Ingress` | Lark webhook and Slack adapter: the events table, the Slack dedup, the way into the tasks table | |
| `IngressProofs` | the theorems about `Ingress` | `Ingress`, `Basics` |
| `Clients` | the calls to Lark and to the LLM: requests, retries, token and user cache, with a clock | |
| `ClientsProofs` | the theorems about `Clients` | `Clients` |
| `Users` | the users table between the worker and the operator's commands | |
| `UsersProofs` | the theorems about `Users` | `Users` |
| `Material` | `normalized.md` of one session: backends, appending, overwriting, substitution, and the answers | |
| `MaterialProofs` | the theorems about `Material` | `Material` |
| `Basics` | lemmas that several proofs need: induction without the library's rule, selection, increasing lists, counting | `Selecting` |
| `MCReviewSession`, `MCDelivery`, `MCUsers` | sets of scans, lists of targets and symmetry for the runs | |

### TaskQueue

One action is one stretch of code between two points where the event loop may
switch or the process may stop. `enqueue` inserts the row, puts the id and sets
the event without an await that yields, so it is one action; `next` is `Take`
or `Sleep` and `Wake`, because it awaits between clearing the event and looking
again; `replay_pending` is `Recover` followed by one `ReplayNext` per row and
`Start`. `Crash` keeps `tasks` and loses `queues`, `order`, `wakeup` and
`worker`, wherever the process stood.

`order` is the insertion order of the dict `_queues`: `next` scans it from its
beginning on every call. `replayed` is the place of the loop in
`replay_pending`. `attempts` is the column of that name.

`WorkerDies` is a database error raised outside the `try` of the worker (in
`next`) or in its `except` clause (in `mark_failed`): `run` ends, and nothing
restarts it while the process lives.

Two abstract specifications are implemented by it. `QueueScan` forgets the ids
and keeps who is served next. `Inbox` forgets the memory and keeps, of each
requester, the list of messages that are not handled to the end: it grows at
the end, its first is begun, and leaves when its handler has ended; a stop of
the process or of the worker (`Break`) leaves it where it was. `Unread` is that
list, read off the table. Taking a row, the replay, the loss of the queues and
a database error in `next` are no step of `Inbox`.

### ReviewSession

`sess` is the row of the newest session of the requester, `rows` its
`annotations.jsonl`, `cursor` its `cursor.json`, `logged` the stages its
`llm_calls` rows name, among those `has_llm_call_for_stage` asks for,
`material` whether `normalized.md` exists, `merged` whether it holds the text
of the message in hand. `inbox` holds the tasks of the requester that are not
finished; its head is the one the worker dispatches. `prompt` is what the agent
has asked last, and `heard` whether the requester was shown it: the two part
when the LLM has no text for a finding (`EmitBlank`) or a message does not
arrive (`TellLost`). The agent then waits for an answer to a question that
nobody has seen.

`pc` is the place of the handler: it runs from `idle` through the steps of the
code to `done`. A step is what the handler does up to its next write, await or
end. `chain` says whether the step was called by `_enqueue_close_chain` (and
forced or not) or alone, by the recovery of a busy stage. `say` is the prompt
of the message about to be sent, `told` whether the handler has sent anything.

A scan is a list of findings, each with the keys by which `_prioritize`
sorts them: severity, whether the pillar is Intent, priority, and the name that
stands for the id.

A message is one of fourteen kinds, by what the code makes of it: material (a
URL or a long text), a file, a short text, a sticker, each of the reply words,
a question. The reply words are read differently by the stages: `QaIntent`,
`StartToken`, `PicksTopic` and `NamesTopic` are those readings.

`Crash` may happen at any place of a handler: place and messages not yet sent
are lost, rows and files stay, and the same message is dispatched again from
the start of its handler. `LlmFails` is `LLMTerminalFailure` in any call, which
an answer that cannot be parsed is as well (`LLMOutputParseError`);
`HandlerRaises` is any other exception where a handler lets one through,
`DeliverPartly` a delivery that did not reach every target.

| actions | code |
|---|---|
| `Open`, `Ingest`, `IngestRefused`, `IngestFails`, `Ingested` | `_handle_requester_no_session` |
| `CancelAtGate`, `StartReview`, `SupplementAtGate` | `_handle_awaiting_material_confirm` |
| `Propose`, `Reingest`, `ChooseTopic`, `TopicUnclear` | `confirm_topic`, `_maybe_reingest_at_subject_confirmation` |
| `EnterQa`, `SupplementInQa`, `ResetCursor`, `Rescan`, `SupplementRejected` | `_maybe_supplement_during_qa`, `_kickoff_rescan_after_supplement` |
| `More`, `MoreAdvance`, `AskToClose`, `ForceClose`, `Answer`, `AdvanceCursor`, `Question` | `qa_loop.handle_reply` |
| `ProposeClose`, `Emit`, `EmitNothing`, `EmitBlank` | the outcomes of it, `_emit_next_finding` |
| `Tell`, `TellLost`, `Done` | the last message of a handler (`_safe_dm`), the end of the task |
| `ConfirmClose`, `MoreAtClose`, `BackToQa`, `AskAgain` | `_handle_close_confirmation` |
| `ResumeBusy`, `SayBusy`, `CloseAtIntake`, `WaitAtIntake` | the rest of `_handle_requester_in_session` |
| `ScanPillars`, `ScanResponder`, `Scanned` | `scan.run` |
| `Merge`, `Gate`, `Judge`, `Settle...`, `RequeueBlockers`, `Reopen`, `Closing` | `_enqueue_close_chain`, `merge_draft.run`, `final_gate.run`, `transition_after_final_gate_fail` |
| `Summarize`, `Deliver`, `Delivered` | `_do_build_and_deliver`, `deliver.run` |

`ReviewLifecycle` is the same life seen from outside: phases gathering,
reviewing, closing, over; the verdict; the number of refusals. A closing
review is accepted and delivered, or refused and reopened fewer than
`MaxFailCount` times; it never stays closing. `ReviewSession` implements it
under the mapping at the end of the module, as long as the process does not stop
and no session fails by the LLM: with those the code leaves the lifecycle in the ways listed under
[Disagreements](#disagreements-with-the-documentation).

### Delivery

`outbound` is the table, reduced to what the dedup reads (recipient, hash, ok);
`received` is what has arrived outside, in order, `docs` counts documents, and
`refused` is what Lark would not have.
A run (`Run`, `Build`, then the targets, `End`) reads `delivery_targets.json`
after the summary is written (`targets`: the file may have been edited since the
run before, or be missing) and goes through `Order`: documents first. At a target it finds no backend (`NoBackend`), a row that says it was
sent (`DedupHit`), nothing to say (`SlackRefuses`), or sends; between `Send`
and `Log` the process may stop, so the message may have arrived without a row.
`LarkRefuses` is a message that Lark
refuses in an answer with status 200, which the backend reports as sent, so that
it is logged like one. `Fail` is a send that raised or was reported as not ok;
the message may have arrived all the same. `url` is `ctx["doc_url"]`, which a dedup hit on the
document does not fill.

A session closes when all results of one run are ok. Otherwise it stays
closing and another run may come. Nothing in the code enqueues the task
`build_and_deliver` that the dispatcher accepts; ARCH.md has the resubmission
of a dashboard and the recovery after a crash as its origin. The module models
what the fan-out does when it is run again.

What a message carries is `Sent`: the text, whether it is whole, and the link,
which is appended and so lost with a cut. Lark messages are cut at `max_chars`
(`Long` are the summaries that reach it); of a Slack message the adapter posts
100 characters, which any summary fills.

### Ingress

One handler is at work at a time, because neither the webhook (after the body
has been read) nor the adapter awaits anything that suspends; `step` and `at`
say where it is, since the process may stop and the database may refuse a
statement between any two writes. A delivery that reaches the handler is a
step on an event that the platform has not seen acknowledged: the
acknowledgement of an earlier one may be lost, or late, or not due yet, so
redelivery at any time is the same step.

The webhook looks the event up and records it (`LarkRecord`), inserts the row
(`Enqueue`), sets the mark and answers (`MarkHandled`). An error is answered
with 500 (`LarkFails`); the redelivered event is a duplicate (`LarkDup`) if it
was recorded. The adapter enters the key in memory and is acknowledged
(`SlackTake`), records the event without looking at what is there
(`SlackRecord`), and inserts the row. `Forget` is the time to live of a key or
its eviction, `Crash` loses the memory.

### Clients

The worker makes one call at a time. `Begin` is the call; a request of Lark
goes through `exchange` (a token is asked for, `Issue`, `Store`) or takes one
from the cache (`GetCached`), is `sent`, `served` with one of the `Answers`, and
returns, is repeated (`Expired`, `BackOff`, `Wake`) or raises. What Lark did is
separate from what it answered: `acts` is a choice for answers that leave it
open (`MayAct`). `Result` is what the caller gets of a 2xx: what it asked for,
an empty id, or `False`; `Download` returns the body of any 200 as the file.
`log` is an account of the call for the properties, with the last answer in it. `rich` is
the post of a finding, which is sent as plain text when the first post fails,
`doc` a document that is created and then filled, `update` the change of a card
whose failure `update_message` swallows.

`Clients` has a clock: code takes no time, an exchange at most `ExchangeTime`,
a request at most `RequestTime`. The code's timeouts of 15 and 30 seconds are
given to httpx, which counts them per phase of a request; the module takes them
for the whole. `Margin` is the 600 seconds of `TenantTokenCache.get`. It is
assumed that the margin covers an exchange and a request, and that Lark issues
no token shorter than them: with the numbers of the code 600 >= 45 and 7200 > 45.
The token's life is counted by Lark from the moment it issues it and by the
cache from the moment the answer is there, so the cache errs by an exchange;
the margin pays for it.

### Users

A step is a statement of the worker: the look (`Look`), the refusal or the
choice of a responder (`Refuse`, `PairWithAdmin`, and `PairWithResponder` when a
second query is made), the upsert after the display name has
come, the welcome, the notice to the admin, the look for a session and its
opening. Between any two of them the operator may run `setup`, `add-user` or
`remove-user` from another process (`Setup`, `AddOfficer`, `AddRequester`,
`Remove`). Foreign keys are guards: an upsert whose pairing is gone ends in an
exception. `delete_user` switches them off, and may leave a session without its
responder. `entered`, `named`, `gap` and the counts exist for the properties.

### Material

The file is a sequence of blocks, each the message it came from, what its
links or its tool gave, and the backend that read it (`by`), on which the text
depends. `FirstBackend` and `LaterBackend` choose the backend:
the first message tells five kinds of links apart, later ones two. `Rejects`
is the line each backend draws; it is drawn by a mark in the text, so that a
readable document with that mark in it counts as failed (`marked`). `Asked` is
the list of tools that an attachment may reach given what is installed. The
steps of a handler are the reading, each write of the file or the stage, and
the answer, with a stop possible between any two. `ReviewSession` has the same
handlers with the file reduced to whether it exists; here the rest of the
review is reduced to its stage.

## Runs

| run | question | bounds |
|---|---|---|
| `taskqueue` | are messages lost, reordered, repeated or slept through, and is every accepted one handled, in the order of the abstract scan (`ImplementsScan`) and of each requester's inbox (`ImplementsInbox`)? | 2 requesters, 4 tasks, 2 crashes, 1 database error |
| `queue_starvation` | is every requester served? (no) | 2 requesters, 2 waiting each |
| `review_normal` | do prompt, stage and cursor agree, does every review end as the lifecycle says? | all messages, any of the agent's lost, any finding without a text; scans of up to three findings over all severities, both pillars and both priorities, `TopN` 1, gate fails twice, 2 rounds |
| `review_faulty` | what holds whatever is interrupted or fails, and is an interrupted stage taken up again? | 6 messages, 1 in the inbox, 2 crashes, 1 failure of any kind |
| `review_replay`, `review_failed` | two statements of the documentation that do not hold | one crash, or one LLM failure |
| `delivery_fanout` | is a closed session delivered, once, with the link, whatever is retried? | the default targets or 7 of a file, over all backends; 2 texts of which one is cut, 3 runs, 1 failing send, 1 message refused in a 200, 1 stop |
| `ingress_faults` | does every message become one task? | 2 Lark messages, 1 other Lark event, 1 Slack message and 1 not for the bot; 1 refused statement, 1 stop, 1 forgotten key |
| `clients` | are tokens alive, posts explained, results true, cached users fresh, and does every call end? | all kinds of call, 2 attempts, a clock to 5, lifetimes 3 and 4, margin 2 |
| `users` | who is paired with whom, who is overwritten, registered, welcomed, left without a word? | 3 people, 4 commands at any time, any number of messages and stops |
| `material` | when is a text twice in the material, and are the answers about it true? | 4 messages of 12 kinds, 5 readings of links, 1 stop, tesseract, gemini and pdftotext installed |
| `material_attachment` | does a later attachment add to the material? (no) | 2 messages |

Why the bounds are enough. Two requesters are what the scan tells apart; four
tasks put two of one requester behind each other on both sides of a crash, and
the second crash falls into the recovery of the first. `TopN` 1 with three
findings makes every list of the cursor (current, pending, deferred) both
empty and not, since the gate requeues blockers into `pending`; scans contain
blockers, improvements and remarks, in orders that the severity turns round and
one that the pillar does; that priority and id decide after them is proved
(`PrioritizeOrders`) and makes no difference to the session. `MaxFailCount` 2 is the default of
the code. `MaxRounds` bounds new material during Q&A: each time it starts a
new scan; reopening by the gate is not bounded by it. In the faulty run the
requester is impatient and may send before the answer comes. One task in the
inbox is enough, as no action reads more of it than its head. Two crashes and
one failure can hit every three steps, and the second crash falls into the
handler that takes up what the first one left.

The file of `delivery_fanout` has the document behind a message, the same
target twice, one that gets the link only, Slack with and without text, and an
archive; a restart may register Slack or not. A Slack target that gets the link
only can close a session in no run that deduplicates the document (there is no
link then), so with this file alone a session would hardly ever close in a
second run; each run may find the default targets instead. Three runs are what the dedup of
messages needs: the first with a link, the second without it, the third must
be silent. In `ingress_faults` deliveries are not bounded: the platform repeats
what it has not seen acknowledged for as long as it likes.

In `clients` the clock is long enough for a token to end during a call and for
a second exchange, and two attempts are a first and a last one; the code has
four, which `EffectsSafe` and the other theorems cover. In `users` three people
can be a stranger, an admin and a responder; four commands enter an admin and a
responder, remove one, and change another, which is as much as one registration
can meet. People start with no part, so they are interchangeable (`Symmetry`). In `material`
four messages are the fewest that lead through the gate and the subject prompt
into Q&A with one to spare, and long enough for a text sent twice around a
substitution. One installed tool that passes on and one that does not, and a
kind with no tool at all that decides (PDF without pdfminer), are the cases
`Asked` tells apart.

Deadlock is not checked (`CHECK_DEADLOCK FALSE`) because every system here may
stop: the requester is not obliged to write, the bounds on messages are
reached, and a worker with nothing to do waits.

What the properties are about:

- `StartsInOrder`, `QueuesMirrorTable`, `NoLostWakeup`, `RunsOncePerLife`,
  `ImplementsInbox`, `EveryTaskFinishes`: the queue. `ImplementsInbox` says of
  stops and replays that a finished message is never dispatched again, and one
  that is not finished before any later one of its requester.
- `ReplyAppliesToPrompt`: a finding changes status only by a reply to that
  finding, the one asked of last. `PromptMatchesStage`: at rest, what was asked
  last and the stage that will read the reply agree. Both speak of what was
  asked, heard or not: that every question is heard is false of the code.
- `RestsOnlyOnRequester`: no session at rest in a stage that waits for the
  agent. `ResumedMovesOn`: where a stop or an exception has left one there
  before its LLM call was logged, the next message takes the stage up, and
  leaves it, once stops and failures are used up; a gate that is run alone may
  fail and stay. After its call is logged the stage is not taken up again (see
  [Disagreements](#disagreements-with-the-documentation)).
- `NoneStranded`, `ReopenedHasFinding`, `SilenceIsKnown`: cursor and findings;
  handlers that say nothing. The silent cases of the code are a question in
  the Q&A (`no_op`), a scan without findings, and a finding for which the LLM
  has no text, all in the invariant.
- `GateGivesUp`, `ClosedUnderVerdict`, `EndIsFinal`, `ForceCloseDelivers`,
  `ImplementsLifecycle`: the end of a review. `ClosedUnderVerdict` includes
  sessions that an LLM failure has ended before: those, and no others, the
  chain closes without a verdict, or by force under `FAIL`.
- `ClosedMeansReached`, `LoggedMeansArrived`: closing on results that may be
  dedup hits is right because the table is, but for messages that Lark has
  refused inside a 200, in the results as in the table. `SameMessageOnce`, `LinkGiven`: no
  copies but those a failure explains; the document before the messages. For
  an uncut message only, since a cut one has lost the link and two that differ
  in it are the same to the reader.
- `LarkOnce`, `OneLostPerFault`, `AnswerIsTrue`, `EveryMessageSettled`: a Lark
  message is at most one task; a fault in the gap between record and row loses
  the one message in it, and nothing else is lost. `SlackOnceWhileRemembered`:
  what the memory of the adapter gives.
- `ReadsWhatExists`: which steps may meet a missing `normalized.md`.
- `TokenAlive`, `EffectsExplained`, `ResultIsTrue`, `UserFresh`,
  `CallEnds`: the clients. `EffectsExplained` says what a second copy of a
  message may come from: a 5xx or a failed rich post. `ResultIsTrue` reads what
  a call returned against what Lark did: a result comes from an act, an empty
  id hides none but that of an unclear answer. The exception it names is a
  download, which returns the body of a refusal as the file.
- `PairedWithNamed`, `WelcomedOnce`, `EnteredStays`, `SilenceExplained`: the
  registry. `gap` names the one window in which a registration overwrites what
  the operator entered: between the look at the sender and the upsert.
- `TwiceOnlyReadAnew`, `AnswersFit`: the material. The LLM is shown a text twice
  when a link was read again and gave something else or had another backend, or
  when a passage came before the text it is from; in no other case, whatever is
  repeated, replayed or written over. `AnswersFit` holds with two
  exceptions it names: after a stop the second handling may say "not
  understood" of a text that the first has appended, and an attachment says so
  of material it has just destroyed.

Each property has a mutant of the code it is about in `PROJECT.json`; the
mutants are operators of the modules, marked as such, next to what they
replace.

## Fairness

`TaskQueue`: weak fairness of `Startup` (the systemd unit has
`Restart=always`, and the startup hook needs nothing from outside) and of
`Worker` (the event loop runs a ready coroutine; a dispatch ends because every
call it awaits has a timeout and a bounded number of attempts). Producers,
crashes and errors are not fair.

`ReviewSession`: weak fairness of the handler as a whole. A handler that has
begun goes on, for the same reason. Nothing obliges the requester to write.
`ForceCloseDelivers` and the progress of `ImplementsLifecycle` are checked
without crashes; `ResumedMovesOn` with crashes and failures, from where they
are used up: nothing moves on for certain while more may come. Its premise is
that a message waits (`At`), which nobody is obliged to send.

`Ingress`: weak fairness of a handler that has begun; strong fairness of the
delivery of each event, which the platforms repeat until it is acknowledged
and the event loop serves in the end though others are served in between.
Faults are not fair.

`Clients`: weak fairness of the step that the call waits for: a request is
answered or its timeout raises, a sleep ends. Nothing obliges a call to begin.

`Delivery`, `Users` and `Material` have no liveness property: nothing obliges
another run, command or message.

`QueueScan` states weak fairness of serving and finishing, the most the code
can offer; starvation is found under it.

## Proofs

Every invariant and action property of the passing runs, and the safety half of
the three refinements, is proved for every value of the constants. In each proof
module the argument is an inductive invariant (`Invariance`: `Spec => []IInv`,
by one step per action) from which the properties follow in a step; a second
invariant is added where a property needs counts or the absence of some failures.
TLC has checked each invariant on the instances of the runs before it was
proved.

| theorem | property | of |
|---|---|---|
| `TypeCorrect` | `TypeOK` | all of them, but `QueueScan` and `ReviewLifecycle` |
| `WakeupSafe`, `MirrorSafe`, `RunsOnceSafe`, `StartsInOrderSafe` | `NoLostWakeup`, `QueuesMirrorTable`, `RunsOncePerLife`, `StartsInOrder` | `TaskQueue` |
| `ScanRefined`, `InboxRefined` | `ImplementsScan`, `ImplementsInbox` | `TaskQueue` |
| `WorkerGoesOn`, `QueueAdvancesSafe` | a task that is not finished has a step to take, and finitely many | `TaskQueue` |
| `InboxRefined` | `Inbox` | `ReviewSession`, any failures |
| `AdvancesSafe` | no handler turns back | `ReviewSession`, any failures |
| `GateGivesUpSafe`, `ReopenedSafe`, `ReadsSafe`, `EndSafe`, `VerdictSafe` | `GateGivesUp`, `ReopenedHasFinding`, `ReadsWhatExists`, `EndIsFinal`, `ClosedUnderVerdict` | `ReviewSession`, any failures |
| `StrandedSafe` | `NoneStranded` | `ReviewSession`, one stop at most |
| `PromptSafe`, `SilenceSafe`, `ReplySafe` | `PromptMatchesStage`, `SilenceIsKnown`, `ReplyAppliesToPrompt` | `ReviewSession`, no handler cut off |
| `RestsSafe` | `RestsOnlyOnRequester` | `ReviewSession`, no handler cut off, all targets reached |
| `LifecycleRefined` | the safety half of `ImplementsLifecycle` | `ReviewSession`, no stops, no session failed |
| `PrioritizeOrders` | `_prioritize` lists every finding of a scan once, by severity, pillar, priority and id | `ReviewSession` |
| `ClosedSafe`, `LoggedSafe`, `OnceSafe`, `LinkSafe` | `ClosedMeansReached`, `LoggedMeansArrived`, `SameMessageOnce`, `LinkGiven` | `Delivery` |
| `OrderServes` | what the ordering of the targets returns | `Delivery` |
| `LarkOnceSafe`, `AnswerSafe`, `LossSafe`, `SlackSafe` | `LarkOnce`, `AnswerIsTrue`, `OneLostPerFault`, `SlackOnceWhileRemembered` | `Ingress` |
| `TokenAliveSafe`, `EffectsSafe`, `ReturnSafe`, `UserFreshSafe` | `TokenAlive`, `EffectsExplained`, `ResultIsTrue`, `UserFresh` | `Clients` |
| `AttemptsSafe`, `CallAdvancesSafe` | attempts stay in their limit, a call turns back only to the next of them | `Clients` |
| `PairingSafe`, `WelcomeSafe`, `EntrySafe`, `ExceptionSafe` | `PairedWithNamed`, `WelcomedOnce`, `EnteredStays`, `SilenceExplained` | `Users` |
| `TwiceSafe`, `AnswersSafe` | `TwiceOnlyReadAnew`, `AnswersFit` | `Material` |

### The task queue

The only assumption is `TaskQueueAssumption`: the bounds are natural numbers.

Why `IInv` is what it is. `QueuesMirrorTable` is not inductive: it speaks of
the time after the start only, and must be built up during the replay. Hence
`Ordered` (ids in a queue increase), `Queued` (each is a pending row of that
requester, and during the replay one that was looked at) and `NoneMissing`
(every pending row the replay has passed is queued); at `Start` they become the
mirror. `Running` says that the running row is the current one, and that none
is running during the replay, which is what lets `Recover` restore order.
`Attempts` bounds the column by the crashes so far, one less for rows that are
pending. `WorkerState` ties worker, current task and phase together.
`StartsInOrder` then follows in one step: the task taken is the least id of its
queue, all pending rows of the requester are in that queue, and none is running
as the worker is not busy.

`ScanRefined` maps each step to one of `QueueScan`, which counts the waiting
tasks of each requester and bounds them by the number of tasks. That the bound
is kept needs that an increasing queue of ids out of `1..n` is no longer than
`n` (`IncreasingIsShort`), which no step can tell from its own change.

`InboxRefined` needs one fact more, `CurrentFirst`: the task at hand is the
oldest of its requester that is not finished. It is established by `Take`, for
the reason of `StartsInOrder`, and kept because new rows have larger ids and
only the task at hand can finish. `Unread` is an increasing list, and such a
list is determined by its set (`ListingUnique`); so a step that leaves the set
of unfinished rows alone leaves the list alone, a new row is appended
(`ListingAppend`), and a finished one, being the least, was its head
(`ListingTail`).

### From the queue to the session

`TaskQueue` and `ReviewSession` are not composed into one state: the product
would repeat both. They meet in `Inbox`. `ReviewSession` assumes an inbox whose
head is dispatched until its handler ends, and `InboxRefined` of `ReviewProofs`
shows that this is all it takes: every step of its handlers, failures and stops
included, is `Begin`, `End`, `Break` or no step of `Inbox`. `InboxRefined` of
`TaskQueueProofs` shows that table, queues and worker provide one to every
requester. What neither shows is that a handler of one requester leaves the
session of another alone (see [Abstractions](#abstractions)).

### That things come to an end

Liveness is checked by TLC, under fairness. What the code contributes to it is
a matter of safety, and proved: that there is a step to take, and that steps
run out.

- *The queue.* `WorkerGoesOn`: while a row is not finished, the process is up
  and the worker lives, the worker is busy, or finds a queue that is not empty,
  or has its wakeup set. This needs, besides `IInv`, that a queue with
  something in it is a key of the dict (`Keyed`), and that the scan has a first
  hit. `QueueAdvancesSafe`: every step but a new message or a stop makes `ToDo`
  less: what is left of the startup, four for each open task, and the way of
  the worker to its sleep.
- *The handlers.* `AdvancesSafe`: each place of a handler has a number
  (`Left`), and every step, failures and stops included, goes to a lower one;
  twelve steps are the most a message takes. There is no loop between two
  writes of the dispatcher, the close chain and the rescans included.
- *The calls.* `CallAdvancesSafe`: every step but the clock's makes `Work`
  less, which counts the attempts and parts that are left; `AttemptsSafe` is
  the invariant it needs.

### The review session

The constants are arbitrary: any set of scans (`Scans`), any `TopN`, any number
of rounds, refusals, messages and stops. What differs from theorem to theorem
is what may go wrong.

*With any failures and stops*, `IInv` is `Data` (types, a message in hand while
the handler works, and `CursorKnown`: the cursor names findings that exist) and
`Control`: `StageFits` says in which stage the session is at each step of the
handler, and that a session which has ended is worked on in the close chain only,
and only if it has failed; `MaterialFits` that the file exists in every stage
but intake; `VerdictFits` that a session on its way to delivery has an
accepting verdict, or had failed before the gate (none) or in a forced close
after a gate that refused; `FailsFit` how far the count of refusals may be at each step
of the gate. Each follows the handler through the steps between two writes,
which is what the properties, stated at rest or at one step, do not tell. The
handlers are taken in eight groups, and each group has a lemma for types,
control and files.

`GateGivesUp` was wrong for a limit of 0: the count is raised before it is
compared, so the gate fails once. The property says so now, and so does the
guard of `ReviewLifecycle!Refuse`. A `CASE` with overlapping arms in the
mapping of the phases has become one with disjoint arms: TLC takes the first
that is true, the semantics any.

*With less going wrong*, three invariants are added to `IInv`, each under the
weakest of these hypotheses that it holds under:

| hypothesis | what does not happen | what may happen all the same | invariant, theorems |
|---|---|---|---|
| `StopsOnce` | a second stop of the process | one stop, every failure | `PlaceInv`: `StrandedSafe` |
| `HandlersEnd` | a stop, an exception that leaves a handler | the LLM fails for good, a delivery misses a target | `QInv`: `PromptSafe`, `SilenceSafe`, `ReplySafe` |
| `AllReached` | those, and a delivery that misses a target | the LLM fails for good | `QInv`: `RestsSafe` |
| `NeverFails` | a stop, a session failed by the LLM | exceptions, partial deliveries | `LInv`: `LifecycleRefined` |

In all of them the requester may write while a handler is at work (no theorem
needs `Patient`). `InPlace` says that only `More` leaves findings behind an
empty place, until its next step; a stop between the two breaks it. But that
step is taken only from a Q&A that has findings deferred behind an empty place,
and `Spent` says that there is none before the first stop: when the last
pending finding is answered the Q&A is left for the offer to close, and it is
entered again with a current finding. So it takes a second stop. `Calm` is
`Rests` (a handler that is about to end leaves a stage that waits for the
requester, or a partial delivery with its summary on record), `ChainWhole` (the
close chain runs as a whole and has said something), `PromptFits` (what was
asked last, or is about to be asked, is what the stage will read) and `Silent`.
`Lives` says that handlers work on live sessions and leave none at intake,
which an exception does not change, as it leaves the session in the phase it
was in.

The hypotheses are needed. TLC finds on small instances that an exception or a
stop violates `PromptMatchesStage`, `SilenceIsKnown` and `ReplyAppliesToPrompt`
(`review_replay` is the last of these), a partial delivery
`RestsOnlyOnRequester`, a failed session or a stop the
lifecycle, and two stops `NoneStranded`: the first falls between the answer to
the last pending finding and the offer to close, the second between the two
writes of the `more` that follows, which is dispatched again with nothing left
to pull; the findings it had pulled are then asked about only if another `more`
or the gate brings them back. `review_normal` runs under all four hypotheses,
`review_faulty` under none of them. Messages that are lost and LLM replies
without content are among what may happen under every hypothesis: they change
`heard` and nothing that decides, and `Silent` has a case for the latter.

`ReopenedHasFinding` and `CursorKnown` rest on what the operators on sequences
compute. `Select` (in Python a list comprehension with a condition) is a
recursive function, and the induction theorems of the library cannot be used:
they take an operator as a parameter. `Basics` replaces them with an induction
over sets (`InductionOnSet`: a set of numbers that holds 0 and the successors
of its members up to n is `0..n`, from `LeastElement`), and `RecursionExists`
shows that the recursive function of `Select` exists, from which its defining
equation follows. `OrderFacts` comes from it. `Prioritize` is not defined by
recursion but by rank, how many findings come before each in the order of the
four keys. `PrioritizeOrders` shows that the ranks are `1..n`, each taken once: the
order is total (`PrecedesOrder`), so no two findings share a rank, and the
pigeonhole facts of the library on finite sets do the rest.

### Delivery

The assumption is `DeliveryAssumption`: the shape of the constants, and that
the set of target lists is finite, as any set of contents the file had is.
Documents are counted against all the targets that may ask for one, which is a
number only then.

`ClosedMeansReached` needs to know of a run that is under way which targets it
has behind it: `PassedIsReached` says that if all results so far are ok, those
targets have been reached with the summary of this run, or refused it. A dedup hit passes a
target without sending, so `LoggedMeansArrived` must hold of the table; a row
is logged after the send, so at `Log` the target is reached, or has refused,
already. From
`OrderFacts` the run serves every target of the file and no other, the
documents first.

`SameMessageOnce` and `LinkGiven` have an invariant of their own, `DInv`.
`MessagesCounted`: every copy of an uncut Lark message is the one its logged
row stands for, or was made by a send that failed or was cut off, and one more
may be in the hands of the run between `Send` and `Log`. `DocsCounted`: as many
documents as targets with a logged document, with the same exceptions, so that
the sum of a finite set has to be kept step by step (`GainsOne`, `MadeFinite`).
`FirstRun`: until the first run has ended there are no rows of an earlier
one, so that a document is made or fails and is never a dedup hit; as long as
all is well and the run has passed a document, it has the link.

### Ingress

The assumption is `IngressAssumption`: the kinds of events are disjoint.
`LarkOnce` needs `QueuedIsRecorded`, so that a recorded event that is
queued is not taken again, and `HandlerInv`: the handler that is about to
insert the row works on an event that is recorded, not queued and not
acknowledged. `OneLostPerFault` is a count of a set that is described by what
it lacks: `LostCounted` bounds it by the faults and keeps it finite, the set of all
messages being of any size: the message in hand is the only one a fault can
add (`NoneLost`, `OneLost`). `CopiesCounted` counts the rows of a Slack message: one,
and one more for each time its key was forgotten, where a key that is not
remembered leaves room for the next.

### Clients

The theorems hold for any number of attempts, any lifetimes and any clock, from
`ClientsAssumption` (the margin covers an exchange and a request). `TokenTimes`
carries the ages through a request: what the cache takes for the end of a
token is at most an exchange later than the true end, so a token with its
margin left outlives the request that takes it. `EffectCounts` needs to know
that before a request is served the effects so far are all paid for by unclear
answers. `ResultIsTrue` needs it too, for what an empty id hides. `Done` and `UserTimes` are the other two properties with what is known
in the middle of a call.

### Users

The assumption is `UsersAssumption`: `None` is neither a person nor a row, and
the bound on commands is a natural number. `PairedWithNamed` needs that the responder the
registration has chosen before its await was named then, and that naming is
never taken back. `WelcomedOnce` is two counts at two places of the code, the
upsert and the welcome: between the two a stop must not let the sender pass for
a stranger again. `EnteredStays` needs that a registration that has found
nobody marks whoever is entered since (`gap`).

### Material

`TwiceOnlyReadAnew` relates any two blocks, the appended one to each before it.
The comparison before an append speaks of whole blocks and of passages; that two
blocks of the same text are the same block unless links are in it (`SameTexts`)
needs that what has no link and no file to it reads in one way only (`Plain`).
`MoreBlocks` is the append, and all other writes leave one block. `AnswersFit`, a property
of the answering step, needs what the handler did before it: that the block in
hand is the message's own and, when the answer says so, in the file
(`BlockFits`); that the file is what it was when the message came until
something is written (`Untouched`); that only an attachment takes something
out of it at the gate and in Q&A (`Kept`). The
choice of a backend in `FirstBackend` is a chain of conditions, like the code:
written as a `CASE` its arms overlap.

### What stays with TLC

Liveness under fairness is beyond the prover: `EveryTaskFinishes`,
`ForceCloseDelivers`, `ResumedMovesOn`, `CallEnds`, `EveryMessageSettled`, and the fairness that
`ImplementsLifecycle` asks of the review (that it does not stay closing). What
they rest on besides fairness is under [That things come to an
end](#that-things-come-to-an-end). The
runs that expect a violation are TLC's by their nature.

## Disagreements with the documentation

Each is a run that TLC refutes on purpose.

1. `queue_starvation` (`NoStarvation`): the scan of `next` starts at the first requester every
   time. ARCH.md promises round-robin, the header of `queue.py` that no user's
   backlog starves another.
2. `review_replay` (`ReplyAppliesToPrompt`): handlers are said to be idempotent. The replay of a message
   is read in the stage its first run has reached: the `a` that chose a topic
   accepts a finding nobody has seen.
3. `review_failed` (`FailedIsFinal`): an LLM failure in the merge or the gate marks the session
   failed and says it has ended; the close chain goes on and may close it.
4. `material_attachment` (`AttachmentsAdd`): a file, image or voice message sent at the gate or in
   Q&A overwrites the material and is then found to be in it; the requester is
   told that it was not understood. Comment and docstring say it is appended.

More were met and have no run:

- A finding may be asked of without being shown. The LLM may answer without
  content (`deepseek.py:83`; the changelog tells of empty contents), `emit_current`
  strips and returns it, and `_emit_next_finding` sends nothing though the
  cursor has moved on (`EmitBlank`); or `_safe_dm` drops a message that cannot be
  sent (`TellLost`). The next reply changes the status of that finding.
- A session may be closed with a target that nothing has reached. A message that
  Lark refuses in an answer with status 200 has an empty id, and `lark_dm.py:36`
  says ok all the same; the row is logged as sent and no later run sends again
  (`LarkRefuses`). The docstring at `deliver.py:66` has the session closing
  until all targets are ok.
- `download_file` looks at the status only (`client.py:197`), so the error that
  Lark puts into a 200 is returned, and ingested, as the file (`Download`).
- The guard against double text (`dispatcher.py:383`) looks for the whole new
  block, so a link that is read again may get past it (`TwiceOnlyReadAnew`).
- A stage is restarted after an interruption only if it has never logged its
  LLM call; otherwise every message is answered with "busy", though
  `test_busy_stage_recovery.py` speaks of restarting it.
- The Slack adapter posts the first 100 characters of a message, where
  `slack_dm.py` speaks of 39,000; and it calls `event_seen` and drops the
  answer, which a comment calls dedup, so that a message redelivered after a
  restart, or after five minutes, is queued again.
- `b` at the close confirmation is read as `REJECT`, which no branch handles,
  so it does not pull deferred findings as the changelog says (`AskAgain`).
- The docstring of `deliver.run` says that targets already sent are skipped on
  a retry; a retry has no link to the document, the hash of a message covers
  the link, and so the messages of the first run are sent again without it
  (`DedupHit` leaves `url` at 0), once.
- `get_user` is documented not to cache errors; a refusal in a 200 is cached
  as an empty record. The end of the retry loop that a comment calls
  unreachable is reached when the last attempt meets an expired token.
- The changelog counts the subject prompt among the places that answer
  `IngestRejected`; there it leaves the handler and the requester hears nothing
  (`Escape`).
- A plain text file is taken as the first message and not later, because the
  kind of a later one is guessed from its first bytes (`LaterReadings`). Links
  to tables and videos are read by their backends only in the first message;
  later they are fetched as web pages (`LaterBackend`).

## Abstractions

- One requester in `ReviewSession`: handlers of different requesters touch
  different sessions, and the worker runs them one at a time.
- The LLM is a choice of findings, of verdicts and of whether there is a text to
  show. An answer that cannot be parsed is `LlmFails`, like any other terminal
  failure.
- `READY` stands for `READY_WITH_OPEN_ITEMS` too: nothing tells them apart.
- Appending the findings of a scan and saving the cursor is one step: a stop
  between the two leaves a stage in which neither is read again.
- `revised.md` is not a variable: gate and summary fall back to
  `normalized.md`, whose existence is.
- A message of the agent that is lost (`TellLost`) is one that asks something, or
  the brief; whether notices in passing ("starting...") arrive makes no
  difference to what is modelled.
- Finding ids are distinct within one scan, and start anew with each scan, as
  the code numbers them. The LLM may give ids of its own, which the code takes
  as they are; ids that it repeats within a scan are left out.
- Parsing of URLs and attachments is reduced to the kinds of message. In
  `Material` links are written with their scheme, and a text repeats another
  only as a whole or as `excerpt` does `essay`.
- The size limits of the backends are among the reasons for a rejection; a
  text message is taken to be under its limit.
- In `Material` a source may read differently at each attempt, and the same
  reading is the same text. What a rescan does is in `ReviewSession`.
- In `Users` one message is handled at a time, any number of them; sessions
  are reduced to whether one is active and under whom. Editing the database by
  other means, and the commands that only print, are left out.
- The clock does not step back: `scheduled_at` order is insertion order.

## Not modelled

- Prompts, formatting and JSON extraction: text without state; no property of
  the system is about wording. What comes of a reply that cannot be parsed is
  `LlmFails`.
- Configuration and secrets: read once; the values that matter are constants.
- Dashboard and health: read-only views.
- Deployment scripts and the commands that print, migrate or install: run by
  hand, beside the system.
- Cryptography of the webhook: it guards the entry and keeps no state.
- The insides of OCR, transcription and HTTP extraction: pure conversion; their
  outcomes are choices in `Material`.
- Thread participation of the Slack adapter: it is written to a file and
  nothing acts on what is read.

## Plan

Done: the task queue, the review session, delivery, ingress, the clients, the
user registry and the material; the safety of all of them proved; for the
review session, each theorem under the weakest of the hypotheses above; the
inbox by which queue and session fit together. Left open:

1. `Ingress` and `TaskQueue` over one tasks table. `Ingress` ends with the row
   and `TaskQueue` begins with it, in one call of `enqueue`; what a composition
   would add is a stop between the insert and the put, which leaves what a
   `Crash` just after `Enqueue` leaves: a pending row that the replay finds.
2. Reviews of several requesters side by side, with the sessions table and its
   lookup by requester: what is argued under
   [Abstractions](#abstractions) and not checked.
3. The identity of findings over several scans, when the documentation says
   which finding a repeated id names.
