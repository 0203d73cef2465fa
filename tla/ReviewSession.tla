--------------------------- MODULE ReviewSession ---------------------------
(***************************************************************************)
(* The life of the review sessions of one requester: the dispatcher        *)
(* (core/dispatcher.py) and the pipeline steps it calls (pipeline/*.py) on *)
(* what they persist (core/storage.py).                                    *)
(*                                                                         *)
(* The worker dispatches the messages of a requester one by one (module    *)
(* TaskQueue), so a handler is never interleaved with another handler of   *)
(* the same session.  What does come between two steps of a handler is the *)
(* end of the process: the handler's place is lost, what it has written    *)
(* stays, and the next life of the process dispatches the same message     *)
(* again from its start.  A step is therefore what a handler does up to    *)
(* its next write, its next await or its end.                              *)
(***************************************************************************)
EXTENDS Integers, Sequences, FiniteSets, Selecting

CONSTANTS
  Message,        \* what the requester may send, by how it is understood
  Scans,          \* what the two scan calls may find together, in order
  TopN,           \* review.top_n_findings
  MaxFailCount,   \* review.final_gate_max_fail_count
  Patient,        \* the requester waits for the answer before the next message
  Trouble,        \* which of "terminal", "raise", "partial" may happen
  MaxTrouble,     \* bound: how often
  MaxCrashes,     \* bound: times the process stops
  MaxSessions,    \* bound: sessions the requester opens
  MaxRounds,      \* bound: no new material is sent from this round on
  InboxCap        \* bound: messages waiting in the queue

AnyMessage == {"material", "file", "text", "sticker", "a", "b", "c", "ok", "pass",
               "more", "done", "force", "question", "cancel"}

(* A finding of a scan: its priority is 0 if the LLM gave none, and its     *)
(* name stands for its id (p1, p2, ..., r1, ...) where ids are compared.    *)
Severity == {"BLOCKER", "IMPROVEMENT", "NICE_TO_HAVE"}
Finding  == [sev : Severity, pillar : {"Intent", "other"}, priority : Int, name : Nat]

ASSUME ReviewAssumption ==
  /\ Message \subseteq AnyMessage
  /\ Scans \subseteq Seq(Finding)
  /\ \A f \in Scans : \A i, j \in DOMAIN f : f[i].name = f[j].name => i = j
  /\ TopN \in Nat \ {0}
  /\ MaxFailCount \in Nat
  /\ Patient \in BOOLEAN
  /\ Trouble \subseteq {"terminal", "raise", "partial"}
  /\ {MaxTrouble, MaxCrashes, MaxSessions, MaxRounds, InboxCap} \subseteq Nat

VARIABLES
  (* on disk *)
  sess,      \* row of the newest session of the requester
  rows,      \* its annotations.jsonl
  cursor,    \* its cursor.json
  logged,    \* stages its llm_calls rows name, of those has_llm_call_for_stage asks for
  material,  \* its normalized.md exists
  merged,    \* normalized.md holds the text of the message at the head of the inbox
  inbox,     \* tasks of the requester, the head is (or is to be) dispatched
  (* between the agent and the requester *)
  prompt,    \* what the agent has asked last
  heard,     \* the requester was shown it: it had a text and came
  (* the handler *)
  pc,        \* what it does next
  say,       \* the prompt of the message it is about to send
  told,      \* it has sent something to the requester, whether it came or not
  chain,     \* whether it runs the close chain, and how
  (* bounds *)
  crashes, troubles

disk  == <<sess, rows, cursor, logged, material, merged>>
turn  == <<pc, say, told, chain>>
world == <<crashes, troubles>>
vars  == <<disk, inbox, prompt, heard, turn, world>>

None == 0   \* cursor.current_id is None

Busy  == {"scanning", "merging", "final_gating", "closing"}
Stage == Busy \cup {"intake", "awaiting_material_confirm", "subject_confirmation",
                    "qa_active", "qa_active_reopened", "awaiting_close_confirmation",
                    "closed", "ingest_failed", "cancelled"}

Ask(k)     == [kind |-> k, id |-> None]
AskFor(id) == [kind |-> "finding", id |-> id]
Same       == Ask("same")   \* a message that asks nothing new

Session == [no : Nat, stage : Stage, status : {"none", "active", "closed", "failed", "cancelled"},
            verdict : {"none", "READY", "FORCED_PARTIAL", "FAIL"}, fails : Nat, round : Nat]
Row     == [id : Nat \ {0}, sev : Severity,
            status : {"open", "accepted", "rejected", "modified"}]
Prompt  == [kind : {"same", "none", "preview", "topics", "close", "finding"}, id : Nat]

(* The cursors over a set of ids. *)
CursorOf(S) == [current : S \cup {None}, pending : Seq(S), deferred : Seq(S),
                done : SUBSET (Nat \ {0}), rescan : BOOLEAN]

TypeOK ==
  /\ sess \in Session
  /\ rows \in Seq(Row)
  /\ cursor \in CursorOf(Nat \ {0})
  /\ logged \subseteq Busy
  /\ material \in BOOLEAN /\ merged \in BOOLEAN
  /\ inbox \in Seq(Message)
  /\ prompt \in Prompt /\ say \in Prompt /\ heard \in BOOLEAN
  /\ pc \in {"idle", "ingest", "ingested", "propose", "qa", "reset", "rescan", "moreAdvance",
             "advance", "proposeClose", "backToQa", "scan", "scanB", "scanned", "emit",
             "merge", "merged", "gate", "judge", "settle", "reopen", "closing", "summary",
             "deliver", "delivered", "tell", "done"}
  /\ told \in BOOLEAN
  /\ chain \in {"no", "plain", "forced"}
  /\ crashes \in 0..MaxCrashes
  /\ troubles \in 0..MaxTrouble

-----------------------------------------------------------------------------
(* Parsing: _intents.parse_reply_intent by what it returns.  "cancel" is a  *)
(* MODIFY, for it starts with "c"; an empty text or free text is CUSTOM.    *)

QaIntent(m) ==
  CASE m \in {"a", "ok"}     -> "ACCEPT"
    [] m = "b"               -> "REJECT"
    [] m \in {"c", "cancel"} -> "MODIFY"
    [] m = "pass"            -> "PASS"
    [] m = "more"            -> "MORE"
    [] m = "done"            -> "DONE"
    [] m = "force"           -> "FORCE_CLOSE"
    [] m = "question"        -> "QUESTION"
    [] OTHER                 -> "CUSTOM"

StartToken == {"ok", "done"}           \* START_TOKENS of the material gate
Supplement == {"material", "file"}     \* a URL or a long text; an attachment
PicksTopic == {"a", "b", "c"}          \* PICK_A/B/C: chosen if there is such a candidate
NamesTopic == {"ok", "cancel", "question", "text"}   \* CUSTOM with some text: the subject

StatusFor == [ACCEPT |-> "accepted", REJECT |-> "rejected", MODIFY |-> "modified"]

-----------------------------------------------------------------------------
(* The cursor (core/models.py) and the findings *)

EmptyCursor == [current |-> None, pending |-> <<>>, deferred |-> <<>>, done |-> {},
                rescan |-> FALSE]

First(s, n) == SubSeq(s, 1, IF n < Len(s) THEN n ELSE Len(s))
Rest(s, n)  == SubSeq(s, n + 1, Len(s))

Advance(c) ==
  [c EXCEPT !.done = IF c.current = None THEN @ ELSE @ \cup {c.current},
            !.current = IF c.pending = <<>> THEN None ELSE Head(c.pending),
            !.pending = Rest(@, 1)]

PullDeferred(c) ==
  [c EXCEPT !.pending = @ \o First(c.deferred, TopN), !.deferred = Rest(@, TopN)]

(* Ids of a scan are p1, p2, ... r1, ...: they start anew with every scan.  *)
NewRows(f) == [i \in DOMAIN f |-> [id |-> i, sev |-> f[i].sev, status |-> "open"]]

SevOrder == [BLOCKER |-> 0, IMPROVEMENT |-> 1, NICE_TO_HAVE |-> 2]

(* The key findings are sorted by: severity, the Intent pillar first,       *)
(* priority, id.                                                            *)
Key(x) == <<SevOrder[x.sev], IF x.pillar = "Intent" THEN 0 ELSE 1,
            IF x.priority = 0 THEN 99 ELSE x.priority, x.name>>

Before(x, y) ==
  \E k \in 1..4 : Key(x)[k] < Key(y)[k] /\ \A l \in 1 .. k - 1 : Key(x)[l] = Key(y)[l]

(* scan._prioritize: at each place, the finding that as many come before.   *)
Prioritize(f) ==
  LET Rank(i) == Cardinality({j \in DOMAIN f : Before(f[j], f[i])})
  IN  [n \in DOMAIN f |-> CHOOSE i \in DOMAIN f : Rank(i) = n - 1]

(* The cursor scan.run saves: the first TopN ids, of which one is current.  *)
ScanCursor(f) ==
  LET ids == Prioritize(f)
      now == First(ids, TopN)
  IN  [EmptyCursor EXCEPT !.current = IF now = <<>> THEN None ELSE Head(now),
                          !.pending = Rest(now, 1),
                          !.deferred = Rest(ids, TopN)]

Known(id) == \E i \in DOMAIN rows : rows[i].id = id

(* Mutant: every open row is patched. *)
PatchOpen(id, s) == [i \in DOMAIN rows |-> IF rows[i].status = "open"
                                           THEN [rows[i] EXCEPT !.status = s] ELSE rows[i]]

(* update_finding_status patches every row with the id. *)
Patch(id, s) == [i \in DOMAIN rows |-> IF rows[i].id = id
                                       THEN [rows[i] EXCEPT !.status = s] ELSE rows[i]]

(* _extract_open_blockers: ids of the open blocker rows, in file order. *)
OpenBlockers ==
  Select([i \in DOMAIN rows |-> rows[i].id],
         {i \in DOMAIN rows : rows[i].status = "open" /\ rows[i].sev = "BLOCKER"})

-----------------------------------------------------------------------------
NoSession == [no |-> 0, stage |-> "closed", status |-> "none", verdict |-> "none",
              fails |-> 0, round |-> 0]

Init ==
  /\ sess = NoSession
  /\ rows = <<>> /\ cursor = EmptyCursor /\ logged = {}
  /\ material = FALSE /\ merged = FALSE
  /\ inbox = <<>> /\ prompt = Ask("none") /\ heard = TRUE
  /\ pc = "idle" /\ say = Same /\ told = FALSE /\ chain = "no"
  /\ crashes = 0 /\ troubles = 0

Active == sess.status = "active"

(* get_active_session_for returns a session in this stage. *)
At(s) == pc = "idle" /\ inbox # <<>> /\ Active /\ sess.stage = s

Msg    == Head(inbox)
Intent == QaIntent(Msg)

SetStage(s) == sess' = [sess EXCEPT !.stage = s]

(* Ways for a step to end: go on, answer and finish, or finish in silence.  *)
Goto(p)  == pc' = p /\ UNCHANGED <<say, told, chain>>
Reply(p) == pc' = "tell" /\ say' = p /\ UNCHANGED <<told, chain>>
Finish   == Goto("done")

(* A message in passing ("starting...", "running again..."), then go on. *)
TellAnd(p) == pc' = p /\ told' = TRUE /\ UNCHANGED <<say, chain>>

Outside == <<inbox, prompt, heard, world>>

-----------------------------------------------------------------------------
(* The requester *)

Send(m) ==
  /\ Len(inbox) < InboxCap
  /\ Patient => (pc = "idle" /\ inbox = <<>>)
  /\ Active \/ sess.no < MaxSessions
  /\ sess.no <= MaxSessions
  /\ m \in Supplement => sess.round < MaxRounds
  /\ inbox' = Append(inbox, m)
  /\ UNCHANGED <<disk, prompt, heard, turn, world>>

-----------------------------------------------------------------------------
(* No active session: _handle_requester_no_session *)

Open ==
  /\ pc = "idle" /\ inbox # <<>> /\ ~Active
  /\ sess' = [no |-> sess.no + 1, stage |-> "intake", status |-> "active",
              verdict |-> "none", fails |-> 0, round |-> 1]
  /\ rows' = <<>> /\ cursor' = EmptyCursor /\ logged' = {}
  /\ material' = FALSE /\ merged' = FALSE
  /\ Goto("ingest")
  /\ UNCHANGED Outside

Ingest ==
  /\ pc = "ingest"
  /\ Msg # "sticker"
  /\ material' = TRUE /\ merged' = TRUE
  /\ Goto("ingested")
  /\ UNCHANGED <<sess, rows, cursor, logged, Outside>>

(* Mutant: no early return when nothing was ingested. *)
IngestRefusedGoesOn ==
  /\ pc = "ingest"
  /\ Goto("ingested")
  /\ UNCHANGED <<disk, Outside>>

(* Mutant: no return after the session is cancelled. *)
IngestRefusedFallsThrough ==
  /\ pc = "ingest"
  /\ sess' = [sess EXCEPT !.stage = "ingest_failed", !.status = "cancelled"]
  /\ Goto("ingested")
  /\ UNCHANGED <<rows, cursor, logged, material, merged, Outside>>

(* IngestRejected, or a kind of message that is politely refused. *)
IngestRefused ==
  /\ pc = "ingest"
  /\ sess' = [sess EXCEPT !.stage = "ingest_failed", !.status = "cancelled"]
  /\ Reply(Ask("none"))
  /\ UNCHANGED <<rows, cursor, logged, material, merged, Outside>>

(* Any other exception: _fail_session. *)
IngestFails ==
  /\ pc = "ingest"
  /\ Msg # "sticker"
  /\ sess' = [sess EXCEPT !.stage = "ingest_failed", !.status = "failed"]
  /\ Reply(Ask("none"))
  /\ UNCHANGED <<rows, cursor, logged, material, merged, Outside>>

Ingested ==
  /\ pc = "ingested"
  /\ SetStage("awaiting_material_confirm")
  /\ Reply(Ask("preview"))
  /\ UNCHANGED <<rows, cursor, logged, material, merged, Outside>>

-----------------------------------------------------------------------------
(* _handle_awaiting_material_confirm *)

CancelAtGate ==
  /\ At("awaiting_material_confirm")
  /\ Msg = "cancel"
  /\ sess' = [sess EXCEPT !.stage = "cancelled", !.status = "cancelled"]
  /\ Reply(Ask("none"))
  /\ UNCHANGED <<rows, cursor, logged, material, merged, Outside>>

StartReview ==
  /\ At("awaiting_material_confirm")
  /\ Msg \in StartToken
  /\ SetStage("subject_confirmation")
  /\ TellAnd("propose")
  /\ UNCHANGED <<rows, cursor, logged, material, merged, Outside>>

(* More material, which is appended; or anything else, rejected material,   *)
(* and material that is there already: an answer, and nothing changes.  An  *)
(* attachment is always found to be there (module Material).                *)
SupplementAtGate ==
  /\ At("awaiting_material_confirm")
  /\ Msg \notin StartToken \cup {"cancel"}
  /\ \/ Msg \in {"material", "text"} /\ ~merged /\ merged' = TRUE
     \/ UNCHANGED merged
  /\ Reply(Ask("preview"))
  /\ UNCHANGED <<sess, rows, cursor, logged, material, Outside>>

(* _do_confirm_topic *)
Propose ==
  /\ pc = "propose"
  /\ SetStage("subject_confirmation")
  /\ Reply(Ask("topics"))
  /\ UNCHANGED <<rows, cursor, logged, material, merged, Outside>>

(* A URL or a long text at the subject prompt replaces the material. *)
Reingest ==
  /\ At("subject_confirmation")
  /\ Msg = "material"
  /\ merged' = TRUE
  /\ TellAnd("propose")
  /\ UNCHANGED <<sess, rows, cursor, logged, material, Outside>>

(* confirm_topic.handle_reply resolves a subject. *)
ChooseTopic ==
  /\ At("subject_confirmation")
  /\ Msg \in PicksTopic \cup NamesTopic
  /\ SetStage("scanning")
  /\ Goto("scan")
  /\ UNCHANGED <<rows, cursor, logged, material, merged, Outside>>

TopicUnclear ==
  /\ At("subject_confirmation")
  /\ Msg \notin NamesTopic \cup {"material"}
  /\ Reply(Ask("topics"))
  /\ UNCHANGED <<disk, Outside>>

-----------------------------------------------------------------------------
(* Q&A *)

EnterQa ==
  /\ At("qa_active") \/ At("qa_active_reopened")
  /\ SetStage("qa_active")
  /\ Goto("qa")
  /\ UNCHANGED <<rows, cursor, logged, material, merged, Outside>>

(* _maybe_supplement_during_qa: the text is appended to normalized.md, ...  *)
SupplementInQa ==
  /\ pc = "qa"
  /\ Msg = "material"
  /\ ~merged
  /\ merged' = TRUE
  /\ Goto("reset")
  /\ UNCHANGED <<sess, rows, cursor, logged, material, Outside>>

(* ... the cursor is reset, ... *)
ResetCursor ==
  /\ pc = "reset"
  /\ cursor' = EmptyCursor
  /\ Goto("rescan")
  /\ UNCHANGED <<sess, rows, logged, material, merged, Outside>>

(* ... and the scan starts again in a new round. *)
Rescan ==
  /\ pc = "rescan"
  /\ sess' = [sess EXCEPT !.stage = "scanning", !.round = @ + 1]
  /\ TellAnd("scan")
  /\ UNCHANGED <<rows, cursor, logged, material, merged, Outside>>

(* Material that could not be read: the requester is told why. *)
SupplementRejected ==
  /\ pc = "qa"
  /\ Msg \in Supplement
  /\ Reply(Same)
  /\ UNCHANGED <<disk, Outside>>

(* qa_loop.handle_reply on every other message, and on material of which    *)
(* nothing was added, as of every attachment that could be read.            *)
More ==
  /\ pc = "qa"
  /\ Intent = "MORE"
  /\ cursor' = PullDeferred(cursor)
  /\ Goto(IF cursor.deferred = <<>> THEN "proposeClose"
          ELSE IF cursor.current = None THEN "moreAdvance" ELSE "emit")
  /\ UNCHANGED <<sess, rows, logged, material, merged, Outside>>

MoreAdvance ==
  /\ pc = "moreAdvance"
  /\ cursor' = Advance(cursor)
  /\ Goto("emit")
  /\ UNCHANGED <<sess, rows, logged, material, merged, Outside>>

AskToClose ==
  /\ pc = "qa"
  /\ \/ Intent = "DONE"
     \/ Intent \notin {"MORE", "FORCE_CLOSE"} /\ cursor.current = None
  /\ Goto("proposeClose")
  /\ UNCHANGED <<disk, Outside>>

ForceClose ==
  /\ pc = "qa" \/ At("awaiting_close_confirmation")
  /\ Intent = "FORCE_CLOSE"
  /\ pc' = "merge" /\ chain' = "forced" /\ told' = TRUE
  /\ UNCHANGED <<disk, say, Outside>>

Answer ==
  /\ pc = "qa"
  /\ cursor.current # None
  /\ \/ /\ Intent \in DOMAIN StatusFor
        /\ rows' = Patch(cursor.current, StatusFor[Intent])
     \/ Intent \in {"PASS", "CUSTOM"} /\ UNCHANGED rows
  /\ Goto("advance")
  /\ UNCHANGED <<sess, cursor, logged, material, merged, Outside>>

AdvanceCursor ==
  /\ pc = "advance"
  /\ cursor' = Advance(cursor)
  /\ Goto(IF cursor.pending = <<>> THEN "proposeClose" ELSE "emit")
  /\ UNCHANGED <<sess, rows, logged, material, merged, Outside>>

(* The outcome no_op: neither the cursor nor the requester hears of it. *)
Question ==
  /\ pc = "qa"
  /\ Intent = "QUESTION"
  /\ cursor.current # None
  /\ Finish
  /\ UNCHANGED <<disk, Outside>>

(* Mutant: the offer to close is made without a stage of its own. *)
ProposeCloseInQa ==
  /\ pc = "proposeClose"
  /\ Reply(Ask("close"))
  /\ UNCHANGED <<disk, Outside>>

ProposeClose ==
  /\ pc = "proposeClose"
  /\ SetStage("awaiting_close_confirmation")
  /\ Reply(Ask("close"))
  /\ UNCHANGED <<rows, cursor, logged, material, merged, Outside>>

(* _emit_next_finding: nothing is sent without a current finding, ...       *)
EmitNothing ==
  /\ pc = "emit"
  /\ ~Known(cursor.current)
  /\ Finish
  /\ UNCHANGED <<disk, Outside>>

(* ... nor with one of which the LLM says nothing: a reply without content  *)
(* is no failure of the call.                                               *)
EmitBlank ==
  /\ pc = "emit"
  /\ Known(cursor.current)
  /\ prompt' = AskFor(cursor.current) /\ heard' = FALSE
  /\ Finish
  /\ UNCHANGED <<disk, inbox, world>>

Emit ==
  /\ pc = "emit"
  /\ Known(cursor.current)
  /\ Reply(AskFor(cursor.current))
  /\ UNCHANGED <<disk, Outside>>

-----------------------------------------------------------------------------
(* _handle_close_confirmation *)

ConfirmClose ==
  /\ At("awaiting_close_confirmation")
  /\ Intent \in {"ACCEPT", "DONE"}
  /\ SetStage("merging")
  /\ pc' = "merge" /\ chain' = "plain" /\ told' = TRUE
  /\ UNCHANGED <<rows, cursor, logged, material, merged, say, Outside>>

(* Mutant: the pulled findings are not advanced to. *)
MoreAtCloseWithoutAdvance ==
  /\ At("awaiting_close_confirmation")
  /\ Intent = "MORE"
  /\ cursor.deferred # <<>>
  /\ cursor' = PullDeferred(cursor)
  /\ Goto("backToQa")
  /\ UNCHANGED <<sess, rows, logged, material, merged, Outside>>

MoreAtClose ==
  /\ At("awaiting_close_confirmation")
  /\ Intent = "MORE"
  /\ cursor.deferred # <<>>
  /\ cursor' = Advance(PullDeferred(cursor))
  /\ Goto("backToQa")
  /\ UNCHANGED <<sess, rows, logged, material, merged, Outside>>

BackToQa ==
  /\ pc = "backToQa"
  /\ SetStage("qa_active")
  /\ TellAnd("emit")
  /\ UNCHANGED <<rows, cursor, logged, material, merged, Outside>>

(* Mutant: other replies are swallowed. *)
AskAgainSilently ==
  /\ At("awaiting_close_confirmation")
  /\ \/ Intent \notin {"ACCEPT", "DONE", "MORE", "FORCE_CLOSE"}
     \/ Intent = "MORE" /\ cursor.deferred = <<>>
  /\ Finish
  /\ UNCHANGED <<disk, Outside>>

(* Nothing left to pull, or a reply that is none of those: ask again. *)
AskAgain ==
  /\ At("awaiting_close_confirmation")
  /\ \/ Intent \notin {"ACCEPT", "DONE", "MORE", "FORCE_CLOSE"}
     \/ Intent = "MORE" /\ cursor.deferred = <<>>
  /\ Reply(Ask("close"))
  /\ UNCHANGED <<disk, Outside>>

-----------------------------------------------------------------------------
(* The other stages of an active session *)

Restart == [scanning |-> "scan", merging |-> "merge", final_gating |-> "gate",
            closing |-> "summary"]

(* Mutant: the handler is announced, and not awaited. *)
ResumeUnawaited ==
  /\ \E s \in Busy : At(s) /\ s \notin logged
  /\ TellAnd("done")
  /\ UNCHANGED <<disk, Outside>>

(* A message in a busy stage runs its handler again, unless the llm_calls   *)
(* table shows that the stage has called the LLM once in this session.      *)
ResumeBusy ==
  /\ \E s \in Busy : At(s) /\ s \notin logged
  /\ TellAnd(Restart[sess.stage])
  /\ UNCHANGED <<disk, Outside>>

SayBusy ==
  /\ \E s \in Busy : At(s) /\ s \in logged
  /\ Reply(Same)
  /\ UNCHANGED <<disk, Outside>>

(* A session left at intake by a crash: ACCEPT and DONE close it. *)
CloseAtIntake ==
  /\ At("intake")
  /\ Intent \in {"ACCEPT", "DONE"}
  /\ pc' = "merge" /\ chain' = "plain"
  /\ UNCHANGED <<disk, say, told, Outside>>

WaitAtIntake ==
  /\ At("intake")
  /\ Intent \notin {"ACCEPT", "DONE"}
  /\ Reply(Same)
  /\ UNCHANGED <<disk, Outside>>

-----------------------------------------------------------------------------
(* scan.run *)

ScanPillars ==
  /\ pc = "scan"
  /\ logged' = logged \cup {"scanning"}
  /\ Goto("scanB")
  /\ UNCHANGED <<sess, rows, cursor, material, merged, Outside>>

(* The second call; then the findings are appended and the cursor saved.    *)
(* A stop between these two writes leaves the stage at scanning with the    *)
(* call logged, where neither file is read again: they are one step.        *)
ScanResponder ==
  /\ pc = "scanB"
  /\ \E f \in Scans : rows' = rows \o NewRows(f) /\ cursor' = ScanCursor(f)
  /\ Goto("scanned")
  /\ UNCHANGED <<sess, logged, material, merged, Outside>>

Scanned ==
  /\ pc = "scanned"
  /\ SetStage("qa_active")
  /\ Goto("emit")
  /\ UNCHANGED <<rows, cursor, logged, material, merged, Outside>>

-----------------------------------------------------------------------------
(* _enqueue_close_chain, and the steps a restarted busy stage runs alone.   *)

(* Mutant: every step ends the handler. *)
ChainStops(p) == "done"

(* Where a step of the chain goes: to its successor, or to the end of the   *)
(* handler when it was called on its own.                                   *)
InChain(p) == IF chain = "no" THEN "done" ELSE p

Merge ==
  /\ pc = "merge"
  /\ material
  /\ logged' = logged \cup {"merging"}
  /\ Goto("merged")
  /\ UNCHANGED <<sess, rows, cursor, material, merged, Outside>>

(* No normalized.md to merge: FileNotFoundError, the task fails. *)
MergeUnreadable ==
  /\ pc = "merge"
  /\ ~material
  /\ Finish
  /\ UNCHANGED <<disk, Outside>>

Merged ==
  /\ pc = "merged"
  /\ SetStage("final_gating")
  /\ Goto(InChain("gate"))
  /\ UNCHANGED <<rows, cursor, logged, material, merged, Outside>>

Gate ==
  /\ pc = "gate"
  /\ logged' = logged \cup {"final_gating"}
  /\ Goto("judge")
  /\ UNCHANGED <<sess, rows, cursor, material, merged, Outside>>

(* Mutant: a forced gate is judged like any other. *)
JudgeUnforced ==
  /\ pc = "judge"
  /\ \/ sess' = [sess EXCEPT !.verdict = "READY", !.stage = "closing"]
     \/ sess' = [sess EXCEPT !.verdict = "FAIL", !.fails = @ + 1]
  /\ Goto(InChain("settle"))
  /\ UNCHANGED <<rows, cursor, logged, material, merged, Outside>>

(* final_gate.run: the verdict, FORCED_PARTIAL whatever the LLM says if     *)
(* forced.  (READY stands for READY_WITH_OPEN_ITEMS too.)                   *)
Judge ==
  /\ pc = "judge"
  /\ \/ chain = "forced" /\ sess' = [sess EXCEPT !.verdict = "FORCED_PARTIAL", !.stage = "closing"]
     \/ chain # "forced" /\ sess' = [sess EXCEPT !.verdict = "READY", !.stage = "closing"]
     \/ chain # "forced" /\ sess' = [sess EXCEPT !.verdict = "FAIL", !.fails = @ + 1]
  /\ Goto(InChain("settle"))
  /\ UNCHANGED <<rows, cursor, logged, material, merged, Outside>>

GateFailed == sess.verdict = "FAIL" /\ chain # "forced"

(* The chain goes on to delivery unless the gate failed, ... *)
Settle ==
  /\ pc = "settle"
  /\ ~GateFailed
  /\ Goto("closing")
  /\ UNCHANGED <<disk, Outside>>

(* ... with nothing left to ask, ... *)
SettleWithoutBlockers ==
  /\ pc = "settle"
  /\ GateFailed
  /\ OpenBlockers = <<>>
  /\ sess' = [sess EXCEPT !.verdict = "FORCED_PARTIAL", !.stage = "closing"]
  /\ TellAnd("closing")
  /\ UNCHANGED <<rows, cursor, logged, material, merged, Outside>>

(* Mutant: the failed verdict is kept. *)
SettleExhaustedAsFailed ==
  /\ pc = "settle"
  /\ GateFailed
  /\ OpenBlockers # <<>>
  /\ sess.fails >= MaxFailCount
  /\ Goto("closing")
  /\ UNCHANGED <<disk, Outside>>

(* ... or once too often.                                                   *)
SettleExhausted ==
  /\ pc = "settle"
  /\ GateFailed
  /\ OpenBlockers # <<>>
  /\ sess.fails >= MaxFailCount
  /\ sess' = [sess EXCEPT !.verdict = "FORCED_PARTIAL"]
  /\ Goto("closing")
  /\ UNCHANGED <<rows, cursor, logged, material, merged, Outside>>

(* Mutants: the Q&A is reopened however often the gate failed; and nothing  *)
(* is made current.                                                         *)
RequeueAlways ==
  /\ pc = "settle"
  /\ GateFailed
  /\ OpenBlockers # <<>>
  /\ LET c == [cursor EXCEPT !.rescan = TRUE, !.pending = OpenBlockers \o @]
     IN  cursor' = IF c.current = None THEN Advance(c) ELSE c
  /\ Goto("reopen")
  /\ UNCHANGED <<sess, rows, logged, material, merged, Outside>>

RequeueWithoutAdvance ==
  /\ pc = "settle"
  /\ GateFailed
  /\ OpenBlockers # <<>>
  /\ sess.fails < MaxFailCount
  /\ cursor' = [cursor EXCEPT !.rescan = TRUE, !.pending = OpenBlockers \o @]
  /\ Goto("reopen")
  /\ UNCHANGED <<sess, rows, logged, material, merged, Outside>>

(* transition_after_final_gate_fail: the open blockers come first. *)
RequeueBlockers ==
  /\ pc = "settle"
  /\ GateFailed
  /\ OpenBlockers # <<>>
  /\ sess.fails < MaxFailCount
  /\ LET c == [cursor EXCEPT !.rescan = TRUE, !.pending = OpenBlockers \o @]
     IN  cursor' = IF c.current = None THEN Advance(c) ELSE c
  /\ Goto("reopen")
  /\ UNCHANGED <<sess, rows, logged, material, merged, Outside>>

Reopen ==
  /\ pc = "reopen"
  /\ sess' = [sess EXCEPT !.stage = "qa_active_reopened", !.round = @ + 1]
  /\ TellAnd("emit")
  /\ UNCHANGED <<rows, cursor, logged, material, merged, Outside>>

Closing ==
  /\ pc = "closing"
  /\ SetStage("closing")
  /\ Goto("summary")
  /\ UNCHANGED <<rows, cursor, logged, material, merged, Outside>>

(* _do_build_and_deliver *)
Summarize ==
  /\ pc = "summary"
  /\ logged' = logged \cup {"closing"}
  /\ Goto("deliver")
  /\ UNCHANGED <<sess, rows, cursor, material, merged, Outside>>

(* Every target of the delivery counts as reached, the requester among them *)
(* (module Delivery: a message may have been refused all the same).         *)
Deliver ==
  /\ pc = "deliver"
  /\ SetStage("closing")
  /\ prompt' = Ask("none") /\ heard' \in BOOLEAN
  /\ TellAnd("delivered")
  /\ UNCHANGED <<rows, cursor, logged, material, merged, inbox, world>>

Delivered ==
  /\ pc = "delivered"
  /\ sess' = [sess EXCEPT !.stage = "closed", !.status = "closed"]
  /\ Finish
  /\ UNCHANGED <<rows, cursor, logged, material, merged, Outside>>

-----------------------------------------------------------------------------
(* The end of a handler *)

(* The last message of the handler is sent, ... *)
Tell ==
  /\ pc = "tell"
  /\ IF say = Same THEN UNCHANGED <<prompt, heard>> ELSE prompt' = say /\ heard' = TRUE
  /\ pc' = "done" /\ told' = TRUE
  /\ UNCHANGED <<disk, inbox, say, chain, world>>

(* ... or lost without the handler's noticing: _safe_dm drops what cannot   *)
(* be sent, and Lark may refuse it in an answer that looks well, ...        *)
TellLost ==
  /\ pc = "tell"
  /\ say # Same
  /\ prompt' = say /\ heard' = FALSE
  /\ pc' = "done" /\ told' = TRUE
  /\ UNCHANGED <<disk, inbox, say, chain, world>>

(* ... and the task is done, or failed. *)
Done ==
  /\ pc = "done"
  /\ inbox' = Tail(inbox)
  /\ merged' = FALSE
  /\ pc' = "idle" /\ say' = Same /\ told' = FALSE /\ chain' = "no"
  /\ UNCHANGED <<sess, rows, cursor, logged, material, prompt, heard, world>>

-----------------------------------------------------------------------------
(* What goes wrong *)

(* The LLM calls and the readings of their answers, and the stage           *)
(* _fail_session records for each.                                          *)
FailStage == [propose |-> "subject_confirmation", scan |-> "scanning", scanB |-> "scanning",
              emit |-> "qa_active", merge |-> "merging", gate |-> "final_gating",
              judge |-> "final_gating", summary |-> "closing"]

CallsLlm ==
  /\ pc \in DOMAIN FailStage
  /\ pc = "emit" => Known(cursor.current)
  /\ pc = "merge" => material

Happens(kind) ==
  /\ kind \in Trouble
  /\ troubles < MaxTrouble
  /\ troubles' = troubles + 1

(* LLMTerminalFailure, which an answer that cannot be parsed is as well:    *)
(* the session fails.  The close chain does not look at that: after a       *)
(* failed merge it goes on to the gate, after a failed gate to the verdict. *)
LlmFails ==
  /\ CallsLlm
  /\ Happens("terminal")
  /\ sess' = [sess EXCEPT !.stage = FailStage[pc], !.status = "failed"]
  /\ TellAnd(CASE pc = "merge" -> InChain("gate")
               [] pc \in {"gate", "judge"} -> InChain("settle")
               [] OTHER -> "done")
  /\ UNCHANGED <<rows, cursor, logged, material, merged, inbox, prompt, heard, crashes>>

(* A handler fetches what a message links or attaches; only at the subject  *)
(* prompt it does not expect the material to be rejected.                   *)
FetchesMaterial ==
  \/ At("subject_confirmation") /\ Msg = "material"
  \/ (pc = "qa" \/ At("awaiting_material_confirm")) /\ Msg \in Supplement

(* Any other exception leaves the handler; the worker marks the task failed.*)
HandlerRaises ==
  /\ CallsLlm \/ FetchesMaterial
  /\ Happens("raise")
  /\ Finish
  /\ UNCHANGED <<disk, inbox, prompt, heard, crashes>>

(* Some target of the delivery was not reached: the session stays closing.  *)
DeliverPartly ==
  /\ pc = "deliver"
  /\ Happens("partial")
  /\ SetStage("closing")
  /\ TellAnd("done")
  /\ UNCHANGED <<rows, cursor, logged, material, merged, inbox, prompt, heard, crashes>>

(* The process stops; the next one dispatches the head of the inbox again.  *)
Crash ==
  /\ pc # "idle"
  /\ crashes < MaxCrashes
  /\ crashes' = crashes + 1
  /\ pc' = "idle" /\ say' = Same /\ told' = FALSE /\ chain' = "no"
  /\ UNCHANGED <<disk, inbox, prompt, heard, troubles>>

-----------------------------------------------------------------------------
Intake   == Open \/ Ingest \/ IngestRefused \/ IngestFails \/ Ingested
Gathering == CancelAtGate \/ StartReview \/ SupplementAtGate \/ Propose \/ Reingest
               \/ ChooseTopic \/ TopicUnclear
Qa       == EnterQa \/ SupplementInQa \/ ResetCursor \/ Rescan \/ SupplementRejected \/ More
              \/ MoreAdvance \/ AskToClose \/ ForceClose \/ Answer \/ AdvanceCursor \/ Question
              \/ ProposeClose \/ EmitNothing \/ EmitBlank \/ Emit
CloseAsked == ConfirmClose \/ MoreAtClose \/ BackToQa \/ AskAgain
Leftover == ResumeBusy \/ SayBusy \/ CloseAtIntake \/ WaitAtIntake
Scanning == ScanPillars \/ ScanResponder \/ Scanned
Close    == Merge \/ MergeUnreadable \/ Merged \/ Gate \/ Judge \/ Settle
              \/ SettleWithoutBlockers \/ SettleExhausted \/ RequeueBlockers \/ Reopen
              \/ Closing \/ Summarize \/ Deliver \/ Delivered

Handler == Intake \/ Gathering \/ Qa \/ CloseAsked \/ Leftover \/ Scanning \/ Close
             \/ Tell \/ TellLost \/ Done

Next ==
  \/ \E m \in Message : Send(m)
  \/ Handler
  \/ LlmFails \/ HandlerRaises \/ DeliverPartly
  \/ Crash

Spec == Init /\ [][Next]_vars

(* The worker runs whenever there is something to run (module TaskQueue),   *)
(* and every call a handler awaits has a timeout; nothing obliges the       *)
(* requester to write.                                                      *)
FairSpec == Spec /\ WF_vars(Handler)

-----------------------------------------------------------------------------
(* Properties *)

Quiet == pc = "idle" /\ inbox = <<>>

(* A reply changes the status of the finding that was asked of last, never  *)
(* of another one (update_finding_status in qa_loop.handle_reply).  The     *)
(* requester was shown it (heard), unless the LLM had no text for it or the *)
(* message was lost: then the reply changes a finding that nobody has seen. *)
ReplyAppliesToPrompt ==
  [][\A i \in DOMAIN rows :
       (sess'.no = sess.no /\ rows'[i].status # rows[i].status) =>
         prompt = AskFor(rows[i].id)]_vars

(* When nothing is left to do, what was asked last is what the stage of the *)
(* session makes of the next reply, be it heard or not.  (A scan without    *)
(* findings ends in qa_active without a word: there is nothing to match.)   *)
PromptMatchesStage ==
  (Quiet /\ Active) =>
    prompt = CASE sess.stage = "awaiting_material_confirm"   -> Ask("preview")
               [] sess.stage = "subject_confirmation"        -> Ask("topics")
               [] sess.stage = "awaiting_close_confirmation" -> Ask("close")
               [] sess.stage = "qa_active" /\ cursor.current # None
                                                             -> AskFor(cursor.current)
               [] OTHER                                      -> prompt

(* A session at rest waits for the requester: it is in no stage in which    *)
(* the next message would be told to wait.                                  *)
RestsOnlyOnRequester ==
  (Quiet /\ Active) => sess.stage \notin Busy \cup {"intake"}

(* No finding waits behind an empty current place, where a reply would be   *)
(* answered with the offer to close.                                        *)
NoneStranded == (Quiet /\ Active /\ cursor.current = None) => cursor.pending = <<>>

(* A handler that ends without a word is handling a question, or there was  *)
(* no finding to show, or the LLM had nothing to say of the finding that it *)
(* was to show.                                                             *)
SilenceIsKnown ==
  (pc = "done" /\ ~told) =>
    \/ Msg = "question"
    \/ sess.stage = "qa_active" /\ cursor.current = None
    \/ ~heard /\ prompt = AskFor(cursor.current)

(* The gate fails at most MaxFailCount times (or once, if that is 0), and   *)
(* reopens the Q&A fewer times than that: the loop of gate and Q&A ends.    *)
GateGivesUp ==
  /\ sess.fails <= MaxFailCount \/ sess.fails = 1
  /\ sess.stage = "qa_active_reopened" => sess.fails < MaxFailCount

(* A reopened Q&A has a finding to ask about. *)
ReopenedHasFinding ==
  (Active /\ sess.stage = "qa_active_reopened") => Known(cursor.current)

(* A session is closed under a verdict that accepts or was forced, whatever *)
(* was interrupted and resumed on the way, unless an LLM call has failed it *)
(* before (FailedIsFinal): the chain closes a failed session without any    *)
(* verdict, or by force under that of an earlier gate.                      *)
ClosedUnderVerdict ==
  [][(sess.status # "closed" /\ sess'.status = "closed") =>
       \/ sess.verdict \in {"READY", "FORCED_PARTIAL"}
       \/ sess.status = "failed" /\ sess.verdict = "none"
       \/ sess.status = "failed" /\ sess.verdict = "FAIL" /\ chain = "forced"]_vars

(* A closed or cancelled session is not touched again. *)
EndIsFinal ==
  [][sess.status \in {"closed", "cancelled"} =>
       sess' = sess \/ (sess'.no = sess.no + 1 /\ sess'.stage = "intake")]_vars

(* dispatcher.py:1033 tells the requester of a failed session that it has   *)
(* ended ("session 已终止"): nothing but a new session follows.             *)
FailedIsFinal ==
  [][sess.status = "failed" =>
       sess' = sess \/ (sess'.no = sess.no + 1 /\ sess'.stage = "intake")]_vars

(* Only a merge at intake finds no normalized.md: every other step that     *)
(* reads it comes after it was written.                                     *)
ReadsWhatExists ==
  /\ pc \in {"propose", "scan", "scanB", "gate", "summary"} => material
  /\ (pc = "merge" /\ ~material) => sess.stage = "intake"

(* A busy stage that was interrupted before its LLM call is run again by    *)
(* the next message, and is left if nothing more goes wrong: the session    *)
(* moves on or ends, but for a gate that is run alone and fails.            *)
ResumedMovesOn ==
  \A s \in Busy :
    (At(s) /\ s \notin logged /\ crashes = MaxCrashes /\ troubles = MaxTrouble) ~>
      (sess.stage # s \/ ~Active \/ (s = "final_gating" /\ sess.verdict = "FAIL"))

(* A force close ends in a delivered session with a partial verdict. *)
ForceCloseDelivers ==
  (chain = "forced") ~> (sess.status = "closed" /\ sess.verdict = "FORCED_PARTIAL")

-----------------------------------------------------------------------------
(* The life of a review as the requester and the responder know it. *)
Lifecycle == INSTANCE ReviewLifecycle WITH
  phase   <- CASE sess.status = "none" -> "none"
               [] sess.status \in {"closed", "failed", "cancelled"} -> "over"
               [] Active /\ sess.stage \in {"intake", "awaiting_material_confirm",
                                           "subject_confirmation"} -> "gathering"
               [] Active /\ sess.stage \in {"merging", "final_gating", "closing"} -> "closing"
               [] OTHER -> "reviewing",
  verdict <- sess.verdict,
  fails   <- sess.fails

ImplementsLifecycle == Lifecycle!FairSpec
=============================================================================
