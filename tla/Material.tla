------------------------------ MODULE Material ------------------------------
(* The material of one review: the file normalized.md, which the dispatcher *)
(* (core/dispatcher.py, _save_and_ingest_multimodal, _append_supplementary_ *)
(* material, _maybe_reingest_at_subject_confirmation) fills from the        *)
(* messages of the requester by way of pipeline/ingest.py and its backends, *)
(* and what the requester is told of it.                                    *)
(*                                                                          *)
(* The file is a sequence of blocks: a block is the message it was made of, *)
(* the backend that read it and what its sources gave it.  A source may     *)
(* read differently the next time, and each backend words it in its own     *)
(* way.  The worker handles one message at a time and may be stopped        *)
(* between any two writes; the task is then run again from the start, in    *)
(* the stage that was reached (TaskQueue).  The rescan that follows an      *)
(* addition in Q&A is in ReviewSession: the stage stays "qa".               *)
EXTENDS Naturals, Sequences, SequencesExt

CONSTANTS
  Links,        \* sets of kinds of links that a message may have
  Readings,     \* what the links of a message may give together
  Installed,    \* tools and keys of the host: OCR, transcription, PDF
  None,
  MaxMessages,  \* bound: messages the requester sends
  MaxCrashes    \* bound: stops of the process

LinkKinds == {"lark", "bitable", "sheet", "youtube", "web"}

(* What a link gives: text, text with the very mark that the backends put   *)
(* on a failure, nothing, or an exception, which becomes a marked block.    *)
Reading == {"text", "marked", "blank", "failed"}

ASSUME MaterialAssumption ==
  /\ \A ks \in Links : ks # {} /\ ks \subseteq LinkKinds
  /\ \A r \in Readings : r # {} /\ r \subseteq Reading
  /\ MaxMessages \in Nat /\ MaxCrashes \in Nat

(* "essay": a text of more than 300 characters; "excerpt": a passage of it; *)
(* "word": a text of less than ten characters, "ok" one that starts review. *)
Texts       == {"essay", "excerpt", "word", "ok"}
Attachments == {"image", "audio", "pdf", "textfile", "spreadsheet"}
Messages    == Links \cup {{f} : f \in Texts \cup Attachments \cup {"video"}}

HasLinks(m)     == m \in Links
IsAttachment(m) == \E f \in Attachments : m = {f}
IsText(m)       == \E f \in Texts : m = {f}

VARIABLES
  norm,     \* normalized.md
  stage,    \* of the session; "none" before it, "over" when it was given up
  msg,      \* the message of the worker's task, None when there is none
  pc,       \* where the handler is
  got,      \* what the sources of the message gave
  answer,   \* what the requester is told of the message
  before,   \* normalized.md when the message came
  again,    \* the message is handled a second time
  told,     \* blocks that the requester has been told were read
  sent, crashes

vars == <<norm, stage, msg, pc, got, answer, before, again, told, sent, crashes>>
Held == <<msg, before, again, sent, crashes>>

-----------------------------------------------------------------------------
(* Which backend reads a message.                                           *)

(* The first message: Lark documents, then tables, then videos, then pages; *)
(* links of the kinds that come later are not looked at.                    *)
FirstBackend(m) ==
  IF "lark" \in m THEN "lark"
  ELSE IF "bitable" \in m THEN "bitable"
  ELSE IF "sheet" \in m THEN "sheet"
  ELSE IF "youtube" \in m THEN "youtube"
  ELSE "web"

(* Later messages: whatever is not a Lark document is a web page.           *)
LaterBackend(m) == IF "lark" \in m THEN "lark" ELSE "web"

(* What a backend sees as a failure of the link. *)
SeenAsFailure(backend) ==
  CASE backend \in {"lark", "youtube"} -> {"marked", "blank", "failed"}
    [] backend \in {"bitable", "web"}  -> {"marked", "failed"}
    [] backend = "sheet"               -> {}

(* Mutant: a message is taken although none of its links could be read. *)
RejectsNone(backend, r) == FALSE

Rejects(backend, r) == r \subseteq SeenAsFailure(backend)

(* Image, audio and PDF backends: tools are asked in turn, and those that   *)
(* pass on leave what they cannot read to the next one.                     *)
Chain(f) ==
  CASE f = "image" -> <<"tesseract", "gemini", "openai">>
    [] f = "audio" -> <<"whisper.cpp", "whisper", "gemini", "openai">>
    [] f = "pdf"   -> <<"pdftotext", "pdfminer">>

PassesOn == {"tesseract", "whisper.cpp", "pdftotext", "pdfminer"}
Silent   == {"tesseract", "whisper.cpp", "pdftotext"}   \* a failure is an empty output

Asked(f) ==
  LET IsInstalled(t) == t \in Installed
      tools == SelectSeq(Chain(f), IsInstalled)
  IN  {tools[i] : i \in {j \in DOMAIN tools : \A k \in 1 .. j - 1 : tools[k] \in PassesOn}}

(* IngestPipeline.run: text, IngestRejected (too big, or nothing was        *)
(* recognised), or another exception: a tool's, or IngestUnsupported.       *)
FileReadings(f) ==
  IF f = "spreadsheet" THEN {"error"}
  ELSE IF f = "textfile" THEN {"text", "blank", "rejected"}
  ELSE {"rejected"} \cup (IF Asked(f) = {} THEN {} ELSE {"text"})
                    \cup (IF Asked(f) \subseteq Silent THEN {} ELSE {"error"})

(* "own": the text is the message's or the file's own, no link's.           *)
Block(m, r, backend) == [of |-> m, read |-> r, by |-> backend]
Took(b)       == [out |-> "text", block |-> b]
Outcome(o)    == [out |-> o, block |-> None]
Refusal(out)  == IF out = "rejected" THEN "refused" ELSE "failed"

FromLinks(m, backend) ==
  {IF Rejects(backend, r) THEN Outcome("rejected") ELSE Took(Block(m, r, backend))
   : r \in Readings}

FromText(m) == {Took(Block(m, {"text"}, "own"))}

(* "unread": the attachment could not be downloaded. *)
FromAttachment(m) ==
  LET f == CHOOSE x \in Attachments : m = {x}
  IN  {Outcome("unread")} \cup
      {IF r \in {"text", "blank"} THEN Took(Block(m, {r}, "own")) ELSE Outcome(r)
         : r \in FileReadings(f)}

(* `new_block.strip() in existing'. *)
Contained(b, blocks) ==
  \/ b \in Range(blocks)
  \/ b.of = {"excerpt"} /\ \E c \in Range(blocks) : c.of = {"essay"}

-----------------------------------------------------------------------------
Init ==
  /\ norm = <<>> /\ stage = "none" /\ msg = None /\ pc = "idle"
  /\ got = Outcome("none") /\ answer = "none"
  /\ before = <<>> /\ again = FALSE /\ told = {}
  /\ sent = 0 /\ crashes = 0

Send(m) ==
  /\ msg = None /\ stage # "over" /\ sent < MaxMessages
  /\ msg' = m /\ sent' = sent + 1
  /\ before' = norm /\ answer' = "none"
  /\ UNCHANGED <<norm, stage, pc, got, again, told, crashes>>

At(s) == msg # None /\ pc = "idle" /\ stage = s

(* The answer is the handler's last act; the task is done with it. *)
Tell(what) ==
  /\ answer' = what /\ pc' = "idle" /\ msg' = None
  /\ got' = Outcome("none") /\ before' = <<>> /\ again' = FALSE
  /\ UNCHANGED <<sent, crashes>>

-----------------------------------------------------------------------------
(* The first message: _handle_requester_no_session.                         *)

Open ==
  /\ At("none")
  /\ stage' = "intake" /\ pc' = "ingest"
  /\ UNCHANGED <<norm, got, answer, told, Held>>

(* What the backend for the first message makes of it. *)
FirstReadings(m) ==
  IF HasLinks(m) THEN FromLinks(m, FirstBackend(m))
  ELSE IF IsText(m) THEN FromText(m)
  ELSE IF IsAttachment(m) THEN FromAttachment(m)
  ELSE {Outcome("rejected")}

Ingest ==
  /\ pc = "ingest"
  /\ \E g \in FirstReadings(msg) :
       /\ got' = g
       /\ \/ g.out = "text" /\ pc' = "store"
          \/ g.out # "text" /\ pc' = "giveUp"
  /\ UNCHANGED <<norm, stage, answer, told, Held>>

Store ==
  /\ pc = "store"
  /\ norm' = <<got.block>> /\ pc' = "gate"
  /\ UNCHANGED <<stage, got, answer, told, Held>>

EnterGate ==
  /\ pc = "gate"
  /\ stage' = "gate" /\ pc' = "taken"
  /\ UNCHANGED <<norm, got, answer, told, Held>>

(* Every attachment that is a file, not an image or a voice message, is     *)
(* refused with a reason whatever went wrong after the download.            *)
GiveUp ==
  /\ pc = "giveUp"
  /\ stage' = "over"
  /\ Tell(IF IsAttachment(msg) /\ msg \notin {{"image"}, {"audio"}} /\ got.out = "error"
          THEN "refused" ELSE Refusal(got.out))
  /\ UNCHANGED <<norm, told>>

(* A preview, or a notice that the material was merged. *)
TellTaken ==
  /\ pc = "taken"
  /\ told' = told \cup {got.block}
  /\ Tell("taken")
  /\ UNCHANGED <<norm, stage>>

(* The process stopped before the gate: nothing handles this stage, ... *)
Unhandled ==
  /\ At("intake") /\ msg # {"ok"}
  /\ Tell("wait")
  /\ UNCHANGED <<norm, stage, told>>

(* ... but "ok" closes the session, by way of ReviewSession's close chain.  *)
CloseUnread ==
  /\ At("intake") /\ msg = {"ok"}
  /\ stage' = "over"
  /\ Tell("closing")
  /\ UNCHANGED <<norm, told>>

-----------------------------------------------------------------------------
(* _append_supplementary_material, at the gate and in Q&A                   *)

IsSupplement(m) ==
  \/ stage = "gate" /\ m # {"ok"}
  \/ stage = "qa" /\ (HasLinks(m) \/ IsAttachment(m) \/ m = {"essay"})

(* The kind of a later file is guessed from its first bytes, not from its   *)
(* name, so a plain text is of a kind that no backend takes.                *)
LaterReadings(m) ==
  IF HasLinks(m) THEN FromLinks(m, LaterBackend(m))
  ELSE IF m \in {{"essay"}, {"excerpt"}} THEN FromText(m)
  ELSE IF m = {"textfile"} THEN {Outcome("unread"), Outcome("error")}
  ELSE IF IsAttachment(m) THEN FromAttachment(m)
  ELSE {Outcome("nothing")}

(* When nothing was added, the gate says so; in Q&A the message is read as  *)
(* a reply to the finding at hand.                                          *)
NotAdded == IF stage = "gate" THEN "unclear" ELSE "reply"

ReadSupplement ==
  /\ At("gate") \/ At("qa")
  /\ IsSupplement(msg)
  /\ \E g \in LaterReadings(msg) :
       /\ got' = g
       /\ pc' = CASE g.out = "rejected" -> "refuse"
                  [] g.out = "text" -> IF IsAttachment(msg) THEN "overwrite" ELSE "append"
                  [] OTHER -> "notAdded"
  /\ UNCHANGED <<norm, stage, answer, told, Held>>

(* An attachment goes through IngestPipeline.run, which writes its text     *)
(* over normalized.md ...                                                   *)
Overwrite ==
  /\ pc = "overwrite"
  /\ norm' = <<got.block>> /\ pc' = "append"
  /\ UNCHANGED <<stage, got, answer, told, Held>>

(* Mutant: appended without a look at what is there. *)
AppendAlways ==
  /\ pc = "append"
  /\ norm' = Append(norm, got.block) /\ pc' = "taken"
  /\ UNCHANGED <<stage, got, answer, told, Held>>

(* ... and is then found to be there already: _do_append_to_normalized adds *)
(* nothing that the file contains.  (Nor what is blank, which nothing is    *)
(* that comes here.)                                                        *)
AppendBlock ==
  /\ pc = "append"
  /\ \/ Contained(got.block, norm) /\ pc' = "notAdded" /\ UNCHANGED norm
     \/ ~Contained(got.block, norm) /\ norm' = Append(norm, got.block) /\ pc' = "taken"
  /\ UNCHANGED <<stage, got, answer, told, Held>>

TellNotAdded ==
  /\ pc = "notAdded"
  /\ Tell(NotAdded)
  /\ UNCHANGED <<norm, stage, told>>

TellRefused ==
  /\ pc = "refuse"
  /\ Tell("refused")
  /\ UNCHANGED <<norm, stage, told>>

StartReview ==
  /\ At("gate") /\ msg = {"ok"}
  /\ stage' = "subject"
  /\ Tell("topics")
  /\ UNCHANGED <<norm, told>>

-----------------------------------------------------------------------------
(* At the subject prompt: links and long texts replace the material; any    *)
(* other text is the subject, and nothing reads an attachment.              *)

IsSubstitute(m) == HasLinks(m) \/ m = {"essay"}

ReadSubstitute ==
  /\ At("subject") /\ IsSubstitute(msg)
  /\ \E g \in LaterReadings(msg) :
       /\ got' = g
       /\ pc' = IF g.out = "text" THEN "substitute" ELSE "escape"
  /\ UNCHANGED <<norm, stage, answer, told, Held>>

Substitute ==
  /\ pc = "substitute"
  /\ norm' = <<got.block>> /\ pc' = "substituted"
  /\ UNCHANGED <<stage, got, answer, told, Held>>

TellSubstituted ==
  /\ pc = "substituted"
  /\ told' = {got.block}
  /\ Tell("taken")
  /\ UNCHANGED <<norm, stage>>

(* IngestRejected is caught by nobody but the worker, which only logs it.   *)
Escape ==
  /\ pc = "escape"
  /\ Tell("silence")
  /\ UNCHANGED <<norm, stage, told>>

ChooseSubject ==
  /\ At("subject") /\ IsText(msg) /\ ~IsSubstitute(msg)
  /\ stage' = "qa"
  /\ Tell("finding")
  /\ UNCHANGED <<norm, told>>

SubjectUnclear ==
  /\ At("subject") /\ ~IsText(msg) /\ ~IsSubstitute(msg)
  /\ Tell("unclear")
  /\ UNCHANGED <<norm, stage, told>>

(* qa_loop.handle_reply *)
ReplyToFinding ==
  /\ At("qa") /\ ~IsSupplement(msg)
  /\ Tell("reply")
  /\ UNCHANGED <<norm, stage, told>>

-----------------------------------------------------------------------------
(* The process stops; the task is queued again at the next start.           *)
Crash ==
  /\ pc # "idle" /\ crashes < MaxCrashes
  /\ crashes' = crashes + 1
  /\ pc' = "idle" /\ got' = Outcome("none") /\ again' = TRUE
  /\ UNCHANGED <<norm, stage, msg, answer, before, told, sent>>

Intake     == Open \/ Ingest \/ Store \/ EnterGate \/ GiveUp \/ Unhandled \/ CloseUnread
Supplement == ReadSupplement \/ Overwrite \/ AppendBlock \/ TellNotAdded \/ TellRefused
Subject    == StartReview \/ ReadSubstitute \/ Substitute \/ TellSubstituted \/ Escape
              \/ ChooseSubject \/ SubjectUnclear \/ ReplyToFinding

Next == (\E m \in Messages : Send(m)) \/ Intake \/ TellTaken \/ Supplement \/ Subject \/ Crash

Spec == Init /\ [][Next]_vars

-----------------------------------------------------------------------------
(* The same text was read for both: of one message, or of a passage and the *)
(* text that it is a passage of.                                            *)
SameSource(a, b) == a.of = b.of \/ {a.of, b.of} = {{"essay"}, {"excerpt"}}

(* However often messages are repeated by the requester or replayed after a *)
(* stop, a text is in the material twice in two cases only, and the LLM is  *)
(* shown it twice then: a link that was read again gave something else, or  *)
(* was read by another backend, the one for a first message and the one for *)
(* all later ones; or a passage came first and the text it is from after    *)
(* it.  A text, a file, a link that gives the same again and a passage of   *)
(* what is there never are, whatever was written over in between.           *)
TwiceOnlyReadAnew ==
  \A i \in DOMAIN norm : \A j \in 1 .. i - 1 :
    SameSource(norm[j], norm[i]) =>
      \/ HasLinks(norm[i].of) /\ norm[j] # norm[i]
      \/ norm[j].of = {"excerpt"} /\ norm[i].of = {"essay"}

(* The answers are true of the material.  After a refusal, or an exception, *)
(* it is what it was.  After "I have not understood" too, unless the        *)
(* message was handled once before a stop or was an attachment (the case    *)
(* AttachmentsAdd is about).  What is said to be taken is there, together   *)
(* with all that was there before unless it came at the subject prompt; and *)
(* some of it could be read, except that sheets sent first are taken        *)
(* unread.  Silence is kept at the subject prompt only.                     *)
AnswerFits ==
  LET Said(a) == answer' = a /\ msg # None /\ msg' = None
      b == got.block
  IN  /\ Said("refused") \/ Said("failed") \/ Said("silence") => norm = before \/ again
      /\ Said("unclear") \/ Said("reply") => norm = before \/ again \/ IsAttachment(msg)
      /\ Said("silence") => stage = "subject"
      /\ Said("taken") =>
           /\ b.of = msg /\ b \in Range(norm)
           /\ stage # "subject" => Range(before) \subseteq Range(norm)
           /\ b.read = {"failed"} => "sheet" \in msg /\ before = <<>>

(* Every answer fits. *)
AnswersFit == [][AnswerFits]_vars

(* What the requester has been told was read stays in the material until    *)
(* it is replaced at the subject prompt, whatever is handled in between.    *)
(* The docstring of _append_supplementary_material says of the gate "just   *)
(* append" and of Q&A "append + rescan"; attachments do otherwise.          *)
AttachmentsAdd == pc = "idle" /\ msg = None => told \subseteq Range(norm)
=============================================================================
