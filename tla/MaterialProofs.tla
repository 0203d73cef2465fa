--------------------------- MODULE MaterialProofs ---------------------------
(* Proofs about Material: when a text is twice in the material of a review, *)
(* and that what the requester is told of a message is true of the          *)
(* material.                                                                *)
(*                                                                          *)
(* An answer looks at what the file was when the message came; the          *)
(* invariant says, for every point of the handlers, how far the file may    *)
(* have moved from it.                                                      *)
EXTENDS Material, Basics

(* A text reads as it is. *)
Plain(b) == ~HasLinks(b.of) /\ ~IsAttachment(b.of) => b.read = {"text"} /\ b.by = "own"

Blocks == {b \in [of : Messages, read : SUBSET Reading, by : LinkKinds \cup {"own"}] : Plain(b)}

HasBlock  == {"store", "gate", "overwrite", "append", "substitute", "substituted", "taken"}
First     == {"ingest", "giveUp", "store", "gate"}
Later     == {"overwrite", "append", "notAdded", "refuse"}
AtSubject == {"substitute", "substituted", "escape"}

TypeOK ==
  /\ norm \in Seq(Blocks) /\ before \in Seq(Blocks)
  /\ msg \in Messages \cup {None}
  /\ pc \in {"idle", "taken"} \cup First \cup Later \cup AtSubject

(* Each handler runs in its stage, and the first message meets no material. *)
WhereFits ==
  /\ pc # "idle" => msg # None
  /\ pc \in First => stage = "intake" /\ before = <<>>
  /\ pc \in Later \cup {"taken"} => stage \in {"gate", "qa"}
  /\ pc \in AtSubject => stage = "subject"
  /\ stage = "none" => norm = <<>> /\ before = <<>> /\ pc = "idle"

(* What was read is of this message, and unreadable only if a table came    *)
(* first.                                                                   *)
Fits(b) ==
  /\ b \in Blocks /\ b.of = msg
  /\ b.read = {"failed"} => "sheet" \in msg /\ before = <<>>

(* What was read is in the file from the moment the handler says so; an     *)
(* attachment overwrites before it appends, and appends nothing then.       *)
BlockFits ==
  /\ pc \in HasBlock => Fits(got.block)
  /\ pc \in {"gate", "taken", "substituted"} => got.block \in Range(norm)
  /\ pc = "overwrite" => IsAttachment(msg)
  /\ pc = "append" /\ IsAttachment(msg) => got.block \in Range(norm)
  /\ pc = "taken" /\ IsAttachment(msg) => before = <<>>

(* Until something is written, the file is what it was when the message     *)
(* came, or the message is handled for the second time.                     *)
Untouched ==
  /\ msg # None /\ pc \in {"idle", "ingest", "giveUp", "refuse", "escape"}
       => norm = before \/ again
  /\ pc \in {"append", "notAdded"} => norm = before \/ again \/ IsAttachment(msg)

(* At the gate and in Q&A only attachments take something out of the file.  *)
Kept ==
  msg # None /\ stage \in {"gate", "qa"} /\ ~IsAttachment(msg)
    => Range(before) \subseteq Range(norm)

IInv == TypeOK /\ WhereFits /\ BlockFits /\ Untouched /\ Kept /\ TwiceOnlyReadAnew

-----------------------------------------------------------------------------
(* What a backend makes of links is of the message, and can be unreadable   *)
(* only where the backend takes failures for text: the one for tables.      *)
LEMMA LinkBlock ==
  ASSUME NEW m \in Messages, HasLinks(m), NEW k \in LinkKinds,
         NEW g \in FromLinks(m, k), g.out = "text"
  PROVE  g.block \in Blocks /\ g.block.of = m /\ (g.block.read = {"failed"} => k = "sheet")
<1>1. PICK r \in Readings : g = IF Rejects(k, r) THEN Outcome("rejected") ELSE Took(Block(m, r, k))
  BY DEF FromLinks
<1>2. g.block = [of |-> m, read |-> r, by |-> k] /\ ~Rejects(k, r)
  BY <1>1 DEF Outcome, Took, Block
<1>3. r \subseteq Reading
  BY MaterialAssumption
<1>4. k # "sheet" => "failed" \in SeenAsFailure(k)
  BY DEF SeenAsFailure, LinkKinds
<1> QED
  BY <1>2, <1>3, <1>4 DEF Blocks, Plain, Rejects

(* A text and an attachment are read or refused; neither is unreadable.     *)
LEMMA FileBlock ==
  ASSUME NEW m \in Messages, NEW g, g.out = "text",
         g \in FromText(m) \/ (IsAttachment(m) /\ g \in FromAttachment(m))
  PROVE  g.block \in Blocks /\ g.block.of = m /\ g.block.read # {"failed"}
<1>1. g \in FromText(m) => g.block = [of |-> m, read |-> {"text"}, by |-> "own"]
  BY DEF FromText, Took, Block
<1>2. ASSUME g \in FromAttachment(m)
      PROVE  \E r \in {"text", "blank"} : g.block = [of |-> m, read |-> {r}, by |-> "own"]
  <2>1. g # Outcome("unread")
    BY DEF Outcome
  <2>2. PICK r : g = IF r \in {"text", "blank"} THEN Took(Block(m, {r}, "own")) ELSE Outcome(r)
    BY <1>2, <2>1 DEF FromAttachment
  <2>3. r \in {"text", "blank"}
    BY <2>2 DEF Outcome
  <2> QED
    BY <2>2, <2>3 DEF Took, Block
<1> QED
  BY <1>1, <1>2 DEF Blocks, Plain, Reading

(* What is read of a first message. *)
LEMMA FirstBlock ==
  ASSUME NEW m \in Messages, NEW g \in FirstReadings(m), g.out = "text"
  PROVE  g.block \in Blocks /\ g.block.of = m /\ (g.block.read = {"failed"} => "sheet" \in m)
<1>1. FirstBackend(m) \in LinkKinds /\ (FirstBackend(m) = "sheet" => "sheet" \in m)
  BY DEF FirstBackend, LinkKinds
<1>2. \/ HasLinks(m) /\ g \in FromLinks(m, FirstBackend(m))
      \/ ~HasLinks(m) /\ g \in FromText(m)
      \/ ~HasLinks(m) /\ IsAttachment(m) /\ g \in FromAttachment(m)
  BY DEF FirstReadings, Outcome
<1> QED
  BY <1>1, <1>2, LinkBlock, FileBlock

(* What is read of a later one: tables go to the reader of web pages, which *)
(* refuses what it cannot read.                                             *)
LEMMA LaterBlock ==
  ASSUME NEW m \in Messages, NEW g \in LaterReadings(m), g.out = "text"
  PROVE  g.block \in Blocks /\ g.block.of = m /\ g.block.read # {"failed"}
<1>1. LaterBackend(m) \in LinkKinds /\ LaterBackend(m) # "sheet"
  BY DEF LaterBackend, LinkKinds
<1>2. \/ HasLinks(m) /\ g \in FromLinks(m, LaterBackend(m))
      \/ ~HasLinks(m) /\ g \in FromText(m)
      \/ ~HasLinks(m) /\ IsAttachment(m) /\ g \in FromAttachment(m)
  BY DEF LaterReadings, Outcome
<1> QED
  BY <1>1, <1>2, LinkBlock, FileBlock

(* TwiceOnlyReadAnew, of any file. *)
Parted(s) ==
  \A i \in DOMAIN s : \A j \in 1 .. i - 1 :
    SameSource(s[j], s[i]) =>
      \/ HasLinks(s[i].of) /\ s[j] # s[i]
      \/ s[j].of = {"excerpt"} /\ s[i].of = {"essay"}

(* A file of one block. *)
LEMMA OneBlock ==
  ASSUME NEW b \in Blocks
  PROVE  <<b>> \in Seq(Blocks) /\ Range(<<b>>) = {b} /\ Parted(<<b>>)
BY DEF Range, Parted

(* Two blocks of one source, neither of a link nor of a file: they are      *)
(* alike, or one of them is of the text and the other of a passage.         *)
LEMMA SameTexts ==
  ASSUME NEW a \in Blocks, NEW b \in Blocks, SameSource(a, b), ~HasLinks(b.of),
         ~IsAttachment(b.of)
  PROVE  \/ a = b
         \/ a.of = {"essay"} /\ b.of = {"excerpt"}
         \/ a.of = {"excerpt"} /\ b.of = {"essay"}
<1>1. CASE a.of = b.of
  BY <1>1 DEF Blocks, Plain
<1>2. CASE {a.of, b.of} = {{"essay"}, {"excerpt"}}
  BY <1>2
<1> QED
  BY <1>1, <1>2 DEF SameSource

(* A block that is appended, of no file and of nothing that is there, is    *)
(* of a source that is there in the two named cases only.                   *)
LEMMA MoreBlocks ==
  ASSUME NEW s \in Seq(Blocks), NEW b \in Blocks
  PROVE  /\ Append(s, b) \in Seq(Blocks) /\ Range(Append(s, b)) = Range(s) \cup {b}
         /\ Parted(s) /\ ~IsAttachment(b.of) /\ ~Contained(b, s) => Parted(Append(s, b))
<1> DEFINE r == Append(s, b)
           n == Len(s) + 1
<1>1. /\ r \in Seq(Blocks) /\ DOMAIN r = DOMAIN s \cup {n} /\ r[n] = b
      /\ \A i \in DOMAIN s : r[i] = s[i]
  BY AppendElements
<1>2. n \in Nat /\ DOMAIN s = 1 .. n - 1
  OBVIOUS
<1> HIDE DEF r, n
<1>3. Range(r) = Range(s) \cup {b}
  BY <1>1 DEF Range
<1>4. ASSUME Parted(s), ~IsAttachment(b.of), ~Contained(b, s) PROVE Parted(r)
  <2>1. ASSUME NEW i \in DOMAIN s, NEW j \in 1 .. i - 1, SameSource(r[j], r[i])
        PROVE  \/ HasLinks(r[i].of) /\ r[j] # r[i]
               \/ r[j].of = {"excerpt"} /\ r[i].of = {"essay"}
    <3>1. j \in DOMAIN s
      BY <1>2
    <3> QED
      BY <1>1, <1>4, <2>1, <3>1 DEF Parted
  <2>2. ASSUME NEW j \in 1 .. n - 1, SameSource(r[j], b)
        PROVE  \/ HasLinks(b.of) /\ r[j] # b
               \/ r[j].of = {"excerpt"} /\ b.of = {"essay"}
    <3>1. r[j] = s[j] /\ s[j] \in Blocks /\ s[j] \in Range(s)
      BY <1>1, <1>2 DEF Range
    <3>2. s[j] # b /\ ~(s[j].of = {"essay"} /\ b.of = {"excerpt"})
      BY <1>4, <3>1 DEF Contained
    <3> QED
      BY <1>4, <2>2, <3>1, <3>2, SameTexts
  <2> QED
    BY <1>1, <2>1, <2>2 DEF Parted
<1> QED
  BY <1>1, <1>3, <1>4 DEF r

-----------------------------------------------------------------------------
(* Nothing has been sent. *)
LEMMA InitInv == Init => IInv
<1> SUFFICES ASSUME Init PROVE IInv
  OBVIOUS
<1>1. <<>> \in Seq(Blocks)
  OBVIOUS
<1> QED
  BY <1>1 DEF Init, IInv, TypeOK, WhereFits, BlockFits, Untouched, Kept, TwiceOnlyReadAnew, First,
     Later, AtSubject, HasBlock

(* The answer ends the handling: there is no message then. *)
LEMMA TellInv ==
  ASSUME IInv, NEW what, Tell(what), UNCHANGED norm, stage' # "none" \/ UNCHANGED stage
  PROVE  IInv'
<1>1. <<>> \in Seq(Blocks)
  OBVIOUS
<1> QED
  BY <1>1 DEF IInv, TypeOK, WhereFits, BlockFits, Untouched, Kept, TwiceOnlyReadAnew, First,
     Later, AtSubject, HasBlock, Tell

(* A step of a handler that is not its answer. *)
LEMMA HandlerSteps ==
  ASSUME IInv, \/ Open \/ Ingest \/ Store \/ EnterGate \/ ReadSupplement \/ Overwrite
               \/ AppendBlock \/ ReadSubstitute \/ Substitute
  PROVE  IInv'
<1> USE DEF IInv, TypeOK, WhereFits, BlockFits, Fits, Untouched, Kept, TwiceOnlyReadAnew, First, Later,
        AtSubject, HasBlock, Held, At
<1>1. CASE Open
  BY <1>1 DEF Open
<1>2. CASE Ingest
  <2>1. PICK g \in FirstReadings(msg) :
          /\ got' = g
          /\ \/ g.out = "text" /\ pc' = "store"
             \/ g.out # "text" /\ pc' = "giveUp"
    BY <1>2 DEF Ingest
  <2>2. pc' = "store" => Fits(got.block)'
    BY <1>2, <2>1, FirstBlock DEF Ingest
  <2> QED
    BY <1>2, <2>1, <2>2 DEF Ingest
<1>3. CASE Store
  BY <1>3, OneBlock DEF Store, Parted
<1>4. CASE EnterGate
  <2>1. Range(before) = {}
    BY <1>4 DEF EnterGate, Range
  <2> QED
    BY <1>4, <2>1 DEF EnterGate
<1>5. CASE ReadSupplement
  <2>1. PICK g \in LaterReadings(msg) :
          /\ got' = g
          /\ pc' = CASE g.out = "rejected" -> "refuse"
                     [] g.out = "text" -> IF IsAttachment(msg) THEN "overwrite" ELSE "append"
                     [] OTHER -> "notAdded"
    BY <1>5 DEF ReadSupplement
  <2>2. \/ g.out = "text" /\ IsAttachment(msg) /\ pc' = "overwrite"
        \/ g.out = "text" /\ ~IsAttachment(msg) /\ pc' = "append"
        \/ pc' \in {"refuse", "notAdded"}
    BY <2>1
  <2>3. pc' \in {"overwrite", "append"} => Fits(got.block)'
    BY <1>5, <2>1, <2>2, LaterBlock DEF ReadSupplement
  <2>4. UNCHANGED <<norm, stage, msg, before, again>> /\ pc = "idle" /\ msg # None
        /\ stage \in {"gate", "qa"}
    BY <1>5 DEF ReadSupplement
  <2> QED
    BY <2>2, <2>3, <2>4
<1>6. CASE Overwrite
  BY <1>6, OneBlock DEF Overwrite, Parted
<1>7. CASE AppendBlock
  <2>1. CASE Contained(got.block, norm) /\ pc' = "notAdded" /\ UNCHANGED norm
    BY <1>7, <2>1 DEF AppendBlock
  <2>2. CASE ~Contained(got.block, norm) /\ norm' = Append(norm, got.block) /\ pc' = "taken"
    <3>1. got.block \in Blocks /\ got.block.of = msg /\ ~IsAttachment(msg)
      BY <1>7, <2>2 DEF AppendBlock, Contained
    <3>2. Parted(norm)
      BY DEF Parted
    <3>3. Parted(norm')
      BY <2>2, <3>1, <3>2, MoreBlocks
    <3>4. TwiceOnlyReadAnew'
      BY <3>3 DEF Parted
    <3>5. norm' \in Seq(Blocks) /\ Range(norm') = Range(norm) \cup {got.block}
      BY <2>2, <3>1, MoreBlocks
    <3>6. UNCHANGED <<stage, got, answer, told, msg, before, again>> /\ pc = "append"
          /\ pc' = "taken"
      BY <1>7, <2>2 DEF AppendBlock
    <3>7. (TypeOK /\ WhereFits /\ BlockFits /\ Untouched /\ Kept)'
      BY <3>1, <3>5, <3>6
    <3> QED
      BY <3>4, <3>7 DEF IInv
  <2> QED
    BY <1>7, <2>1, <2>2 DEF AppendBlock
<1>8. CASE ReadSubstitute
  <2>1. PICK g \in LaterReadings(msg) :
          got' = g /\ pc' = IF g.out = "text" THEN "substitute" ELSE "escape"
    BY <1>8 DEF ReadSubstitute
  <2>2. pc' = "substitute" => Fits(got.block)'
    BY <1>8, <2>1, LaterBlock DEF ReadSubstitute
  <2> QED
    BY <1>8, <2>1, <2>2 DEF ReadSubstitute
<1>9. CASE Substitute
  BY <1>9, OneBlock DEF Substitute, Parted
<1> QED
  BY <1>1, <1>2, <1>3, <1>4, <1>5, <1>6, <1>7, <1>8, <1>9

(* Every step keeps the invariant. *)
LEMMA NextInv == IInv /\ [Next]_vars => IInv'
<1> SUFFICES ASSUME IInv, [Next]_vars PROVE IInv'
  OBVIOUS
<1>1. ASSUME NEW m \in Messages, Send(m) PROVE IInv'
  BY <1>1 DEF Send, IInv, TypeOK, WhereFits, BlockFits, Fits, Untouched, Kept, TwiceOnlyReadAnew,
     First, Later, AtSubject, HasBlock
<1>2. CASE \/ Open \/ Ingest \/ Store \/ EnterGate \/ ReadSupplement \/ Overwrite
           \/ AppendBlock \/ ReadSubstitute \/ Substitute
  BY <1>2, HandlerSteps
<1>3. CASE GiveUp
  BY <1>3, TellInv DEF GiveUp
<1>4. CASE Unhandled \/ TellNotAdded \/ TellRefused \/ TellTaken \/ TellSubstituted \/ Escape
           \/ SubjectUnclear \/ ReplyToFinding
  BY <1>4, TellInv DEF Unhandled, TellNotAdded, TellRefused, TellTaken, TellSubstituted, Escape,
     SubjectUnclear, ReplyToFinding
<1>5. CASE CloseUnread \/ StartReview \/ ChooseSubject
  BY <1>5, TellInv DEF CloseUnread, StartReview, ChooseSubject
<1>6. CASE Crash
  BY <1>6 DEF Crash, IInv, TypeOK, WhereFits, BlockFits, Fits, Untouched, Kept, TwiceOnlyReadAnew,
     First, Later, AtSubject, HasBlock
<1>7. CASE UNCHANGED vars
  BY <1>7 DEF vars, IInv, TypeOK, WhereFits, BlockFits, Fits, Untouched, Kept, TwiceOnlyReadAnew,
     First, Later, AtSubject, HasBlock
<1> QED
  BY <1>1, <1>2, <1>3, <1>4, <1>5, <1>6, <1>7 DEF Next, Intake, Supplement, Subject

(* The invariant holds in every reachable state. *)
THEOREM Invariance == Spec => []IInv
BY InitInv, NextInv, PTL DEF Spec

(* The variables of a review's material keep their types. *)
THEOREM TypeCorrect == Spec => []TypeOK
<1>1. IInv => TypeOK
  BY DEF IInv
<1> QED
  BY <1>1, Invariance, PTL

(* However often messages are repeated or replayed, a text is in the        *)
(* material twice only as a link that was read otherwise the second time,   *)
(* or as a passage sent before the text it is from.                         *)
THEOREM TwiceSafe == Spec => []TwiceOnlyReadAnew
<1>1. IInv => TwiceOnlyReadAnew
  BY DEF IInv
<1> QED
  BY <1>1, Invariance, PTL

-----------------------------------------------------------------------------
(* A step that answers does so truly. *)
LEMMA StepAnswers == IInv /\ [Next]_vars => AnswerFits \/ UNCHANGED vars
<1> SUFFICES ASSUME IInv, Next PROVE AnswerFits
  OBVIOUS
<1> USE DEF IInv, WhereFits, BlockFits, Untouched, Later, AtSubject, Tell, AnswerFits, Held
<1>1. ASSUME NEW m \in Messages, Send(m) PROVE AnswerFits
  BY <1>1 DEF Send
<1>2. CASE \/ Open \/ Ingest \/ Store \/ EnterGate \/ ReadSupplement \/ Overwrite
           \/ AppendBlock \/ ReadSubstitute \/ Substitute \/ Crash
  BY <1>2 DEF Open, Ingest, Store, EnterGate, ReadSupplement, Overwrite, AppendBlock,
     ReadSubstitute, Substitute, Crash
<1>3. CASE GiveUp \/ TellRefused
  BY <1>3 DEF GiveUp, TellRefused, Refusal
<1>4. CASE Escape
  BY <1>4 DEF Escape
<1>5. CASE TellNotAdded
  BY <1>5 DEF TellNotAdded, NotAdded
<1>6. CASE SubjectUnclear \/ ReplyToFinding
  BY <1>6 DEF SubjectUnclear, ReplyToFinding, At
<1>7. CASE Unhandled \/ CloseUnread \/ StartReview \/ ChooseSubject
  BY <1>7 DEF Unhandled, CloseUnread, StartReview, ChooseSubject
<1>8. CASE TellTaken
  <2>1. Range(<<>>) = {}
    BY DEF Range
  <2> QED
    BY <1>8, <2>1 DEF TellTaken, HasBlock, Fits, Kept
<1>9. CASE TellSubstituted
  BY <1>9 DEF TellSubstituted, HasBlock, Fits
<1> QED
  BY <1>1, <1>2, <1>3, <1>4, <1>5, <1>6, <1>7, <1>8, <1>9 DEF Next, Intake, Supplement, Subject

(* After a refusal the material is what it was, after "I have not           *)
(* understood" too but for attachments, and what is said to be taken is     *)
(* there, with what was there before.                                       *)
THEOREM AnswersSafe == Spec => AnswersFit
<1>1. IInv /\ [Next]_vars => [AnswerFits]_vars
  BY StepAnswers
<1> QED
  BY <1>1, Invariance, PTL DEF Spec, AnswersFit
=============================================================================
