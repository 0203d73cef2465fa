------------------------------ MODULE Delivery ------------------------------
(***************************************************************************)
(* The delivery of the brief of one session: the fan-out of                *)
(* pipeline/deliver.py over its targets, the backends it calls             *)
(* (pipeline/delivery_backends) and the outbound table by which a later    *)
(* run is to tell what has been sent (core/storage.py).                    *)
(*                                                                         *)
(* A run is the end of the close chain (_do_build_and_deliver) or a task    *)
(* build_and_deliver, which the dispatcher accepts for the resubmission     *)
(* that docs/ARCH.md describes: it writes the summary, then goes through    *)
(* the targets.  A run that does not reach all of them leaves the session   *)
(* closing, for another one.                                                *)
(***************************************************************************)
EXTENDS Naturals, Sequences, FiniteSets, Selecting

CONSTANTS
  TargetLists, \* what load_targets may find: delivery_targets.json or the default
  Registries,  \* sets of backends that a configuration may register
  Long,        \* the summaries that fill a Lark message (max_chars)
  MaxTexts,    \* bound: different summaries the LLM writes
  MaxRuns,     \* bound: runs
  MaxFaults,   \* bound: sends that fail
  MaxRefused,  \* bound: different messages that Lark refuses inside a 200
  MaxCrashes   \* bound: times the process stops

Backend == {"lark_doc", "lark_dm", "slack_dm", "local_path"}
Target  == [backend : Backend, to : STRING, payload : SUBSET {"summary", "final"}]

ASSUME DeliveryAssumption ==
  /\ TargetLists \subseteq Seq(Target) /\ TargetLists # {} /\ IsFiniteSet(TargetLists)
  /\ Registries \subseteq SUBSET Backend /\ Registries # {}
  /\ {MaxTexts, MaxRuns, MaxFaults, MaxRefused, MaxCrashes} \subseteq Nat
  /\ Long \subseteq 1..MaxTexts
  /\ MaxTexts > 0

VARIABLES
  closed,    \* status and stage of the session are closed
  outbound,  \* rows of the outbound table
  summary,   \* which text summary.md holds, 0 if there is none
  received,  \* what arrived, in order
  docs,      \* documents created
  refused,   \* messages that Lark refused inside an answer with status 200
  targets,   \* the targets of the run, as listed
  backends,  \* the backends the dispatcher has registered
  pc,        \* what the run does next
  next,      \* the target it is at, in the order of the run
  url,       \* ctx["doc_url"]: the document of this run, 0 if none
  allOk,     \* all(r.ok for r in results) so far
  runs, faults, crashes

disk    == <<closed, outbound, summary>>
outside == <<received, docs, refused>>
run     == <<targets, backends, pc, next, url, allOk>>
bounds  == <<runs, faults, crashes>>
vars    == <<disk, outside, run, bounds>>

IsDoc(t) == t.backend = "lark_doc"

(* Mutant: the targets are served as they are listed. *)
OrderAsListed == targets

(* Documents first, so that messages can carry the link.                    *)
Order ==
  LET documents == {k \in DOMAIN targets : IsDoc(targets[k])}
  IN  Select(targets, documents) \o Select(targets, DOMAIN targets \ documents)

Count == Len(Order)

(* A Lark message is cut at max_chars.  The adapter posts the first 100     *)
(* characters of a Slack message, which a summary fills.  The link comes    *)
(* last: a cut loses it.                                                    *)
Text(t)   == IF "summary" \in t.payload THEN summary ELSE 0
IsDm(t)   == t.backend \in {"lark_dm", "slack_dm"}
Whole(t)  == CASE t.backend = "lark_dm"  -> Text(t) \notin Long
               [] t.backend = "slack_dm" -> Text(t) = 0
               [] OTHER -> TRUE
Sent(t)   == [to |-> t.to, backend |-> t.backend, text |-> Text(t), whole |-> Whole(t),
              url |-> IF IsDm(t) /\ Whole(t) THEN url ELSE 0]

(* The hash of the dedup.  That of a message is of its text before the cut; *)
(* those of a document and an archive are of the payload's names, and an    *)
(* archive has no open_id to look up.  Slack has none and is logged as "-". *)
Deduplicates(t) == t.backend \in {"lark_dm", "lark_doc"}
Hash(t) == CASE t.backend = "lark_dm"  -> <<"lark_dm", Text(t), url>>
             [] t.backend = "slack_dm" -> <<"-">>
             [] OTHER -> <<t.backend, t.payload>>

Row(t, h, ok) == [to |-> t.to, hash |-> h, ok |-> ok]

(* Mutant: the ok column is not looked at. *)
LoggedAtAll(t) == \E ok \in BOOLEAN : Row(t, Hash(t), ok) \in outbound

(* outbound_already_sent *)
AlreadySent(t) == Row(t, Hash(t), TRUE) \in outbound

Message == [to : STRING, backend : Backend, text : 0..MaxTexts, whole : BOOLEAN, url : Nat]

TypeOK ==
  /\ closed \in BOOLEAN
  /\ \A r \in outbound : r.ok \in BOOLEAN
  /\ summary \in 0..MaxTexts
  /\ received \in Seq(Message)
  /\ docs \in Nat
  /\ refused \subseteq {m \in Message : m.backend = "lark_dm"}
  /\ targets \in TargetLists
  /\ backends \in Registries
  /\ pc \in {"idle", "build", "target", "log"}
  /\ next \in 1..(Count + 1)
  /\ url \in 0..docs
  /\ allOk \in BOOLEAN
  /\ runs \in 0..MaxRuns /\ faults \in 0..MaxFaults /\ crashes \in 0..MaxCrashes

-----------------------------------------------------------------------------
Init ==
  /\ closed = FALSE /\ outbound = {} /\ summary = 0
  /\ received = <<>> /\ docs = 0 /\ refused = {}
  /\ targets \in TargetLists
  /\ backends \in Registries
  /\ pc = "idle" /\ next = 1 /\ url = 0 /\ allOk = TRUE
  /\ runs = 0 /\ faults = 0 /\ crashes = 0

(* The task is dispatched: the session is closing. *)
Run ==
  /\ pc = "idle"
  /\ ~closed
  /\ runs < MaxRuns
  /\ runs' = runs + 1
  /\ pc' = "build"
  /\ UNCHANGED <<disk, outside, targets, backends, next, url, allOk, faults, crashes>>

(* build_summary writes summary.md, the same text again or another one;     *)
(* load_targets reads the targets of this run.                              *)
Build ==
  /\ pc = "build"
  /\ summary' \in 1..MaxTexts
  /\ targets' \in TargetLists
  /\ pc' = "target" /\ next' = 1 /\ url' = 0 /\ allOk' = TRUE
  /\ UNCHANGED <<closed, outbound, outside, backends, bounds>>

-----------------------------------------------------------------------------
(* _deliver_one *)

AtTarget == pc = "target" /\ next <= Count
t        == Order[next]

NextTarget == pc' = "target" /\ next' = next + 1 /\ UNCHANGED <<targets, backends>>

(* The result of this target is not ok. *)
Missed(h) ==
  /\ outbound' = outbound \cup {Row(t, h, FALSE)}
  /\ allOk' = FALSE
  /\ NextTarget
  /\ UNCHANGED <<closed, summary, url>>

NoBackend ==
  /\ AtTarget
  /\ t.backend \notin backends
  /\ Missed(<<"-">>)
  /\ UNCHANGED <<outside, bounds>>

DedupHit ==
  /\ AtTarget
  /\ t.backend \in backends
  /\ Deduplicates(t) /\ AlreadySent(t)
  /\ NextTarget
  /\ UNCHANGED <<disk, outside, url, allOk, bounds>>

ToSend ==
  /\ AtTarget
  /\ t.backend \in backends
  /\ ~(Deduplicates(t) /\ AlreadySent(t))

(* SlackDmBackend has nothing to say. *)
EmptySlack == t.backend = "slack_dm" /\ Text(t) = 0 /\ url = 0

SlackRefuses ==
  /\ ToSend
  /\ EmptySlack
  /\ Missed(Hash(t))
  /\ UNCHANGED <<outside, bounds>>

Arrives ==
  /\ received' = Append(received, Sent(t))
  /\ docs' = IF IsDoc(t) THEN docs + 1 ELSE docs
  /\ UNCHANGED refused

(* The backend sends, and returns with ok. *)
Send ==
  /\ ToSend
  /\ ~EmptySlack
  /\ Arrives
  /\ pc' = "log"
  /\ UNCHANGED <<disk, targets, backends, next, url, allOk, bounds>>

(* Lark refuses the message inside an answer with status 200: send_dm_text  *)
(* returns an empty id, and LarkDmBackend says ok as if it had sent.        *)
LarkRefuses ==
  /\ ToSend
  /\ t.backend = "lark_dm"
  /\ refused' = refused \cup {Sent(t)}
  /\ Cardinality(refused') <= MaxRefused
  /\ pc' = "log"
  /\ UNCHANGED <<disk, received, docs, targets, backends, next, url, allOk, bounds>>

(* Mutant: the row is logged without the hash.                              *)
LogUnhashed ==
  /\ pc = "log"
  /\ outbound' = outbound \cup {Row(t, <<"-">>, TRUE)}
  /\ url' = IF IsDoc(t) THEN docs ELSE url
  /\ NextTarget
  /\ UNCHANGED <<closed, summary, outside, allOk, bounds>>

(* The backend has returned with ok. *)
Log ==
  /\ pc = "log"
  /\ outbound' = outbound \cup {Row(t, Hash(t), TRUE)}
  /\ url' = IF IsDoc(t) THEN docs ELSE url
  /\ NextTarget
  /\ UNCHANGED <<closed, summary, outside, allOk, bounds>>

(* Mutant: a failure is logged as sent. *)
FailLoggedAsSent ==
  /\ ToSend
  /\ ~EmptySlack
  /\ faults < MaxFaults
  /\ faults' = faults + 1
  /\ outbound' = outbound \cup {Row(t, Hash(t), TRUE)}
  /\ allOk' = FALSE
  /\ NextTarget
  /\ UNCHANGED <<closed, summary, outside, url, runs, crashes>>

(* The backend raises, or says not ok (a document that Lark refused has no  *)
(* id), or the row cannot be logged: it is logged as a failure, whether the *)
(* message arrived or not.                                                  *)
Fail ==
  /\ ToSend
  /\ ~EmptySlack
  /\ faults < MaxFaults
  /\ faults' = faults + 1
  /\ Arrives \/ UNCHANGED outside
  /\ Missed(Hash(t))
  /\ UNCHANGED <<runs, crashes>>

End ==
  /\ pc = "target"
  /\ next > Count
  /\ closed' = allOk
  /\ pc' = "idle"
  /\ UNCHANGED <<outbound, summary, outside, targets, backends, next, url, allOk, bounds>>

(* The run ends early: the process stops, and starts with the same          *)
(* configuration or another, or the handler raises.                         *)
Crash ==
  /\ pc # "idle"
  /\ crashes < MaxCrashes
  /\ crashes' = crashes + 1
  /\ pc' = "idle"
  /\ backends' \in Registries
  /\ UNCHANGED <<disk, outside, targets, next, url, allOk, runs, faults>>

-----------------------------------------------------------------------------
Next == Run \/ Build \/ NoBackend \/ DedupHit \/ SlackRefuses \/ Send \/ LarkRefuses
          \/ Log \/ Fail \/ End \/ Crash

Spec == Init /\ [][Next]_vars

-----------------------------------------------------------------------------
(* Properties *)

Arrived == {received[k] : k \in DOMAIN received}

(* What a target must have got: a message or an archive with the text of    *)
(* summary.md (or its beginning), or a document.                            *)
For(m, x) == /\ m.to = x.to
             /\ m.backend = x.backend
             /\ IsDoc(x) \/ m.text = Text(x)

Reached(x) == \E m \in Arrived : For(m, x)

(* What the backend has taken for sent when Lark would not have it. *)
Refused(x) == \E m \in refused : For(m, x)

Served(x) == Reached(x) \/ Refused(x)

(* A closed session has reached every target of its last run with the       *)
(* summary it keeps, in however many runs, and whatever was deduplicated    *)
(* (the verdict of pipeline/deliver.py:84 on results that may be dedup      *)
(* hits), but for those whose message Lark refused inside a 200.            *)
ClosedMeansReached ==
  closed => \A k \in DOMAIN targets : Reached(targets[k]) \/ Refused(targets[k])

(* The row has a message behind it. *)
Covers(m, r) == /\ m.to = r.to
                /\ m.backend = r.hash[1]
                /\ m.backend = "lark_dm" => m.text = r.hash[2]

Covered(r) == \E m \in Arrived \cup refused : Covers(m, r)

(* What the outbound table says was sent did arrive, or was refused inside  *)
(* a 200: the dedup of a later run relies on it, and sends neither again.   *)
LoggedMeansArrived == \A r \in outbound : (r.ok /\ r.hash # <<"-">>) => Covered(r)

Copies(m) == Cardinality({k \in DOMAIN received : received[k] = m})

AllTargets == UNION {{list[k] : k \in DOMAIN list} : list \in TargetLists}

(* In however many runs, the same uncut message reaches the same person     *)
(* through Lark once, and a document is created once for each of its        *)
(* targets, but for the sends that were cut off or wrongly taken for        *)
(* failures.                                                                *)
SameMessageOnce ==
  /\ \A m \in Arrived : (m.backend = "lark_dm" /\ m.whole) => Copies(m) <= 1 + faults + crashes
  /\ docs <= Cardinality({x \in AllTargets : IsDoc(x)}) + faults + crashes

(* A first run that closes has given the link of the document to everyone   *)
(* whose message was not cut.                                               *)
LinkGiven ==
  (closed /\ runs = 1 /\ docs > 0) =>
    \A m \in Arrived : (IsDm(m) /\ m.whole) => m.url > 0

(* The invariant of the proofs.  A target that a run has passed with all    *)
(* results ok has been reached or refused inside a 200, in this run or, if  *)
(* it was deduplicated, in the one that logged the row; a run changes       *)
(* summary.md only before it passes any.                                    *)
PassedIsReached ==
  (pc \in {"target", "log"} /\ allOk) => \A k \in 1..(next - 1) : Served(Order[k])

IInv ==
  /\ targets \in TargetLists
  /\ pc \in {"idle", "build", "target", "log"}
  /\ next \in 1..(Count + 1)
  /\ received \in Seq(Arrived)
  /\ LoggedMeansArrived
  /\ ClosedMeansReached
  /\ PassedIsReached
  /\ pc # "idle" => ~closed
  /\ pc = "log" => next <= Count /\ Served(t)

=============================================================================
