---------------------------- MODULE ReviewProofs ----------------------------
(***************************************************************************)
(* Proofs about the review session.  With any failures and stops of the    *)
(* process: types, where the session is when the handler is at each of its *)
(* steps, the files it reads and the verdict it closes under; that no      *)
(* handler turns back, and that messages are taken as from an Inbox.  With *)
(* fewer of them, each named: what is left behind, what was asked last (be  *)
(* it heard or not) and what the next reply is taken for, and that every    *)
(* step is one of ReviewLifecycle.                                         *)
(***************************************************************************)
EXTENDS ReviewSession, Basics, SequenceTheorems

(* The handler works on the head of the inbox. *)
HeadStays == pc # "idle" => inbox # <<>>

(* The ids that have a row: no finding is current, pending or deferred that *)
(* has none.                                                                *)
Ids         == {rows[i].id : i \in DOMAIN rows}
CursorKnown == cursor \in CursorOf(Ids)

(* Steps of the handler that lead on to others; those of the close chain    *)
(* among them.                                                              *)
AtWork  == pc \notin {"idle", "tell", "done"}
Closes  == pc \in {"merge", "merged", "gate", "judge", "settle", "reopen", "closing", "summary",
                   "deliver", "delivered"}

(* The stage of a live session at each of these steps. *)
StageAtStep ==
  /\ pc \in {"ingest", "ingested"} => sess.stage = "intake"
  /\ pc = "propose" => sess.stage = "subject_confirmation"
  /\ pc \in {"qa", "reset", "rescan", "moreAdvance", "advance", "proposeClose"} =>
       sess.stage = "qa_active"
  /\ pc = "backToQa" => sess.stage = "awaiting_close_confirmation"
  /\ pc = "emit" => sess.stage \in {"qa_active", "qa_active_reopened"}
  /\ pc \in {"scan", "scanB", "scanned"} => sess.stage = "scanning"
  /\ pc \in {"merge", "merged"} =>
       sess.stage \in {"intake", "qa_active", "awaiting_close_confirmation", "merging"}
  /\ pc \in {"gate", "judge", "reopen"} => sess.stage = "final_gating"
  /\ pc \in {"settle", "closing"} => sess.stage \in {"final_gating", "closing"}
  /\ pc \in {"summary", "deliver", "delivered"} => sess.stage = "closing"

(* A session that has failed is worked on in the close chain only, one that *)
(* has ended otherwise not at all.                                          *)
StageFits ==
  /\ Active => StageAtStep /\ sess.stage \notin {"closed", "ingest_failed", "cancelled"}
  /\ AtWork /\ ~Active => sess.status = "failed" /\ (Closes \/ pc = "emit")
  /\ sess.stage = "qa_active_reopened" => pc \in {"idle", "emit", "tell", "done"}

(* The material is read where it exists: everywhere but at intake. *)
MaterialFits ==
  /\ Active => material \/ sess.stage = "intake"
  /\ AtWork /\ pc \notin {"ingest", "merge"} => material
  /\ pc = "merge" => material \/ (Active /\ sess.stage = "intake")

Accepted == sess.verdict \in {"READY", "FORCED_PARTIAL"}

(* A live session is delivered under a verdict that accepts.  One that has  *)
(* failed may be delivered before any gate has judged it, and by force      *)
(* after one has refused it.                                                *)
VerdictFits ==
  /\ pc \in {"closing", "summary", "deliver", "delivered"} =>
       \/ Accepted
       \/ ~Active /\ sess.verdict = "none"
       \/ ~Active /\ sess.verdict = "FAIL" /\ chain = "forced"
  /\ Active =>
       /\ sess.stage = "closing" => Accepted
       /\ pc = "settle" => Accepted \/ GateFailed
       /\ pc = "reopen" => sess.verdict = "FAIL" /\ cursor.current # None
       /\ sess.stage = "qa_active_reopened" => cursor.current # None

(* The gate may fail once more. *)
MayFail == sess.fails < MaxFailCount \/ sess.fails = 0

(* Wherever the gate lies ahead it may fail once more.  When it has failed  *)
(* for the last time its call is on record, and a session left at the gate  *)
(* is not gated again.                                                      *)
FailsFit ==
  /\ sess.fails <= MaxFailCount \/ sess.fails = 1
  /\ pc \in {"merge", "merged", "gate", "judge"} => MayFail
  /\ pc = "reopen" \/ sess.stage = "qa_active_reopened" => sess.fails < MaxFailCount
  /\ Active /\ sess.stage \notin {"final_gating", "closing"} => MayFail
  /\ Active /\ sess.stage = "final_gating" /\ "final_gating" \notin logged => MayFail
  /\ Active /\ pc \in {"judge", "settle"} => "final_gating" \in logged

Data    == TypeOK /\ HeadStays /\ CursorKnown
Control == StageFits /\ MaterialFits /\ VerdictFits /\ FailsFit

IInv == Data /\ Control

-----------------------------------------------------------------------------
(* Hypotheses about what goes wrong: the process does not stop, or stops    *)
(* once; no handler is cut off, by a stop or by an exception that leaves    *)
(* it, though the LLM may fail and a delivery reach only some of its        *)
(* targets; those are all reached; or no session fails, whatever exceptions *)
(* there are.                                                               *)
NeverStops  == MaxCrashes = 0
StopsOnce   == MaxCrashes <= 1
HandlersEnd == NeverStops /\ "raise" \notin Trouble
AllReached  == HandlersEnd /\ "partial" \notin Trouble
NeverFails  == NeverStops /\ "terminal" \notin Trouble

(* Only `more' leaves findings behind an empty place, until its next step.  *)
InPlace == pc # "moreAdvance" /\ cursor.current = None => cursor.pending = <<>>

InQa == Active /\ sess.stage \in {"qa_active", "qa_active_reopened"} /\ pc # "proposeClose"

(* Before the first stop a Q&A has nothing deferred behind an empty place,  *)
(* and so `more' needs no second step.                                      *)
Spent ==
  crashes = 0 =>
    /\ pc # "moreAdvance"
    /\ pc = "backToQa" => cursor.current # None
    /\ InQa \/ pc = "scanned" => (cursor.current = None => cursor.deferred = <<>>)

PlaceInv == IInv /\ InPlace /\ Spent

AtRest == pc \in {"idle", "tell", "done"}

(* Handlers end with a session that waits for the requester, but for one    *)
(* whose delivery was partial; its summary is on record.                    *)
Rests ==
  Active /\ AtRest =>
    \/ sess.stage \notin Busy \cup {"intake"}
    \/ sess.stage = "closing" /\ "partial" \in Trouble /\ "closing" \in logged

(* The close chain runs as a whole, and begins with a message.              *)
ChainWhole ==
  /\ Closes => chain # "no" /\ told /\ material
  /\ AtWork /\ ~Active => told
  /\ pc = "deliver" => "closing" \in logged
  /\ pc = "idle" => ~told

(* The prompt p is what the stage makes of the next reply. *)
Fits(p) ==
  /\ sess.stage = "awaiting_material_confirm"   => p = Ask("preview")
  /\ sess.stage = "subject_confirmation"        => p = Ask("topics")
  /\ sess.stage = "awaiting_close_confirmation" => p = Ask("close")
  /\ sess.stage \in {"qa_active", "qa_active_reopened"} /\ cursor.current # None =>
       p = AskFor(cursor.current)

PromptFits ==
  Active =>
    /\ pc \in {"idle", "done", "qa"} => Fits(prompt)
    /\ pc = "tell" => Fits(IF say = Same THEN prompt ELSE say)

Silent ==
  pc = "done" /\ ~told =>
    \/ Msg = "question"
    \/ sess.stage = "qa_active" /\ cursor.current = None
    \/ ~heard /\ prompt = AskFor(cursor.current)

Calm == Rests /\ ChainWhole /\ PromptFits /\ Silent

QInv == IInv /\ Calm

(* Handlers work on live sessions, and none is left at intake.              *)
Lives ==
  /\ sess.status # "failed" \/ sess.stage = "ingest_failed"
  /\ AtWork => Active
  /\ (Active /\ AtRest) \/ Closes => sess.stage # "intake"

LInv == IInv /\ Lives

-----------------------------------------------------------------------------
(* What the operators on sequences compute *)

(* The findings of a scan are told apart by their names. *)
IsScan(f) ==
  f \in Seq(Finding) /\ \A i, j \in DOMAIN f : f[i].name = f[j].name => i = j

LEMMA ScansAre == \A f \in Scans : IsScan(f)
BY ReviewAssumption DEF IsScan

(* Finding x is shown before finding y: the worse before the less bad,      *)
(* under the same severity those of the pillar Intent first, then the lower *)
(* priority first, none being the last of all, and at last the lower id.    *)
Given(x) == IF x.priority = 0 THEN 99 ELSE x.priority

Precedes(x, y) ==
  \/ x.sev = "BLOCKER" /\ y.sev # "BLOCKER"
  \/ x.sev = "IMPROVEMENT" /\ y.sev = "NICE_TO_HAVE"
  \/ /\ x.sev = y.sev
     /\ \/ x.pillar = "Intent" /\ y.pillar # "Intent"
        \/ /\ x.pillar = y.pillar
           /\ \/ Given(x) < Given(y)
              \/ Given(x) = Given(y) /\ x.name < y.name

(* The order of the sort keys is that order. *)
LEMMA BeforePrecedes ==
  ASSUME NEW x \in Finding, NEW y \in Finding
  PROVE  Before(x, y) <=> Precedes(x, y)
<1> DEFINE S(z) == SevOrder[z.sev]
           I(z) == IF z.pillar = "Intent" THEN 0 ELSE 1
<1>1. ASSUME NEW z \in Finding
      PROVE  Key(z) = <<S(z), I(z), Given(z), z.name>>
  BY DEF Key, Given
<1>2. /\ Key(x)[1] = S(x) /\ Key(x)[2] = I(x) /\ Key(x)[3] = Given(x) /\ Key(x)[4] = x.name
      /\ Key(y)[1] = S(y) /\ Key(y)[2] = I(y) /\ Key(y)[3] = Given(y) /\ Key(y)[4] = y.name
  BY <1>1
<1>3. Before(x, y) <=>
        \/ S(x) < S(y)
        \/ S(x) = S(y) /\ I(x) < I(y)
        \/ S(x) = S(y) /\ I(x) = I(y) /\ Given(x) < Given(y)
        \/ S(x) = S(y) /\ I(x) = I(y) /\ Given(x) = Given(y) /\ x.name < y.name
  <2> DEFINE C(k) == Key(x)[k] < Key(y)[k] /\ \A l \in 1 .. k - 1 : Key(x)[l] = Key(y)[l]
  <2>1. /\ 1 .. 1 - 1 = {} /\ 1 .. 2 - 1 = {1} /\ 1 .. 3 - 1 = {1, 2} /\ 1 .. 4 - 1 = {1, 2, 3}
        /\ 1..4 = {1, 2, 3, 4}
    OBVIOUS
  <2>2. Before(x, y) <=> C(1) \/ C(2) \/ C(3) \/ C(4)
    BY <2>1 DEF Before
  <2>3. /\ C(1) <=> Key(x)[1] < Key(y)[1]
        /\ C(2) <=> Key(x)[1] = Key(y)[1] /\ Key(x)[2] < Key(y)[2]
        /\ C(3) <=> Key(x)[1] = Key(y)[1] /\ Key(x)[2] = Key(y)[2] /\ Key(x)[3] < Key(y)[3]
        /\ C(4) <=> /\ Key(x)[1] = Key(y)[1] /\ Key(x)[2] = Key(y)[2]
                    /\ Key(x)[3] = Key(y)[3] /\ Key(x)[4] < Key(y)[4]
    BY <2>1
  <2> HIDE DEF C
  <2> QED
    BY <1>2, <2>2, <2>3
<1>4. /\ x.sev \in Severity /\ y.sev \in Severity
      /\ x.pillar \in {"Intent", "other"} /\ y.pillar \in {"Intent", "other"}
  BY DEF Finding
<1>5. /\ S(x) < S(y) <=> \/ x.sev = "BLOCKER" /\ y.sev # "BLOCKER"
                         \/ x.sev = "IMPROVEMENT" /\ y.sev = "NICE_TO_HAVE"
      /\ S(x) = S(y) <=> x.sev = y.sev
  BY <1>4 DEF SevOrder, Severity
<1>6. /\ I(x) < I(y) <=> x.pillar = "Intent" /\ y.pillar # "Intent"
      /\ I(x) = I(y) <=> x.pillar = y.pillar
  BY <1>4
<1> HIDE DEF S, I
<1> QED
  BY <1>3, <1>5, <1>6 DEF Precedes

(* It is a strict order, total on findings with different names. *)
LEMMA PrecedesOrder ==
  ASSUME NEW x \in Finding, NEW y \in Finding, NEW z \in Finding
  PROVE  /\ ~(Precedes(x, y) /\ Precedes(y, x))
         /\ Precedes(x, y) /\ Precedes(y, z) => Precedes(x, z)
         /\ x.name # y.name => Precedes(x, y) \/ Precedes(y, x)
<1>1. /\ {x.sev, y.sev, z.sev} \subseteq Severity
      /\ {x.pillar, y.pillar, z.pillar} \subseteq {"Intent", "other"}
      /\ {Given(x), Given(y), Given(z), x.name, y.name, z.name} \subseteq Int
  BY DEF Finding, Given
<1> QED
  BY <1>1 DEF Precedes, Severity

(* scan._prioritize lists every finding once, in that order. *)
THEOREM PrioritizeOrders ==
  ASSUME NEW f, IsScan(f)
  PROVE  LET p == Prioritize(f)
         IN  /\ p \in Seq(DOMAIN f) /\ Len(p) = Len(f)
             /\ {p[k] : k \in DOMAIN p} = DOMAIN f
             /\ \A j, k \in DOMAIN p : j < k => Precedes(f[p[j]], f[p[k]])
<1> DEFINE n == Len(f)
           D == 1..n
           Below(i) == {j \in D : Before(f[j], f[i])}
           rank == [i \in D |-> Cardinality(Below(i))]
           p == Prioritize(f)
<1>1. /\ n \in Nat /\ DOMAIN f = D
      /\ \A i \in D : f[i] \in Finding
      /\ \A i, j \in D : i # j => f[i].name # f[j].name
  BY DEF IsScan
<1> HIDE DEF n
<1>2. IsFiniteSet(D) /\ Cardinality(D) = n
  BY <1>1, FS_Interval
<1>3. ASSUME NEW i \in D
      PROVE  /\ i \notin Below(i) /\ IsFiniteSet(Below(i)) /\ Cardinality(Below(i)) \in Nat
             /\ Cardinality(Below(i)) < n
  <2>1. i \notin Below(i)
    BY <1>1, BeforePrecedes, PrecedesOrder
  <2>2. Below(i) \in SUBSET D /\ Below(i) # D
    BY <2>1
  <2> HIDE DEF Below
  <2>3. /\ IsFiniteSet(Below(i)) /\ Cardinality(Below(i)) <= Cardinality(D)
        /\ Cardinality(D) = Cardinality(Below(i)) => D = Below(i)
    BY <1>2, <2>2, FS_Subset
  <2>4. Cardinality(Below(i)) \in Nat
    BY <2>3, FS_CardinalityType
  <2> QED
    BY <1>1, <1>2, <2>1, <2>2, <2>3, <2>4
<1>4. ASSUME NEW i \in D, NEW j \in D, Before(f[i], f[j])
      PROVE  rank[i] < rank[j]
  <2>1. Below(i) \in SUBSET Below(j) /\ i \in Below(j)
    BY <1>1, <1>4, BeforePrecedes, PrecedesOrder
  <2>2. Below(i) # Below(j)
    BY <1>3, <2>1
  <2>3. /\ IsFiniteSet(Below(j)) /\ Cardinality(Below(j)) \in Nat /\ Cardinality(Below(i)) \in Nat
        /\ rank[i] = Cardinality(Below(i)) /\ rank[j] = Cardinality(Below(j))
    BY <1>3
  <2> HIDE DEF Below, rank
  <2>4. /\ Cardinality(Below(i)) <= Cardinality(Below(j))
        /\ Cardinality(Below(j)) = Cardinality(Below(i)) => Below(j) = Below(i)
    BY <2>1, <2>3, FS_Subset
  <2> QED
    BY <2>2, <2>3, <2>4
<1>5. ASSUME NEW i \in D, NEW j \in D, i # j
      PROVE  Before(f[i], f[j]) \/ Before(f[j], f[i])
  BY <1>1, <1>5, BeforePrecedes, PrecedesOrder
<1>6. rank \in [D -> 0 .. n - 1]
  <2> HIDE DEF Below
  <2>1. \A i \in D : Cardinality(Below(i)) \in 0 .. n - 1
    BY <1>1, <1>3
  <2> QED
    BY <2>1
<1>10. p = [k \in D |-> CHOOSE i \in D : rank[i] = k - 1]
  <2>1. \A i \in D : rank[i] = Cardinality({j \in DOMAIN f : Before(f[j], f[i])})
    BY <1>1
  <2> HIDE DEF rank
  <2> QED
    BY <1>1, <2>1 DEF Prioritize
<1> HIDE DEF rank, p
<1>7. ASSUME NEW i \in D, NEW j \in D, rank[i] = rank[j]
      PROVE  i = j
  <2>1. rank[i] \in Nat /\ rank[j] \in Nat
    BY <1>1, <1>6
  <2> QED
    BY <1>4, <1>5, <1>7, <2>1
<1>8. ASSUME NEW k \in D PROVE \E i \in D : rank[i] = k - 1
  <2>1. rank \in Injection(D, 0 .. n - 1)
    BY <1>6, <1>7 DEF Injection, IsInjective
  <2>2. IsFiniteSet(0 .. n - 1) /\ Cardinality(0 .. n - 1) = n
    BY <1>1, FS_Interval
  <2>3. rank \in Surjection(D, 0 .. n - 1)
    BY <1>2, <2>1, <2>2, FS_Injection
  <2>4. k - 1 \in 0 .. n - 1
    BY <1>1
  <2> QED
    BY <2>3, <2>4 DEF Surjection
<1>9. ASSUME NEW k \in D PROVE p[k] \in D /\ rank[p[k]] = k - 1
  BY <1>8, <1>10
<1>11. p \in Seq(D) /\ Len(p) = n /\ DOMAIN p = D
  BY <1>1, <1>9, <1>10
<1>12. {p[k] : k \in DOMAIN p} = D
  <2>1. ASSUME NEW i \in D PROVE \E k \in D : p[k] = i
    <3>1. rank[i] + 1 \in D /\ rank[i] \in Nat /\ (rank[i] + 1) - 1 = rank[i]
      BY <1>1, <1>6
    <3>2. p[rank[i] + 1] \in D /\ rank[p[rank[i] + 1]] = rank[i]
      BY <1>9, <3>1
    <3> QED
      BY <1>7, <3>1, <3>2
  <2>2. \A k \in D : p[k] \in D
    BY <1>9
  <2> HIDE DEF D
  <2> QED
    BY <1>11, <2>1, <2>2
<1>13. ASSUME NEW j \in D, NEW k \in D, j < k PROVE Precedes(f[p[j]], f[p[k]])
  <2>1. /\ p[j] \in D /\ p[k] \in D /\ rank[p[j]] = j - 1 /\ rank[p[k]] = k - 1
        /\ ~(k - 1 < j - 1) /\ k - 1 # j - 1
    BY <1>9, <1>13
  <2>2. Before(f[p[j]], f[p[k]])
    BY <1>4, <1>5, <2>1
  <2> QED
    BY <1>1, <2>1, <2>2, BeforePrecedes
<1> QED
  BY <1>1, <1>11, <1>12, <1>13 DEF p, n

(* A sequence is over any set that holds its members, and so is a function  *)
(* on its places.                                                           *)
LEMMA SeqOver ==
  ASSUME NEW S, NEW T, NEW q \in Seq(S), \A i \in DOMAIN q : q[i] \in T
  PROVE  q \in Seq(T)
OBVIOUS

(* A function on the places of a sequence is a sequence. *)
LEMMA SeqOnPlaces ==
  ASSUME NEW S, NEW T, NEW q \in Seq(S), NEW f, f = [i \in DOMAIN q |-> f[i]],
         \A i \in DOMAIN q : f[i] \in T
  PROVE  f \in Seq(T)
OBVIOUS

(* A cursor over some ids is one over more ids. *)
LEMMA CursorOfLarger ==
  ASSUME NEW S, NEW T, S \subseteq T
  PROVE  CursorOf(S) \subseteq CursorOf(T)
<1>1. \A q \in Seq(S) : \A i \in DOMAIN q : q[i] \in T
  OBVIOUS
<1>2. \A q \in Seq(S) : q \in Seq(T)
  BY <1>1, SeqOver
<1> QED
  BY <1>2 DEF CursorOf

(* Rows have ids, and a cursor over the ids is a cursor. *)
LEMMA IdsType ==
  ASSUME rows \in Seq(Row)
  PROVE  Ids \subseteq Nat \ {0} /\ CursorOf(Ids) \subseteq CursorOf(Nat \ {0})
<1>1. \A r \in Row : r.id \in Nat \ {0}
  BY DEF Row
<1>2. \A i \in DOMAIN rows : rows[i] \in Row
  OBVIOUS
<1>3. Ids \subseteq Nat \ {0}
  BY <1>1, <1>2 DEF Ids
<1> QED
  BY <1>3, CursorOfLarger

(* A session that is changed as the steps do is a session. *)
LEMMA SessionType ==
  ASSUME NEW s \in Session
  PROVE  /\ \A g \in Stage : [s EXCEPT !.stage = g] \in Session
         /\ \A v \in {"active", "closed", "failed", "cancelled"} :
              \A g \in Stage : [s EXCEPT !.stage = g, !.status = v] \in Session
         /\ \A v \in {"READY", "FORCED_PARTIAL"} :
              /\ [s EXCEPT !.verdict = v] \in Session
              /\ \A g \in Stage : [s EXCEPT !.verdict = v, !.stage = g] \in Session
         /\ [s EXCEPT !.verdict = "FAIL", !.fails = @ + 1] \in Session
         /\ \A g \in Stage : [s EXCEPT !.stage = g, !.round = @ + 1] \in Session
         /\ [no |-> s.no + 1, stage |-> "intake", status |-> "active",
             verdict |-> "none", fails |-> 0, round |-> 1] \in Session
<1> USE DEF Session
<1>1. \A g \in Stage : [s EXCEPT !.stage = g] \in Session
  OBVIOUS
<1>2. \A v \in {"active", "closed", "failed", "cancelled"} :
        \A g \in Stage : [s EXCEPT !.stage = g, !.status = v] \in Session
  OBVIOUS
<1>3. \A v \in {"READY", "FORCED_PARTIAL"} :
        /\ [s EXCEPT !.verdict = v] \in Session
        /\ \A g \in Stage : [s EXCEPT !.verdict = v, !.stage = g] \in Session
  OBVIOUS
<1>0. /\ s.no + 1 \in Nat /\ s.fails + 1 \in Nat /\ s.round + 1 \in Nat
      /\ "intake" \in Stage
  BY DEF Stage
<1>4. \A n \in Nat : [s EXCEPT !.verdict = "FAIL", !.fails = n] \in Session
  OBVIOUS
<1>5. \A g \in Stage, n \in Nat : [s EXCEPT !.stage = g, !.round = n] \in Session
  OBVIOUS
<1> HIDE DEF Session
<1>6. [no |-> s.no + 1, stage |-> "intake", status |-> "active",
       verdict |-> "none", fails |-> 0, round |-> 1] \in Session
  BY <1>0 DEF Session
<1> QED
  BY <1>0, <1>1, <1>2, <1>3, <1>4, <1>5, <1>6

(* The stages by name. *)
LEMMA StageType ==
  Busy \cup {"intake", "awaiting_material_confirm", "subject_confirmation", "qa_active",
    "qa_active_reopened", "awaiting_close_confirmation", "closed", "ingest_failed", "cancelled",
    "scanning", "merging", "final_gating", "closing"} \subseteq Stage
BY DEF Stage, Busy

(* The open blockers are rows of the file. *)
LEMMA OpenBlockersType ==
  ASSUME rows \in Seq(Row)
  PROVE  OpenBlockers \in Seq(Ids)
<1> DEFINE ids == [i \in DOMAIN rows |-> rows[i].id]
<1>1. ids \in Seq(Ids)
  BY DEF Ids
<1> HIDE DEF ids
<1>2. \A I : Select(ids, I) \in Seq(Ids)
  BY <1>1, SelectType
<1> QED
  BY <1>2 DEF OpenBlockers, ids

(* The first members of a sequence and the others. *)
LEMMA PartsType ==
  ASSUME NEW S, NEW s \in Seq(S), NEW n \in Nat
  PROVE  /\ First(s, n) \in Seq(S) /\ Rest(s, n) \in Seq(S)
         /\ First(s, n) = <<>> => n = 0 \/ s = <<>>
         /\ s = <<>> => First(s, n) = <<>> /\ Rest(s, n) = <<>>
<1> DEFINE m == IF n < Len(s) THEN n ELSE Len(s)
<1>1. /\ Len(s) \in Nat /\ m \in Nat /\ m \in Int /\ n + 1 \in Int /\ 1 \in Int /\ Len(s) \in Int
      /\ \A i \in 1..m : s[i] \in S
      /\ \A i \in (n + 1)..Len(s) : s[i] \in S
      /\ s = <<>> => m = 0 /\ Len(s) < n + 1
      /\ s # <<>> /\ n # 0 => m # 0
  BY EmptySeq
<1> HIDE DEF m
<1>2. /\ First(s, n) = SubSeq(s, 1, m)
      /\ SubSeq(s, 1, m) \in Seq(S)
      /\ Len(SubSeq(s, 1, m)) = IF 1 <= m THEN m - 1 + 1 ELSE 0
  BY <1>1, SubSeqProperties DEF First, m
<1>3. /\ Rest(s, n) = SubSeq(s, n + 1, Len(s))
      /\ SubSeq(s, n + 1, Len(s)) \in Seq(S)
  BY <1>1, SubSeqProperties DEF Rest
<1>4. s = <<>> => SubSeq(s, 1, m) = <<>> /\ SubSeq(s, n + 1, Len(s)) = <<>>
  BY <1>1, SubSeqEmpty
<1>5. First(s, n) = <<>> => n = 0 \/ s = <<>>
  <2> SUFFICES ASSUME First(s, n) = <<>>, n # 0, s # <<>> PROVE FALSE
    OBVIOUS
  <2>1. Len(SubSeq(s, 1, m)) = 0
    BY <1>2, EmptySeq
  <2> QED
    BY <1>1, <1>2, <2>1
<1> QED
  BY <1>2, <1>3, <1>4, <1>5

(* The operations on cursors keep to the ids they are given; the current    *)
(* place is empty after an advance only when nothing was pending.           *)
LEMMA AdvanceType ==
  ASSUME NEW S, S \subseteq Nat \ {0}, NEW c \in CursorOf(S)
  PROVE  /\ Advance(c) \in CursorOf(S)
         /\ Advance(c).current = None => c.pending = <<>> /\ Advance(c).pending = <<>>
<1>1. /\ c.current \in S \cup {None} /\ c.pending \in Seq(S) /\ c.deferred \in Seq(S)
      /\ c.done \in SUBSET (Nat \ {0}) /\ c.rescan \in BOOLEAN
  BY DEF CursorOf
<1>2. Rest(c.pending, 1) \in Seq(S) /\ (c.pending = <<>> => Rest(c.pending, 1) = <<>>)
  <2> DEFINE p == c.pending
  <2>1. p \in Seq(S) /\ 1 \in Nat
    BY <1>1
  <2> HIDE DEF p
  <2>2. Rest(p, 1) \in Seq(S) /\ (p = <<>> => Rest(p, 1) = <<>>)
    BY <2>1, PartsType, Zenon
  <2> QED
    BY <2>2 DEF p
<1>3. c.pending # <<>> => Head(c.pending) \in S /\ Head(c.pending) # None
  BY <1>1 DEF None
<1>4. (c.done \cup {c.current}) \in SUBSET (Nat \ {0}) \/ c.current = None
  BY <1>1 DEF None
<1> QED
  BY <1>1, <1>2, <1>3, <1>4 DEF Advance, CursorOf

(* Pulling the deferred findings keeps a cursor one over the same ids,      *)
(* leaves the current finding, and leaves something pending if anything was *)
(* deferred.                                                                *)
LEMMA PullDeferredType ==
  ASSUME NEW S, NEW c \in CursorOf(S)
  PROVE  /\ PullDeferred(c) \in CursorOf(S)
         /\ PullDeferred(c).current = c.current
         /\ c.deferred = <<>> => PullDeferred(c).pending = c.pending
         /\ c.deferred # <<>> => PullDeferred(c).pending # <<>>
<1>1. /\ c.pending \in Seq(S) /\ c.deferred \in Seq(S)
  BY DEF CursorOf
<1>2. /\ First(c.deferred, TopN) \in Seq(S) /\ Rest(c.deferred, TopN) \in Seq(S)
      /\ First(c.deferred, TopN) = <<>> => c.deferred = <<>>
  BY <1>1, PartsType, ReviewAssumption
<1>3. c.deferred = <<>> => First(c.deferred, TopN) = <<>>
  BY <1>1, PartsType, ReviewAssumption
<1>4. ASSUME NEW a \in Seq(S), NEW b \in Seq(S)
      PROVE  a \o b \in Seq(S) /\ (b = <<>> => a \o b = a) /\ (b # <<>> => a \o b # <<>>)
  BY ConcatProperties, ConcatEqualIffEmpty
<1> QED
  BY <1>1, <1>2, <1>3, <1>4 DEF PullDeferred, CursorOf

(* The cursor of a scan is over the rows of its findings. *)
LEMMA ScanCursorType ==
  ASSUME NEW f, IsScan(f)
  PROVE  /\ ScanCursor(f) \in CursorOf(DOMAIN f)
         /\ ScanCursor(f).current = None =>
              ScanCursor(f).pending = <<>> /\ ScanCursor(f).deferred = <<>>
<1> DEFINE ids == Prioritize(f)
           now == First(ids, TopN)
<1>1. ids \in Seq(DOMAIN f)
  BY PrioritizeOrders
<1> HIDE DEF ids
<1>2. /\ now \in Seq(DOMAIN f) /\ Rest(ids, TopN) \in Seq(DOMAIN f)
      /\ now = <<>> => Rest(ids, TopN) = <<>>
  <2>1. TopN \in Nat /\ TopN # 0
    BY ReviewAssumption
  <2> QED
    BY <1>1, <2>1, PartsType
<1> HIDE DEF now
<1>3. Rest(now, 1) \in Seq(DOMAIN f) /\ (now = <<>> => Rest(now, 1) = <<>>)
  BY <1>2, PartsType
<1>4. now # <<>> => Head(now) \in DOMAIN f /\ Head(now) # None
  BY <1>2 DEF None
<1>5. ScanCursor(f) = [current |-> IF now = <<>> THEN None ELSE Head(now),
                       pending |-> Rest(now, 1), deferred |-> Rest(ids, TopN),
                       done |-> {}, rescan |-> FALSE]
  <2>1. ScanCursor(f) = [EmptyCursor EXCEPT !.current = IF now = <<>> THEN None ELSE Head(now),
                                            !.pending = Rest(now, 1),
                                            !.deferred = Rest(ids, TopN)]
    BY DEF ScanCursor, now, ids
  <2> QED
    BY <2>1 DEF EmptyCursor
<1> QED
  BY <1>2, <1>3, <1>4, <1>5 DEF CursorOf

(* The rows of a scan come behind those there are. *)
LEMMA NewRowsType ==
  ASSUME rows \in Seq(Row), NEW f, IsScan(f), rows' = rows \o NewRows(f)
  PROVE  /\ rows' \in Seq(Row)
         /\ DOMAIN f \subseteq Ids'
         /\ \A i \in DOMAIN rows : i \in DOMAIN rows' /\ rows'[i] = rows[i]
<1> DEFINE g == NewRows(f)
<1>1. /\ g = [i \in DOMAIN f |-> g[i]]
      /\ \A i \in DOMAIN f : g[i] \in Row /\ g[i].id = i
  <2>1. f \in Seq(Finding)
    BY DEF IsScan
  <2>2. \A i \in DOMAIN f : i \in Nat \ {0} /\ f[i] \in Finding
    BY <2>1
  <2> QED
    BY <2>2 DEF NewRows, Row, Finding
<1>2. f \in Seq(Finding)
  BY DEF IsScan
<1> HIDE DEF g
<1>3. g \in Seq(Row) /\ DOMAIN g = DOMAIN f
  BY <1>1, <1>2, SeqOnPlaces
<1>4. /\ rows' = rows \o g
      /\ rows' \in Seq(Row)
      /\ \A i \in DOMAIN rows : i \in DOMAIN rows' /\ rows'[i] = rows[i]
      /\ \A i \in DOMAIN g : Len(rows) + i \in DOMAIN rows' /\ rows'[Len(rows) + i] = g[i]
  BY <1>3 DEF g
<1>5. ASSUME NEW i \in DOMAIN f PROVE i \in Ids'
  <2>1. Len(rows) + i \in DOMAIN rows' /\ rows'[Len(rows) + i].id = i
    BY <1>1, <1>3, <1>4
  <2> QED
    BY <2>1 DEF Ids
<1> QED
  BY <1>4, <1>5

(* An answer changes no id. *)
LEMMA PatchType ==
  ASSUME rows \in Seq(Row), NEW id, NEW s \in {"accepted", "rejected", "modified"},
         rows' = Patch(id, s)
  PROVE  /\ rows' \in Seq(Row) /\ Ids' = Ids /\ DOMAIN rows' = DOMAIN rows
         /\ \A i \in DOMAIN rows : rows[i].id # id => rows'[i] = rows[i]
<1>1. DOMAIN rows' = DOMAIN rows /\ rows' \in Seq(Row)
  <2>1. \A i \in DOMAIN rows : rows[i] \in Row
    OBVIOUS
  <2>2. \A r \in Row : [r EXCEPT !.status = s] \in Row
    BY DEF Row
  <2>3. rows' = [i \in DOMAIN rows |-> rows'[i]]
    BY DEF Patch
  <2>4. \A i \in DOMAIN rows : rows'[i] \in Row
    BY <2>1, <2>2 DEF Patch
  <2> QED
    BY <2>3, <2>4, SeqOnPlaces
<1>2. \A i \in DOMAIN rows : rows'[i].id = rows[i].id /\ (rows[i].id # id => rows'[i] = rows[i])
  BY DEF Patch, Row
<1> QED
  BY <1>1, <1>2 DEF Ids
(* Whatever a step makes of the cursor, the findings it names have rows.    *)
LEMMA CursorSteps ==
  ASSUME TypeOK, CursorKnown
  PROVE  /\ {EmptyCursor, Advance(cursor), PullDeferred(cursor), Advance(PullDeferred(cursor))}
               \subseteq CursorOf(Ids)
         /\ OpenBlockers # <<>> =>
              LET c == [cursor EXCEPT !.rescan = TRUE, !.pending = OpenBlockers \o @]
              IN  {c, Advance(c)} \subseteq CursorOf(Ids) /\ Advance(c).current # None
<1> DEFINE S == Ids
<1>1. S \subseteq Nat \ {0} /\ cursor \in CursorOf(S) /\ OpenBlockers \in Seq(S)
  BY IdsType, OpenBlockersType DEF TypeOK, CursorKnown
<1> HIDE DEF S
<1>2. EmptyCursor \in CursorOf(S)
  BY EmptySeq DEF EmptyCursor, CursorOf
<1>3. Advance(cursor) \in CursorOf(S)
  BY <1>1, AdvanceType
<1>4. PullDeferred(cursor) \in CursorOf(S)
  BY <1>1, PullDeferredType
<1>5. Advance(PullDeferred(cursor)) \in CursorOf(S)
  BY <1>1, <1>4, AdvanceType
<1>6. ASSUME OpenBlockers # <<>>
      PROVE  LET c == [cursor EXCEPT !.rescan = TRUE, !.pending = OpenBlockers \o @]
             IN  {c, Advance(c)} \subseteq CursorOf(S) /\ Advance(c).current # None
  <2> DEFINE q == OpenBlockers \o cursor.pending
             c == [cursor EXCEPT !.rescan = TRUE, !.pending = q]
  <2>1. cursor.pending \in Seq(S)
    BY <1>1 DEF CursorOf
  <2>2. q \in Seq(S) /\ q # <<>>
    BY <1>1, <1>6, <2>1, ConcatProperties, ConcatEqualIffEmpty
  <2> HIDE DEF q
  <2>3. c \in CursorOf(S) /\ c.pending # <<>>
    BY <1>1, <2>2 DEF CursorOf
  <2> HIDE DEF c
  <2>4. Advance(c) \in CursorOf(S) /\ Advance(c).current # None
    BY <1>1, <2>3, AdvanceType
  <2> QED
    BY <2>3, <2>4 DEF c, q
<1> QED
  BY <1>2, <1>3, <1>4, <1>5, <1>6 DEF S

(* Where the current place is left empty, nothing is pending. *)
LEMMA CursorPlaces ==
  ASSUME TypeOK, CursorKnown
  PROVE  /\ EmptyCursor.current = None /\ EmptyCursor.pending = <<>>
         /\ EmptyCursor.deferred = <<>>
         /\ Advance(cursor).current = None => cursor.pending = <<>> /\ Advance(cursor).pending =
            <<>>
         /\ PullDeferred(cursor).current = cursor.current
         /\ cursor.deferred = <<>> => PullDeferred(cursor).pending = cursor.pending
         /\ cursor.deferred # <<>> => Advance(PullDeferred(cursor)).current # None
         /\ Known(cursor.current) \/ cursor.current = None
<1> DEFINE S == Ids
<1>1. S \subseteq Nat \ {0} /\ cursor \in CursorOf(S)
  BY IdsType DEF TypeOK, CursorKnown
<1>2. Known(cursor.current) \/ cursor.current = None
  BY <1>1 DEF Known, Ids, CursorOf
<1> HIDE DEF S
<1>3. EmptyCursor.current = None /\ EmptyCursor.pending = <<>> /\ EmptyCursor.deferred = <<>>
  BY DEF EmptyCursor
<1>4. Advance(cursor).current = None => cursor.pending = <<>> /\ Advance(cursor).pending = <<>>
  BY <1>1, AdvanceType
<1>5. /\ PullDeferred(cursor) \in CursorOf(S)
      /\ PullDeferred(cursor).current = cursor.current
      /\ cursor.deferred = <<>> => PullDeferred(cursor).pending = cursor.pending
      /\ cursor.deferred # <<>> => PullDeferred(cursor).pending # <<>>
  BY <1>1, PullDeferredType
<1>6. cursor.deferred # <<>> => Advance(PullDeferred(cursor)).current # None
  BY <1>1, <1>5, AdvanceType
<1> QED
  BY <1>2, <1>3, <1>4, <1>5, <1>6

(* Files that change in such ways keep to their types and to each other.    *)
LEMMA FilesFit ==
  ASSUME TypeOK, rows' \in Seq(Row), Ids' = Ids, cursor' \in CursorOf(Ids)
  PROVE  cursor' \in CursorOf(Nat \ {0}) /\ CursorKnown'
BY IdsType DEF TypeOK, CursorKnown


(* Opening a session and taking in its material keeps the stage, the        *)
(* material, the verdict and the count of failed gates in step with the     *)
(* handler.                                                                 *)
LEMMA IntakeControl ==
  ASSUME IInv, Intake
  PROVE  Control'
<1> USE DEF IInv, Data, TypeOK, Session, Control, StageFits, StageAtStep, AtWork,
        Closes, MaterialFits, VerdictFits, Accepted, GateFailed, FailsFit, MayFail, Active, At,
        Goto, Reply, Finish, TellAnd, SetStage, Outside, disk, turn, world
<1>1. CASE Open
  BY <1>1, ReviewAssumption DEF Open
<1>2. CASE Ingest
  BY <1>2 DEF Ingest
<1>3. CASE IngestRefused
  BY <1>3 DEF IngestRefused
<1>4. CASE IngestFails
  BY <1>4 DEF IngestFails
<1>5. CASE Ingested
  BY <1>5 DEF Ingested
<1> QED
  BY <1>1, <1>2, <1>3, <1>4, <1>5 DEF Intake

(* The material gate and the choice of a subject keeps the stage, the       *)
(* material, the verdict and the count of failed gates in step with the     *)
(* handler.                                                                 *)
LEMMA GatheringControl ==
  ASSUME IInv, Gathering
  PROVE  Control'
<1> USE DEF IInv, Data, TypeOK, Session, Control, StageFits, StageAtStep, AtWork,
        Closes, MaterialFits, VerdictFits, Accepted, GateFailed, FailsFit, MayFail, Active, At,
        Goto, Reply, Finish, TellAnd, SetStage, Outside, disk, turn, world
<1>1. CASE CancelAtGate
  BY <1>1 DEF CancelAtGate
<1>2. CASE StartReview
  BY <1>2 DEF StartReview
<1>3. CASE SupplementAtGate
  BY <1>3 DEF SupplementAtGate
<1>4. CASE Propose
  BY <1>4 DEF Propose
<1>5. CASE Reingest
  BY <1>5 DEF Reingest
<1>6. CASE ChooseTopic
  BY <1>6 DEF ChooseTopic
<1>7. CASE TopicUnclear
  BY <1>7 DEF TopicUnclear
<1> QED
  BY <1>1, <1>2, <1>3, <1>4, <1>5, <1>6, <1>7 DEF Gathering

(* The Q&A keeps the stage, the material, the verdict and the count of      *)
(* failed gates in step with the handler.                                   *)
LEMMA QaControl ==
  ASSUME IInv, Qa
  PROVE  Control'
<1> USE DEF IInv, Data, TypeOK, Session, Control, StageFits, StageAtStep, AtWork,
        Closes, MaterialFits, VerdictFits, Accepted, GateFailed, FailsFit, MayFail, Active, At,
        Goto, Reply, Finish, TellAnd, SetStage, Outside, disk, turn, world
<1>1. CASE EnterQa
  BY <1>1 DEF EnterQa
<1>2. CASE SupplementInQa
  BY <1>2 DEF SupplementInQa
<1>3. CASE ResetCursor
  BY <1>3 DEF ResetCursor
<1>4. CASE Rescan
  BY <1>4 DEF Rescan
<1>5. CASE SupplementRejected
  BY <1>5 DEF SupplementRejected
<1>6. CASE More
  BY <1>6 DEF More
<1>7. CASE MoreAdvance
  BY <1>7 DEF MoreAdvance
<1>8. CASE AskToClose
  BY <1>8 DEF AskToClose
<1>9. CASE ForceClose
  BY <1>9 DEF ForceClose
<1>10. CASE Answer
  BY <1>10 DEF Answer
<1>11. CASE AdvanceCursor
  BY <1>11 DEF AdvanceCursor
<1>12. CASE Question
  BY <1>12 DEF Question
<1>13. CASE ProposeClose
  BY <1>13 DEF ProposeClose
<1>14. CASE EmitNothing
  BY <1>14 DEF EmitNothing
<1>15. CASE Emit
  BY <1>15 DEF Emit
<1>16. CASE EmitBlank
  BY <1>16 DEF EmitBlank
<1> QED
  BY <1>1, <1>2, <1>3, <1>4, <1>5, <1>6, <1>7, <1>8, <1>9, <1>10, <1>11, <1>12, <1>13, <1>14,
     <1>15, <1>16 DEF Qa

(* The offer to close keeps the stage, the material, the verdict and the    *)
(* count of failed gates in step with the handler.                          *)
LEMMA CloseAskedControl ==
  ASSUME IInv, CloseAsked
  PROVE  Control'
<1> USE DEF IInv, Data, TypeOK, Session, Control, StageFits, StageAtStep, AtWork,
        Closes, MaterialFits, VerdictFits, Accepted, GateFailed, FailsFit, MayFail, Active, At,
        Goto, Reply, Finish, TellAnd, SetStage, Outside, disk, turn, world
<1>1. CASE ConfirmClose
  BY <1>1 DEF ConfirmClose
<1>2. CASE MoreAtClose
  BY <1>2 DEF MoreAtClose
<1>3. CASE BackToQa
  BY <1>3 DEF BackToQa
<1>4. CASE AskAgain
  BY <1>4 DEF AskAgain
<1> QED
  BY <1>1, <1>2, <1>3, <1>4 DEF CloseAsked

(* A message for a session that was left in a busy stage or at intake keeps *)
(* the stage, the material, the verdict and the count of failed gates in    *)
(* step with the handler.                                                   *)
LEMMA LeftoverControl ==
  ASSUME IInv, Leftover
  PROVE  Control'
<1> USE DEF IInv, Data, TypeOK, Session, Control, StageFits, StageAtStep, AtWork,
        Closes, MaterialFits, VerdictFits, Accepted, GateFailed, FailsFit, MayFail, Active, At,
        Goto, Reply, Finish, TellAnd, SetStage, Outside, disk, turn, world
<1>1. CASE ResumeBusy
  BY <1>1 DEF ResumeBusy, Busy, Restart
<1>2. CASE SayBusy
  BY <1>2 DEF SayBusy, Busy
<1>3. CASE CloseAtIntake
  BY <1>3 DEF CloseAtIntake
<1>4. CASE WaitAtIntake
  BY <1>4 DEF WaitAtIntake
<1> QED
  BY <1>1, <1>2, <1>3, <1>4 DEF Leftover

(* The scan keeps the stage, the material, the verdict and the count of     *)
(* failed gates in step with the handler.                                   *)
LEMMA ScanningControl ==
  ASSUME IInv, Scanning
  PROVE  Control'
<1> USE DEF IInv, Data, TypeOK, Session, Control, StageFits, StageAtStep, AtWork,
        Closes, MaterialFits, VerdictFits, Accepted, GateFailed, FailsFit, MayFail, Active, At,
        Goto, Reply, Finish, TellAnd, SetStage, Outside, disk, turn, world
<1>1. CASE ScanPillars
  BY <1>1 DEF ScanPillars
<1>2. CASE ScanResponder
  BY <1>2 DEF ScanResponder
<1>3. CASE Scanned
  BY <1>3 DEF Scanned
<1> QED
  BY <1>1, <1>2, <1>3 DEF Scanning

(* The close chain keeps the stage, the material, the verdict and the count *)
(* of failed gates in step with the handler.                                *)
LEMMA CloseControl ==
  ASSUME IInv, Close
  PROVE  Control'
<1> USE DEF IInv, Data, TypeOK, Session, Control, StageFits, StageAtStep, AtWork,
        Closes, MaterialFits, VerdictFits, Accepted, GateFailed, FailsFit, MayFail, Active, At,
        Goto, Reply, Finish, TellAnd, SetStage, Outside, disk, turn, world
<1>1. CASE Merge
  BY <1>1 DEF Merge
<1>2. CASE MergeUnreadable
  BY <1>2 DEF MergeUnreadable
<1>3. CASE Merged
  BY <1>3 DEF Merged, InChain
<1>4. CASE Gate
  BY <1>4 DEF Gate
<1>5. CASE Judge
  <2>1. CASE chain = "forced"
    BY <1>5, <2>1 DEF Judge, InChain
  <2>2. CASE chain # "forced" /\ sess' = [sess EXCEPT !.verdict = "READY", !.stage = "closing"]
    BY <1>5, <2>2 DEF Judge, InChain
  <2>3. CASE chain # "forced" /\ sess' = [sess EXCEPT !.verdict = "FAIL", !.fails = @ + 1]
    BY ReviewAssumption, <1>5, <2>3 DEF Judge, InChain
  <2> QED
    BY <1>5, <2>1, <2>2, <2>3 DEF Judge
<1>6. CASE Settle
  BY <1>6 DEF Settle
<1>7. CASE SettleWithoutBlockers
  BY <1>7 DEF SettleWithoutBlockers
<1>8. CASE SettleExhausted
  BY <1>8 DEF SettleExhausted
<1>9. CASE RequeueBlockers
  <2>1. cursor'.current # None
    BY <1>9, CursorSteps DEF RequeueBlockers
  <2> QED
    BY <1>9, <2>1 DEF RequeueBlockers
<1>10. CASE Reopen
  BY <1>10 DEF Reopen
<1>11. CASE Closing
  BY <1>11 DEF Closing
<1>12. CASE Summarize
  BY <1>12 DEF Summarize
<1>13. CASE Deliver
  BY <1>13 DEF Deliver
<1>14. CASE Delivered
  BY <1>14 DEF Delivered
<1> QED
  BY <1>1, <1>2, <1>3, <1>4, <1>5, <1>6, <1>7, <1>8, <1>9, <1>10, <1>11, <1>12, <1>13, <1>14 DEF
     Close

(* The end of a handler keeps the stage, the material, the verdict and the  *)
(* count of failed gates in step with the handler.                          *)
LEMMA EndsControl ==
  ASSUME IInv, Tell \/ TellLost \/ Done
  PROVE  Control'
<1> USE DEF IInv, Data, TypeOK, Session, Control, StageFits, StageAtStep, AtWork,
        Closes, MaterialFits, VerdictFits, Accepted, GateFailed, FailsFit, MayFail, Active, At,
        Goto, Reply, Finish, TellAnd, SetStage, Outside, disk, turn, world
<1>1. CASE Tell \/ TellLost
  BY <1>1 DEF Tell, TellLost
<1>2. CASE Done
  BY <1>2 DEF Done
<1> QED
  BY <1>1, <1>2

(* A failure, or a stop of the process keeps the stage, the material, the   *)
(* verdict and the count of failed gates in step with the handler.          *)
LEMMA FaultsControl ==
  ASSUME IInv, LlmFails \/ HandlerRaises \/ DeliverPartly \/ Crash
  PROVE  Control'
<1> USE DEF IInv, Data, TypeOK, Session, Control, StageFits, StageAtStep, AtWork,
        Closes, MaterialFits, VerdictFits, Accepted, GateFailed, FailsFit, MayFail, Active, At,
        Goto, Reply, Finish, TellAnd, SetStage, Outside, disk, turn, world
<1>1. CASE LlmFails
  BY <1>1 DEF LlmFails, InChain, CallsLlm, Happens, FailStage
<1>2. CASE HandlerRaises
  BY <1>2 DEF HandlerRaises, CallsLlm, Happens, FetchesMaterial, FailStage
<1>3. CASE DeliverPartly
  BY <1>3 DEF DeliverPartly, Happens
<1>4. CASE Crash
  BY <1>4 DEF Crash
<1> QED
  BY <1>1, <1>2, <1>3, <1>4

(* Opening a session and taking in its material gives every variable a      *)
(* value of its type.                                                       *)
LEMMA IntakeTypes ==
  ASSUME IInv, Intake
  PROVE  TypeOK'
<1> USE DEF IInv, Data, TypeOK, At, Goto, Reply, Finish, TellAnd, SetStage, Ask,
        AskFor, Same, Prompt, None, Outside, disk, turn, world
<1>a. sess \in Session
  OBVIOUS
<1>b. UNCHANGED rows /\ cursor' \in CursorOf(Ids) => cursor' \in CursorOf(Nat \ {0})
  BY FilesFit DEF Ids
<1>1. CASE Open
  <2>1. rows' \in Seq(Row) /\ Ids' = {}
    BY <1>1 DEF Open, Ids
  <2>2. EmptyCursor \in CursorOf({}) /\ EmptyCursor \in CursorOf(Nat \ {0})
    BY EmptySeq DEF EmptyCursor, CursorOf
  <2> QED
    BY <1>1, <1>a, <2>1, <2>2, SessionType DEF Open
<1>2. CASE Ingest
  BY <1>2 DEF Ingest
<1>3. CASE IngestRefused
  <2>1. sess' \in Session
    BY <1>a, SessionType, StageType, <1>3 DEF IngestRefused
  <2> QED
    BY <2>1, <1>3 DEF IngestRefused
<1>4. CASE IngestFails
  <2>1. sess' \in Session
    BY <1>a, SessionType, StageType, <1>4 DEF IngestFails
  <2> QED
    BY <2>1, <1>4 DEF IngestFails
<1>5. CASE Ingested
  <2>1. sess' \in Session
    BY <1>a, SessionType, StageType, <1>5 DEF Ingested
  <2> QED
    BY <2>1, <1>5 DEF Ingested
<1> QED
  BY <1>1, <1>2, <1>3, <1>4, <1>5 DEF Intake

(* The material gate and the choice of a subject gives every variable a     *)
(* value of its type.                                                       *)
LEMMA GatheringTypes ==
  ASSUME IInv, Gathering
  PROVE  TypeOK'
<1> USE DEF IInv, Data, TypeOK, At, Goto, Reply, Finish, TellAnd, SetStage, Ask,
        AskFor, Same, Prompt, None, Outside, disk, turn, world
<1>a. sess \in Session
  OBVIOUS
<1>b. UNCHANGED rows /\ cursor' \in CursorOf(Ids) => cursor' \in CursorOf(Nat \ {0})
  BY FilesFit DEF Ids
<1>1. CASE CancelAtGate
  <2>1. sess' \in Session
    BY <1>a, SessionType, StageType, <1>1 DEF CancelAtGate
  <2> QED
    BY <2>1, <1>1 DEF CancelAtGate
<1>2. CASE StartReview
  <2>1. sess' \in Session
    BY <1>a, SessionType, StageType, <1>2 DEF StartReview
  <2> QED
    BY <2>1, <1>2 DEF StartReview
<1>3. CASE SupplementAtGate
  BY <1>3 DEF SupplementAtGate
<1>4. CASE Propose
  <2>1. sess' \in Session
    BY <1>a, SessionType, StageType, <1>4 DEF Propose
  <2> QED
    BY <2>1, <1>4 DEF Propose
<1>5. CASE Reingest
  BY <1>5 DEF Reingest
<1>6. CASE ChooseTopic
  <2>1. sess' \in Session
    BY <1>a, SessionType, StageType, <1>6 DEF ChooseTopic
  <2> QED
    BY <2>1, <1>6 DEF ChooseTopic
<1>7. CASE TopicUnclear
  BY <1>7 DEF TopicUnclear
<1> QED
  BY <1>1, <1>2, <1>3, <1>4, <1>5, <1>6, <1>7 DEF Gathering

(* The Q&A gives every variable a value of its type.                        *)
LEMMA QaTypes ==
  ASSUME IInv, Qa
  PROVE  TypeOK'
<1> USE DEF IInv, Data, TypeOK, At, Goto, Reply, Finish, TellAnd, SetStage, Ask,
        AskFor, Same, Prompt, None, Outside, disk, turn, world
<1>a. sess \in Session
  OBVIOUS
<1>b. UNCHANGED rows /\ cursor' \in CursorOf(Ids) => cursor' \in CursorOf(Nat \ {0})
  BY FilesFit DEF Ids
<1>1. CASE EnterQa
  <2>1. sess' \in Session
    BY <1>a, SessionType, StageType, <1>1 DEF EnterQa
  <2> QED
    BY <2>1, <1>1 DEF EnterQa
<1>2. CASE SupplementInQa
  BY <1>2 DEF SupplementInQa
<1>3. CASE ResetCursor
  BY <1>3, <1>b, CursorSteps DEF ResetCursor
<1>4. CASE Rescan
  <2>1. sess' \in Session
    BY <1>a, SessionType, StageType, <1>4 DEF Rescan
  <2> QED
    BY <2>1, <1>4 DEF Rescan
<1>5. CASE SupplementRejected
  BY <1>5 DEF SupplementRejected
<1>6. CASE More
  BY <1>6, <1>b, CursorSteps DEF More
<1>7. CASE MoreAdvance
  BY <1>7, <1>b, CursorSteps DEF MoreAdvance
<1>8. CASE AskToClose
  BY <1>8 DEF AskToClose
<1>9. CASE ForceClose
  BY <1>9 DEF ForceClose
<1>10. CASE Answer
  <2>1. UNCHANGED rows => Ids' = Ids
    BY DEF Ids
  <2>2. ASSUME Intent \in DOMAIN StatusFor, rows' = Patch(cursor.current, StatusFor[Intent])
        PROVE  rows' \in Seq(Row) /\ Ids' = Ids
    <3>1. StatusFor[Intent] \in {"accepted", "rejected", "modified"}
      BY <2>2 DEF StatusFor
    <3> QED
      BY <2>2, <3>1, PatchType DEF TypeOK
  <2>3. rows' \in Seq(Row) /\ Ids' = Ids
    BY <1>10, <2>1, <2>2 DEF Answer, TypeOK
  <2> QED
    BY <1>10, <2>3 DEF Answer
<1>11. CASE AdvanceCursor
  BY <1>11, <1>b, CursorSteps DEF AdvanceCursor
<1>12. CASE Question
  BY <1>12 DEF Question
<1>13. CASE ProposeClose
  <2>1. sess' \in Session
    BY <1>a, SessionType, StageType, <1>13 DEF ProposeClose
  <2> QED
    BY <2>1, <1>13 DEF ProposeClose
<1>14. CASE EmitNothing
  BY <1>14 DEF EmitNothing
<1>15. CASE Emit
  BY <1>15 DEF Emit, CursorOf
<1>16. CASE EmitBlank
  <2>1. prompt' \in Prompt
    BY <1>16 DEF EmitBlank, CursorOf
  <2> QED
    BY <1>16, <2>1 DEF EmitBlank
<1> QED
  BY <1>1, <1>2, <1>3, <1>4, <1>5, <1>6, <1>7, <1>8, <1>9, <1>10, <1>11, <1>12, <1>13, <1>14,
     <1>15, <1>16 DEF Qa

(* The offer to close gives every variable a value of its type.             *)
LEMMA CloseAskedTypes ==
  ASSUME IInv, CloseAsked
  PROVE  TypeOK'
<1> USE DEF IInv, Data, TypeOK, At, Goto, Reply, Finish, TellAnd, SetStage, Ask,
        AskFor, Same, Prompt, None, Outside, disk, turn, world
<1>a. sess \in Session
  OBVIOUS
<1>b. UNCHANGED rows /\ cursor' \in CursorOf(Ids) => cursor' \in CursorOf(Nat \ {0})
  BY FilesFit DEF Ids
<1>1. CASE ConfirmClose
  <2>1. sess' \in Session
    BY <1>a, SessionType, StageType, <1>1 DEF ConfirmClose
  <2> QED
    BY <2>1, <1>1 DEF ConfirmClose
<1>2. CASE MoreAtClose
  BY <1>2, <1>b, CursorSteps DEF MoreAtClose
<1>3. CASE BackToQa
  <2>1. sess' \in Session
    BY <1>a, SessionType, StageType, <1>3 DEF BackToQa
  <2> QED
    BY <2>1, <1>3 DEF BackToQa
<1>4. CASE AskAgain
  BY <1>4 DEF AskAgain
<1> QED
  BY <1>1, <1>2, <1>3, <1>4 DEF CloseAsked

(* A message for a session that was left in a busy stage or at intake gives *)
(* every variable a value of its type.                                      *)
LEMMA LeftoverTypes ==
  ASSUME IInv, Leftover
  PROVE  TypeOK'
<1> USE DEF IInv, Data, TypeOK, At, Goto, Reply, Finish, TellAnd, SetStage, Ask,
        AskFor, Same, Prompt, None, Outside, disk, turn, world
<1>a. sess \in Session
  OBVIOUS
<1>b. UNCHANGED rows /\ cursor' \in CursorOf(Ids) => cursor' \in CursorOf(Nat \ {0})
  BY FilesFit DEF Ids
<1>1. CASE ResumeBusy
  BY <1>1 DEF ResumeBusy, Busy, Restart
<1>2. CASE SayBusy
  BY <1>2 DEF SayBusy, Busy
<1>3. CASE CloseAtIntake
  BY <1>3 DEF CloseAtIntake
<1>4. CASE WaitAtIntake
  BY <1>4 DEF WaitAtIntake
<1> QED
  BY <1>1, <1>2, <1>3, <1>4 DEF Leftover

(* The scan gives every variable a value of its type.                       *)
LEMMA ScanningTypes ==
  ASSUME IInv, Scanning
  PROVE  TypeOK'
<1> USE DEF IInv, Data, TypeOK, At, Goto, Reply, Finish, TellAnd, SetStage, Ask,
        AskFor, Same, Prompt, None, Outside, disk, turn, world
<1>a. sess \in Session
  OBVIOUS
<1>b. UNCHANGED rows /\ cursor' \in CursorOf(Ids) => cursor' \in CursorOf(Nat \ {0})
  BY FilesFit DEF Ids
<1>1. CASE ScanPillars
  BY <1>1 DEF ScanPillars, Busy
<1>2. CASE ScanResponder
  <2>1. PICK f \in Scans : rows' = rows \o NewRows(f) /\ cursor' = ScanCursor(f)
    BY <1>2 DEF ScanResponder
  <2>2. IsScan(f)
    BY <2>1, ScansAre
  <2>3. rows' \in Seq(Row) /\ DOMAIN f \subseteq Ids' /\ cursor' \in CursorOf(DOMAIN f)
    BY <2>1, <2>2, NewRowsType, ScanCursorType DEF TypeOK
  <2>4. DOMAIN f \subseteq Nat \ {0}
    BY <2>2 DEF IsScan
  <2>5. cursor' \in CursorOf(Ids') /\ cursor' \in CursorOf(Nat \ {0})
    BY <2>3, <2>4, CursorOfLarger
  <2> QED
    BY <1>2, <2>3, <2>5 DEF ScanResponder
<1>3. CASE Scanned
  <2>1. sess' \in Session
    BY <1>a, SessionType, StageType, <1>3 DEF Scanned
  <2> QED
    BY <2>1, <1>3 DEF Scanned
<1> QED
  BY <1>1, <1>2, <1>3 DEF Scanning

(* The close chain gives every variable a value of its type.                *)
LEMMA CloseTypes ==
  ASSUME IInv, Close
  PROVE  TypeOK'
<1> USE DEF IInv, Data, TypeOK, At, Goto, Reply, Finish, TellAnd, SetStage, Ask,
        AskFor, Same, Prompt, None, Outside, disk, turn, world
<1>a. sess \in Session
  OBVIOUS
<1>b. UNCHANGED rows /\ cursor' \in CursorOf(Ids) => cursor' \in CursorOf(Nat \ {0})
  BY FilesFit DEF Ids
<1>1. CASE Merge
  BY <1>1 DEF Merge, Busy
<1>2. CASE MergeUnreadable
  BY <1>2 DEF MergeUnreadable
<1>3. CASE Merged
  <2>1. sess' \in Session
    BY <1>a, SessionType, StageType, <1>3 DEF Merged, InChain
  <2> QED
    BY <2>1, <1>3 DEF Merged, InChain
<1>4. CASE Gate
  BY <1>4 DEF Gate, Busy
<1>5. CASE Judge
  <2>1. /\ [sess EXCEPT !.verdict = "FORCED_PARTIAL", !.stage = "closing"] \in Session
        /\ [sess EXCEPT !.verdict = "READY", !.stage = "closing"] \in Session
        /\ [sess EXCEPT !.verdict = "FAIL", !.fails = @ + 1] \in Session
    BY <1>a, SessionType, StageType
  <2>2. sess' \in Session
    BY <1>5, <2>1 DEF Judge
  <2> QED
    BY <1>5, <2>2 DEF Judge, InChain
<1>6. CASE Settle
  BY <1>6 DEF Settle
<1>7. CASE SettleWithoutBlockers
  <2>1. sess' \in Session
    BY <1>a, SessionType, StageType, <1>7 DEF SettleWithoutBlockers
  <2> QED
    BY <2>1, <1>7 DEF SettleWithoutBlockers
<1>8. CASE SettleExhausted
  <2>1. sess' \in Session
    BY <1>a, SessionType, StageType, <1>8 DEF SettleExhausted
  <2> QED
    BY <2>1, <1>8 DEF SettleExhausted
<1>9. CASE RequeueBlockers
  BY <1>9, <1>b, CursorSteps DEF RequeueBlockers
<1>10. CASE Reopen
  <2>1. sess' \in Session
    BY <1>a, SessionType, StageType, <1>10 DEF Reopen
  <2> QED
    BY <2>1, <1>10 DEF Reopen
<1>11. CASE Closing
  <2>1. sess' \in Session
    BY <1>a, SessionType, StageType, <1>11 DEF Closing
  <2> QED
    BY <2>1, <1>11 DEF Closing
<1>12. CASE Summarize
  BY <1>12 DEF Summarize, Busy
<1>13. CASE Deliver
  <2>1. sess' \in Session
    BY <1>a, SessionType, StageType, <1>13 DEF Deliver
  <2> QED
    BY <2>1, <1>13 DEF Deliver
<1>14. CASE Delivered
  <2>1. sess' \in Session
    BY <1>a, SessionType, StageType, <1>14 DEF Delivered
  <2> QED
    BY <2>1, <1>14 DEF Delivered
<1> QED
  BY <1>1, <1>2, <1>3, <1>4, <1>5, <1>6, <1>7, <1>8, <1>9, <1>10, <1>11, <1>12, <1>13, <1>14 DEF
     Close

(* The end of a handler gives every variable a value of its type.           *)
LEMMA EndsTypes ==
  ASSUME IInv, Tell \/ TellLost \/ Done
  PROVE  TypeOK'
<1> USE DEF IInv, Data, TypeOK, At, Goto, Reply, Finish, TellAnd, SetStage, Ask,
        AskFor, Same, Prompt, None, Outside, disk, turn, world
<1>a. sess \in Session
  OBVIOUS
<1>b. UNCHANGED rows /\ cursor' \in CursorOf(Ids) => cursor' \in CursorOf(Nat \ {0})
  BY FilesFit DEF Ids
<1>1. CASE Tell \/ TellLost
  BY <1>1 DEF Tell, TellLost
<1>2. CASE Done
  <2>1. Tail(inbox) \in Seq(Message)
    BY <1>2 DEF Done, HeadStays
  <2> QED
    BY <1>2, <2>1 DEF Done
<1> QED
  BY <1>1, <1>2

(* A failure, or a stop of the process gives every variable a value of its  *)
(* type.                                                                    *)
LEMMA FaultsTypes ==
  ASSUME IInv, LlmFails \/ HandlerRaises \/ DeliverPartly \/ Crash
  PROVE  TypeOK'
<1> USE DEF IInv, Data, TypeOK, At, Goto, Reply, Finish, TellAnd, SetStage, Ask,
        AskFor, Same, Prompt, None, Outside, disk, turn, world
<1>a. sess \in Session
  OBVIOUS
<1>b. UNCHANGED rows /\ cursor' \in CursorOf(Ids) => cursor' \in CursorOf(Nat \ {0})
  BY FilesFit DEF Ids
<1>1. CASE LlmFails
  <2>1. FailStage[pc] \in Stage
    BY <1>1, StageType DEF LlmFails, CallsLlm, FailStage
  <2>2. sess' \in Session
    BY <1>1, <1>a, <2>1, SessionType DEF LlmFails
  <2>3. troubles' \in 0..MaxTrouble
    BY ReviewAssumption, <1>1 DEF LlmFails, Happens
  <2> QED
    BY <1>1, <2>2, <2>3 DEF LlmFails, InChain
<1>2. CASE HandlerRaises
  <2>1. troubles' \in 0..MaxTrouble
    BY ReviewAssumption, <1>2 DEF HandlerRaises, Happens
  <2> QED
    BY <1>2, <2>1 DEF HandlerRaises
<1>3. CASE DeliverPartly
  <2>1. sess' \in Session
    BY <1>3, <1>a, SessionType, StageType DEF DeliverPartly
  <2>2. troubles' \in 0..MaxTrouble
    BY ReviewAssumption, <1>3 DEF DeliverPartly, Happens
  <2> QED
    BY <1>3, <2>1, <2>2 DEF DeliverPartly
<1>4. CASE Crash
  <2>1. crashes' \in 0..MaxCrashes
    BY ReviewAssumption, <1>4 DEF Crash
  <2> QED
    BY <1>4, <2>1 DEF Crash
<1> QED
  BY <1>1, <1>2, <1>3, <1>4

(* Opening a session and taking in its material leaves no finding in the    *)
(* cursor without a row, and no handler without its message.                *)
LEMMA IntakeFiles ==
  ASSUME IInv, Intake
  PROVE  HeadStays' /\ CursorKnown'
<1> USE DEF IInv, Data, HeadStays, At, Goto, Reply, Finish, TellAnd, SetStage, Outside, disk,
        turn, world
<1>a. UNCHANGED <<rows, cursor>> => CursorKnown'
  BY DEF CursorKnown, Ids
<1>b. UNCHANGED rows /\ cursor' \in CursorOf(Ids) => CursorKnown'
  BY FilesFit DEF Ids, TypeOK
<1>c. TypeOK
  OBVIOUS
<1>1. CASE Open
  <2>1. rows' \in Seq(Row) /\ Ids' = {}
    BY <1>1 DEF Open, Ids
  <2>2. EmptyCursor \in CursorOf({}) /\ EmptyCursor \in CursorOf(Nat \ {0})
    BY EmptySeq DEF EmptyCursor, CursorOf
  <2> QED
    BY <1>1, <2>1, <2>2 DEF Open, CursorKnown
<1>2. CASE Ingest
  BY <1>a, <1>2 DEF Ingest
<1>3. CASE IngestRefused
  BY <1>a, <1>3 DEF IngestRefused
<1>4. CASE IngestFails
  BY <1>a, <1>4 DEF IngestFails
<1>5. CASE Ingested
  BY <1>a, <1>5 DEF Ingested
<1> QED
  BY <1>1, <1>2, <1>3, <1>4, <1>5 DEF Intake

(* The material gate and the choice of a subject leave no finding in the    *)
(* cursor without a row, and no handler without its message.                *)
LEMMA GatheringFiles ==
  ASSUME IInv, Gathering
  PROVE  HeadStays' /\ CursorKnown'
<1> USE DEF IInv, Data, HeadStays, At, Goto, Reply, Finish, TellAnd, SetStage, Outside, disk,
        turn, world
<1>a. UNCHANGED <<rows, cursor>> => CursorKnown'
  BY DEF CursorKnown, Ids
<1>b. UNCHANGED rows /\ cursor' \in CursorOf(Ids) => CursorKnown'
  BY FilesFit DEF Ids, TypeOK
<1>c. TypeOK
  OBVIOUS
<1>1. CASE CancelAtGate
  BY <1>a, <1>1 DEF CancelAtGate
<1>2. CASE StartReview
  BY <1>a, <1>2 DEF StartReview
<1>3. CASE SupplementAtGate
  BY <1>a, <1>3 DEF SupplementAtGate
<1>4. CASE Propose
  BY <1>a, <1>4 DEF Propose
<1>5. CASE Reingest
  BY <1>a, <1>5 DEF Reingest
<1>6. CASE ChooseTopic
  BY <1>a, <1>6 DEF ChooseTopic
<1>7. CASE TopicUnclear
  BY <1>a, <1>7 DEF TopicUnclear
<1> QED
  BY <1>1, <1>2, <1>3, <1>4, <1>5, <1>6, <1>7 DEF Gathering

(* The Q&A leaves no finding in the cursor without a row, and no handler    *)
(* without its message.                                                     *)
LEMMA QaFiles ==
  ASSUME IInv, Qa
  PROVE  HeadStays' /\ CursorKnown'
<1> USE DEF IInv, Data, HeadStays, At, Goto, Reply, Finish, TellAnd, SetStage, Outside, disk,
        turn, world
<1>a. UNCHANGED <<rows, cursor>> => CursorKnown'
  BY DEF CursorKnown, Ids
<1>b. UNCHANGED rows /\ cursor' \in CursorOf(Ids) => CursorKnown'
  BY FilesFit DEF Ids, TypeOK
<1>c. TypeOK
  OBVIOUS
<1>1. CASE EnterQa
  BY <1>a, <1>1 DEF EnterQa
<1>2. CASE SupplementInQa
  BY <1>a, <1>2 DEF SupplementInQa
<1>3. CASE ResetCursor
  BY <1>3, <1>b, <1>c, CursorSteps DEF ResetCursor
<1>4. CASE Rescan
  BY <1>a, <1>4 DEF Rescan
<1>5. CASE SupplementRejected
  BY <1>a, <1>5 DEF SupplementRejected
<1>6. CASE More
  BY <1>6, <1>b, <1>c, CursorSteps DEF More
<1>7. CASE MoreAdvance
  BY <1>7, <1>b, <1>c, CursorSteps DEF MoreAdvance
<1>8. CASE AskToClose
  BY <1>a, <1>8 DEF AskToClose
<1>9. CASE ForceClose
  BY <1>a, <1>9 DEF ForceClose
<1>10. CASE Answer
  <2>1. UNCHANGED rows => Ids' = Ids
    BY DEF Ids
  <2>2. ASSUME Intent \in DOMAIN StatusFor, rows' = Patch(cursor.current, StatusFor[Intent])
        PROVE  rows' \in Seq(Row) /\ Ids' = Ids
    <3>1. StatusFor[Intent] \in {"accepted", "rejected", "modified"}
      BY <2>2 DEF StatusFor
    <3> QED
      BY <2>2, <3>1, PatchType DEF TypeOK
  <2>3. rows' \in Seq(Row) /\ Ids' = Ids
    BY <1>10, <2>1, <2>2 DEF Answer, TypeOK
  <2> QED
    BY <1>10, <2>3 DEF Answer, CursorKnown
<1>11. CASE AdvanceCursor
  BY <1>11, <1>b, <1>c, CursorSteps DEF AdvanceCursor
<1>12. CASE Question
  BY <1>a, <1>12 DEF Question
<1>13. CASE ProposeClose
  BY <1>a, <1>13 DEF ProposeClose
<1>14. CASE EmitNothing
  BY <1>a, <1>14 DEF EmitNothing
<1>15. CASE Emit
  BY <1>a, <1>15 DEF Emit
<1>16. CASE EmitBlank
  BY <1>a, <1>16 DEF EmitBlank
<1> QED
  BY <1>1, <1>2, <1>3, <1>4, <1>5, <1>6, <1>7, <1>8, <1>9, <1>10, <1>11, <1>12, <1>13, <1>14,
     <1>15, <1>16 DEF Qa

(* The offer to close leaves no finding in the cursor without a row, and no *)
(* handler without its message.                                             *)
LEMMA CloseAskedFiles ==
  ASSUME IInv, CloseAsked
  PROVE  HeadStays' /\ CursorKnown'
<1> USE DEF IInv, Data, HeadStays, At, Goto, Reply, Finish, TellAnd, SetStage, Outside, disk,
        turn, world
<1>a. UNCHANGED <<rows, cursor>> => CursorKnown'
  BY DEF CursorKnown, Ids
<1>b. UNCHANGED rows /\ cursor' \in CursorOf(Ids) => CursorKnown'
  BY FilesFit DEF Ids, TypeOK
<1>c. TypeOK
  OBVIOUS
<1>1. CASE ConfirmClose
  BY <1>a, <1>1 DEF ConfirmClose
<1>2. CASE MoreAtClose
  BY <1>2, <1>b, <1>c, CursorSteps DEF MoreAtClose
<1>3. CASE BackToQa
  BY <1>a, <1>3 DEF BackToQa
<1>4. CASE AskAgain
  BY <1>a, <1>4 DEF AskAgain
<1> QED
  BY <1>1, <1>2, <1>3, <1>4 DEF CloseAsked

(* A message for a session that was left in a busy stage or at intake       *)
(* leaves no finding in the cursor without a row, and no handler without    *)
(* its message.                                                             *)
LEMMA LeftoverFiles ==
  ASSUME IInv, Leftover
  PROVE  HeadStays' /\ CursorKnown'
<1> USE DEF IInv, Data, HeadStays, At, Goto, Reply, Finish, TellAnd, SetStage, Outside, disk,
        turn, world
<1>a. UNCHANGED <<rows, cursor>> => CursorKnown'
  BY DEF CursorKnown, Ids
<1>b. UNCHANGED rows /\ cursor' \in CursorOf(Ids) => CursorKnown'
  BY FilesFit DEF Ids, TypeOK
<1>c. TypeOK
  OBVIOUS
<1>1. CASE ResumeBusy
  BY <1>a, <1>1 DEF ResumeBusy, Busy, Restart
<1>2. CASE SayBusy
  BY <1>a, <1>2 DEF SayBusy, Busy
<1>3. CASE CloseAtIntake
  BY <1>a, <1>3 DEF CloseAtIntake
<1>4. CASE WaitAtIntake
  BY <1>a, <1>4 DEF WaitAtIntake
<1> QED
  BY <1>1, <1>2, <1>3, <1>4 DEF Leftover

(* The scan leaves no finding in the cursor without a row, and no handler   *)
(* without its message.                                                     *)
LEMMA ScanningFiles ==
  ASSUME IInv, Scanning
  PROVE  HeadStays' /\ CursorKnown'
<1> USE DEF IInv, Data, HeadStays, At, Goto, Reply, Finish, TellAnd, SetStage, Outside, disk,
        turn, world
<1>a. UNCHANGED <<rows, cursor>> => CursorKnown'
  BY DEF CursorKnown, Ids
<1>b. UNCHANGED rows /\ cursor' \in CursorOf(Ids) => CursorKnown'
  BY FilesFit DEF Ids, TypeOK
<1>c. TypeOK
  OBVIOUS
<1>1. CASE ScanPillars
  BY <1>a, <1>1 DEF ScanPillars
<1>2. CASE ScanResponder
  <2>1. PICK f \in Scans : rows' = rows \o NewRows(f) /\ cursor' = ScanCursor(f)
    BY <1>2 DEF ScanResponder
  <2>2. IsScan(f)
    BY <2>1, ScansAre
  <2>3. rows' \in Seq(Row) /\ DOMAIN f \subseteq Ids' /\ cursor' \in CursorOf(DOMAIN f)
    BY <2>1, <2>2, NewRowsType, ScanCursorType DEF TypeOK
  <2>4. DOMAIN f \subseteq Nat \ {0}
    BY <2>2 DEF IsScan
  <2>5. cursor' \in CursorOf(Ids') /\ cursor' \in CursorOf(Nat \ {0})
    BY <2>3, <2>4, CursorOfLarger
  <2> QED
    BY <1>2, <2>5 DEF ScanResponder, CursorKnown
<1>3. CASE Scanned
  BY <1>a, <1>3 DEF Scanned
<1> QED
  BY <1>1, <1>2, <1>3 DEF Scanning

(* The close chain leaves no finding in the cursor without a row, and no    *)
(* handler without its message.                                             *)
LEMMA CloseFiles ==
  ASSUME IInv, Close
  PROVE  HeadStays' /\ CursorKnown'
<1> USE DEF IInv, Data, HeadStays, At, Goto, Reply, Finish, TellAnd, SetStage, Outside, disk,
        turn, world
<1>a. UNCHANGED <<rows, cursor>> => CursorKnown'
  BY DEF CursorKnown, Ids
<1>b. UNCHANGED rows /\ cursor' \in CursorOf(Ids) => CursorKnown'
  BY FilesFit DEF Ids, TypeOK
<1>c. TypeOK
  OBVIOUS
<1>1. CASE Merge
  BY <1>a, <1>1 DEF Merge
<1>2. CASE MergeUnreadable
  BY <1>a, <1>2 DEF MergeUnreadable
<1>3. CASE Merged
  BY <1>a, <1>3 DEF Merged, InChain
<1>4. CASE Gate
  BY <1>a, <1>4 DEF Gate
<1>5. CASE Judge
  BY <1>a, <1>5 DEF Judge, InChain
<1>6. CASE Settle
  BY <1>a, <1>6 DEF Settle
<1>7. CASE SettleWithoutBlockers
  BY <1>a, <1>7 DEF SettleWithoutBlockers
<1>8. CASE SettleExhausted
  BY <1>a, <1>8 DEF SettleExhausted
<1>9. CASE RequeueBlockers
  BY <1>9, <1>b, <1>c, CursorSteps DEF RequeueBlockers
<1>10. CASE Reopen
  BY <1>a, <1>10 DEF Reopen
<1>11. CASE Closing
  BY <1>a, <1>11 DEF Closing
<1>12. CASE Summarize
  BY <1>a, <1>12 DEF Summarize
<1>13. CASE Deliver
  BY <1>a, <1>13 DEF Deliver
<1>14. CASE Delivered
  BY <1>a, <1>14 DEF Delivered
<1> QED
  BY <1>1, <1>2, <1>3, <1>4, <1>5, <1>6, <1>7, <1>8, <1>9, <1>10, <1>11, <1>12, <1>13, <1>14 DEF
     Close

(* The end of a handler leaves no finding in the cursor without a row, and  *)
(* no handler without its message.                                          *)
LEMMA EndsFiles ==
  ASSUME IInv, Tell \/ TellLost \/ Done
  PROVE  HeadStays' /\ CursorKnown'
<1> USE DEF IInv, Data, HeadStays, At, Goto, Reply, Finish, TellAnd, SetStage, Outside, disk,
        turn, world
<1>a. UNCHANGED <<rows, cursor>> => CursorKnown'
  BY DEF CursorKnown, Ids
<1>b. UNCHANGED rows /\ cursor' \in CursorOf(Ids) => CursorKnown'
  BY FilesFit DEF Ids, TypeOK
<1>c. TypeOK
  OBVIOUS
<1>1. CASE Tell \/ TellLost
  BY <1>a, <1>1 DEF Tell, TellLost
<1>2. CASE Done
  BY <1>a, <1>2 DEF Done
<1> QED
  BY <1>1, <1>2

(* A failure, or a stop of the process leaves no finding in the cursor      *)
(* without a row, and no handler without its message.                       *)
LEMMA FaultsFiles ==
  ASSUME IInv, LlmFails \/ HandlerRaises \/ DeliverPartly \/ Crash
  PROVE  HeadStays' /\ CursorKnown'
<1> USE DEF IInv, Data, HeadStays, At, Goto, Reply, Finish, TellAnd, SetStage, Outside, disk,
        turn, world
<1>a. UNCHANGED <<rows, cursor>> => CursorKnown'
  BY DEF CursorKnown, Ids
<1>b. UNCHANGED rows /\ cursor' \in CursorOf(Ids) => CursorKnown'
  BY FilesFit DEF Ids, TypeOK
<1>c. TypeOK
  OBVIOUS
<1>1. CASE LlmFails
  BY <1>a, <1>1 DEF LlmFails, InChain, CallsLlm, Happens, FailStage
<1>2. CASE HandlerRaises
  BY <1>a, <1>2 DEF HandlerRaises, CallsLlm, Happens, FetchesMaterial, FailStage
<1>3. CASE DeliverPartly
  BY <1>a, <1>3 DEF DeliverPartly, Happens
<1>4. CASE Crash
  BY <1>a, <1>4 DEF Crash
<1> QED
  BY <1>1, <1>2, <1>3, <1>4

-----------------------------------------------------------------------------
(* Every step keeps the invariant *)

(* Nothing is known of the material and the verdict of a session that there *)
(* has not been.                                                            *)
LEMMA InitInv ==
  ASSUME Init
  PROVE  IInv
<1>1. TypeOK
  <2>1. /\ sess \in Session
        /\ pc = "idle" /\ <<>> \in Seq(Row) /\ <<>> \in Seq(Message)
    BY EmptySeq DEF Init, NoSession, Session, Stage
  <2>2. cursor \in CursorOf(Nat \ {0})
    BY EmptySeq DEF Init, EmptyCursor, CursorOf
  <2>3. prompt \in Prompt /\ say \in Prompt
    BY DEF Init, Prompt, Ask, Same, None
  <2>4. crashes \in 0..MaxCrashes /\ troubles \in 0..MaxTrouble
    BY ReviewAssumption DEF Init
  <2> QED
    BY <2>1, <2>2, <2>3, <2>4 DEF Init, TypeOK
<1>2. HeadStays /\ CursorKnown
  BY EmptySeq DEF Init, HeadStays, CursorKnown, EmptyCursor, CursorOf
<1>3. StageFits /\ MaterialFits /\ VerdictFits /\ FailsFit
  BY ReviewAssumption DEF Init, NoSession, Active, AtWork, Closes, StageFits, MaterialFits,
     VerdictFits, FailsFit, MayFail
<1> QED
  BY <1>1, <1>2, <1>3 DEF IInv, Data, Control

(* A message changes the inbox only. *)
LEMMA SendInv ==
  ASSUME IInv, NEW m \in Message, Send(m)
  PROVE  IInv'
<1>1. /\ inbox' \in Seq(Message) /\ inbox' # <<>>
      /\ UNCHANGED <<disk, prompt, heard, turn, world>>
  BY AppendProperties DEF Send, IInv, Data, TypeOK
<1>2. TypeOK'
  BY <1>1 DEF IInv, Data, TypeOK, disk, turn, world
<1>3. HeadStays' /\ CursorKnown'
  BY <1>1 DEF IInv, Data, HeadStays, CursorKnown, Ids, disk
<1>4. Control'
  BY <1>1 DEF IInv, Control, StageFits, StageAtStep, MaterialFits, VerdictFits, FailsFit, MayFail,
     Active, AtWork, Closes, Accepted, GateFailed, disk, turn
<1> QED
  BY <1>2, <1>3, <1>4 DEF IInv, Data

(* A step that changes nothing keeps the invariant. *)
LEMMA StutterInv ==
  ASSUME IInv, UNCHANGED vars
  PROVE  IInv'
<1>1. UNCHANGED <<disk, inbox, prompt, heard, turn, world>>
  BY DEF vars
<1>2. TypeOK'
  BY <1>1 DEF IInv, Data, TypeOK, disk, turn, world
<1>3. HeadStays' /\ CursorKnown'
  BY <1>1 DEF IInv, Data, HeadStays, CursorKnown, Ids, disk, turn
<1>4. Control'
  BY <1>1 DEF IInv, Control, StageFits, StageAtStep, MaterialFits, VerdictFits, FailsFit, MayFail,
     Active, AtWork, Closes, Accepted, GateFailed, disk, turn
<1> QED
  BY <1>2, <1>3, <1>4 DEF IInv, Data

(* Every step of a handler keeps the invariant. *)
LEMMA HandlerInv ==
  ASSUME IInv, Handler
  PROVE  IInv'
<1>1. TypeOK'
  BY IntakeTypes, GatheringTypes, QaTypes, CloseAskedTypes, LeftoverTypes, ScanningTypes,
     CloseTypes, EndsTypes DEF Handler
<1>2. HeadStays' /\ CursorKnown'
  BY IntakeFiles, GatheringFiles, QaFiles, CloseAskedFiles, LeftoverFiles, ScanningFiles,
     CloseFiles, EndsFiles DEF Handler
<1>3. Control'
  BY IntakeControl, GatheringControl, QaControl, CloseAskedControl, LeftoverControl,
     ScanningControl, CloseControl, EndsControl DEF Handler
<1> QED
  BY <1>1, <1>2, <1>3 DEF IInv, Data

(* Every step keeps the invariant: a message that comes, the handler, a     *)
(* failure, the end of the process.                                         *)
LEMMA NextInv ==
  ASSUME IInv, [Next]_vars
  PROVE  IInv'
<1>1. CASE \E m \in Message : Send(m)
  BY <1>1, SendInv
<1>2. CASE Handler
  BY <1>2, HandlerInv
<1>3. CASE LlmFails \/ HandlerRaises \/ DeliverPartly \/ Crash
  BY <1>3, FaultsTypes, FaultsFiles, FaultsControl DEF IInv, Data
<1>4. CASE UNCHANGED vars
  BY <1>4, StutterInv
<1> QED
  BY <1>1, <1>2, <1>3, <1>4 DEF Next

(* The invariant holds in every state, whatever fails and however often the *)
(* process stops.                                                           *)
THEOREM Invariance == Spec => []IInv
<1>1. Init => IInv
  BY InitInv
<1>2. IInv /\ [Next]_vars => IInv'
  BY NextInv
<1> QED
  BY <1>1, <1>2, PTL DEF Spec

-----------------------------------------------------------------------------
(* What it says of the review *)

(* Every value is of its type. *)
THEOREM TypeCorrect == Spec => []TypeOK
<1>1. IInv => TypeOK
  BY DEF IInv, Data
<1> QED
  BY <1>1, Invariance, PTL

(* The gate fails MaxFailCount times at most, or once; whatever is          *)
(* interrupted, judged again or left over, the loop of gate and Q&A ends.   *)
THEOREM GateGivesUpSafe == Spec => []GateGivesUp
<1>1. IInv => GateGivesUp
  BY DEF IInv, Control, FailsFit, GateGivesUp
<1> QED
  BY <1>1, Invariance, PTL

(* A reopened Q&A has a finding to ask about, and the finding has a row. *)
THEOREM ReopenedSafe == Spec => []ReopenedHasFinding
<1>1. IInv => ReopenedHasFinding
  <2> SUFFICES ASSUME IInv, Active, sess.stage = "qa_active_reopened"
               PROVE  Known(cursor.current)
    BY DEF ReopenedHasFinding
  <2>1. cursor.current # None
    BY DEF IInv, Control, VerdictFits
  <2>2. cursor.current \in Ids
    BY <2>1 DEF IInv, Data, CursorKnown, CursorOf
  <2> QED
    BY <2>2 DEF Known, Ids
<1> QED
  BY <1>1, Invariance, PTL

(* normalized.md exists wherever a step reads it, but for a merge at intake.*)
THEOREM ReadsSafe == Spec => []ReadsWhatExists
<1>1. IInv => ReadsWhatExists
  BY DEF IInv, Control, MaterialFits, AtWork, ReadsWhatExists
<1> QED
  BY <1>1, Invariance, PTL

-----------------------------------------------------------------------------
(* A handler comes to its end *)

(* How many steps a handler has left at each of its places, at most. *)
Left ==
  [idle |-> 0, done |-> 1, tell |-> 2, delivered |-> 2,
   ingested |-> 3, propose |-> 3, proposeClose |-> 3, emit |-> 3, deliver |-> 3,
   ingest |-> 4, advance |-> 4, moreAdvance |-> 4, backToQa |-> 4, scanned |-> 4,
   reopen |-> 4, summary |-> 4, scanB |-> 5, closing |-> 5, scan |-> 6, settle |-> 6,
   rescan |-> 7, judge |-> 7, reset |-> 8, gate |-> 8, merged |-> 9, merge |-> 10, qa |-> 11]

(* No handler of dispatcher.py turns back: but for the messages that come   *)
(* in meanwhile, every step of one brings it nearer to its end, a failure   *)
(* and the end of the process included.                                     *)
HandlerAdvances ==
  [][(\E m \in Message : Send(m)) \/ pc = "idle" \/ Left[pc'] < Left[pc]]_vars

(* What is left is a number, and none is only at rest. *)
LEMMA LeftType ==
  ASSUME TypeOK
  PROVE  Left[pc] \in 0..11 /\ (Left[pc] = 0 <=> pc = "idle")
<1> SUFFICES pc \in DOMAIN Left
  BY DEF Left
<1> QED
  BY DEF TypeOK, Left

(* The Q&A, and what it starts. *)
LEMMA QaAdvances ==
  ASSUME pc # "idle", Qa \/ CloseAsked
  PROVE  Left[pc'] < Left[pc]
<1> USE DEF Goto, Reply, Finish, TellAnd, At, Left
<1>1. (~ EnterQa /\ ~ CloseAsked) \/ BackToQa
  BY DEF EnterQa, CloseAsked, ConfirmClose, MoreAtClose, AskAgain
<1>2. CASE SupplementInQa \/ ResetCursor \/ Rescan \/ SupplementRejected
  BY <1>2 DEF SupplementInQa, ResetCursor, Rescan, SupplementRejected
<1>3. CASE More \/ MoreAdvance \/ AskToClose \/ ForceClose
  BY <1>3 DEF More, MoreAdvance, AskToClose, ForceClose
<1>4. CASE Answer \/ AdvanceCursor \/ Question \/ ProposeClose \/ EmitNothing \/ EmitBlank \/ Emit
  BY <1>4 DEF Answer, AdvanceCursor, Question, ProposeClose, EmitNothing, EmitBlank, Emit
<1>5. CASE BackToQa
  BY <1>5 DEF BackToQa
<1> QED
  BY <1>1, <1>2, <1>3, <1>4, <1>5 DEF Qa, EnterQa, CloseAsked

(* The other handlers, up to the close chain, and how each one ends. *)
LEMMA OthersAdvance ==
  ASSUME pc # "idle", Intake \/ Gathering \/ Leftover \/ Scanning \/ Tell \/ TellLost \/ Done
  PROVE  Left[pc'] < Left[pc]
<1> USE DEF Goto, Reply, Finish, TellAnd, At, Left
<1>1. CASE Intake
  BY <1>1 DEF Intake, Open, Ingest, IngestRefused, IngestFails, Ingested
<1>2. CASE Gathering
  BY <1>2 DEF Gathering, CancelAtGate, StartReview, SupplementAtGate, Propose, Reingest,
     ChooseTopic, TopicUnclear
<1>3. ~ Leftover
  BY DEF Leftover, ResumeBusy, SayBusy, CloseAtIntake, WaitAtIntake
<1>4. CASE Scanning
  BY <1>4 DEF Scanning, ScanPillars, ScanResponder, Scanned
<1>5. CASE Tell \/ TellLost \/ Done
  BY <1>5 DEF Tell, TellLost, Done
<1> QED
  BY <1>1, <1>2, <1>3, <1>4, <1>5

(* The close chain ends, or goes back to the Q&A with one finding to show.  *)
LEMMA CloseAdvances ==
  ASSUME Close
  PROVE  Left[pc'] < Left[pc]
<1> USE DEF Goto, Finish, TellAnd, InChain, Left
<1>1. CASE Merge \/ MergeUnreadable \/ Merged \/ Gate \/ Judge
  BY <1>1 DEF Merge, MergeUnreadable, Merged, Gate, Judge
<1>2. CASE Settle \/ SettleWithoutBlockers \/ SettleExhausted \/ RequeueBlockers \/ Reopen
  BY <1>2 DEF Settle, SettleWithoutBlockers, SettleExhausted, RequeueBlockers, Reopen
<1>3. CASE Closing \/ Summarize \/ Deliver \/ Delivered
  BY <1>3 DEF Closing, Summarize, Deliver, Delivered
<1> QED
  BY <1>1, <1>2, <1>3 DEF Close

(* What goes wrong takes a handler on, or to its end. *)
LEMMA FaultsAdvance ==
  ASSUME pc # "idle", LlmFails \/ HandlerRaises \/ DeliverPartly \/ Crash, TypeOK
  PROVE  Left[pc'] < Left[pc]
<1> USE DEF Goto, Finish, TellAnd, At, Left
<1>1. CASE LlmFails
  <2>1. /\ pc \in DOMAIN FailStage
        /\ pc' = CASE pc = "merge" -> InChain("gate")
                   [] pc \in {"gate", "judge"} -> InChain("settle")
                   [] OTHER -> "done"
    BY <1>1 DEF LlmFails, CallsLlm
  <2> QED
    BY <2>1 DEF FailStage, InChain
<1>2. CASE HandlerRaises
  <2>1. pc \in DOMAIN FailStage \/ pc = "qa"
    BY <1>2 DEF HandlerRaises, CallsLlm, FetchesMaterial
  <2> QED
    BY <1>2, <2>1 DEF HandlerRaises, FailStage
<1>3. CASE DeliverPartly
  BY <1>3 DEF DeliverPartly
<1>4. CASE Crash
  <2>1. Left[pc] > 0
    BY LeftType
  <2> QED
    BY <1>4, <2>1 DEF Crash
<1> QED
  BY <1>1, <1>2, <1>3, <1>4

(* No handler turns back, whatever fails: with every message it takes       *)
(* twelve steps at most, the first one included, to its end.                *)
THEOREM AdvancesSafe == Spec => HandlerAdvances
<1>1. TypeOK /\ [Next]_vars =>
        [(\E m \in Message : Send(m)) \/ pc = "idle" \/ Left[pc'] < Left[pc]]_vars
  <2> SUFFICES ASSUME TypeOK, Next, pc # "idle", ~ (\E m \in Message : Send(m))
               PROVE  Left[pc'] < Left[pc]
    OBVIOUS
  <2> QED
    BY QaAdvances, OthersAdvance, CloseAdvances, FaultsAdvance DEF Next, Handler
<1> QED
  BY <1>1, TypeCorrect, PTL DEF Spec, HandlerAdvances

-----------------------------------------------------------------------------
(* The session takes its messages from an inbox: every step is one of       *)
(* Inbox, or nothing in it.                                                 *)
Mail == INSTANCE Inbox WITH
          Requester <- {"requester"},
          unread    <- [r \in {"requester"} |-> inbox],
          serving   <- IF pc = "idle" THEN {} ELSE {"requester"}

(* A step that begins with the first message of the inbox goes on with it,  *)
(* and the message stays.                                                   *)
Takes == inbox' = inbox /\ (pc = "idle" => inbox # <<>> /\ pc' # "idle")

(* Steps of the handlers that gather, ask and scan. *)
LEMMA HandlersTake ==
  ASSUME Intake \/ Gathering \/ Leftover \/ Scanning \/ Tell \/ TellLost
  PROVE  Takes
<1> USE DEF Takes, Goto, Reply, Finish, TellAnd, At, Outside
<1>1. CASE Intake
  BY <1>1 DEF Intake, Open, Ingest, IngestRefused, IngestFails, Ingested
<1>2. CASE Gathering
  BY <1>2 DEF Gathering, CancelAtGate, StartReview, SupplementAtGate, Propose, Reingest,
     ChooseTopic, TopicUnclear
<1>3. CASE Leftover
  <2>1. Restart[sess.stage] # "idle" \/ sess.stage \notin Busy
    BY DEF Restart, Busy
  <2> QED
    BY <1>3, <2>1 DEF Leftover, ResumeBusy, SayBusy, CloseAtIntake, WaitAtIntake
<1>4. CASE Scanning
  BY <1>4 DEF Scanning, ScanPillars, ScanResponder, Scanned
<1>5. CASE Tell \/ TellLost
  BY <1>5 DEF Tell, TellLost
<1> QED
  BY <1>1, <1>2, <1>3, <1>4, <1>5

(* Steps of the Q&A and of the close chain. *)
LEMMA ReviewTakes ==
  ASSUME Qa \/ CloseAsked \/ Close
  PROVE  Takes
<1> USE DEF Takes, Goto, Reply, Finish, TellAnd, At, Outside
<1>1. CASE Qa
  <2>1. CASE EnterQa \/ SupplementInQa \/ ResetCursor \/ Rescan \/ SupplementRejected
    BY <2>1 DEF EnterQa, SupplementInQa, ResetCursor, Rescan, SupplementRejected
  <2>2. CASE More \/ MoreAdvance \/ AskToClose \/ ForceClose
    BY <2>2 DEF More, MoreAdvance, AskToClose, ForceClose
  <2>3. CASE Answer \/ AdvanceCursor \/ Question \/ ProposeClose \/ EmitNothing \/ EmitBlank \/ Emit
    BY <2>3 DEF Answer, AdvanceCursor, Question, ProposeClose, EmitNothing, EmitBlank, Emit
  <2> QED
    BY <1>1, <2>1, <2>2, <2>3 DEF Qa
<1>2. CASE CloseAsked
  BY <1>2 DEF CloseAsked, ConfirmClose, MoreAtClose, BackToQa, AskAgain
<1>3. CASE Close
  <2>1. CASE Merge \/ MergeUnreadable \/ Merged \/ Gate \/ Judge
    BY <2>1 DEF Merge, MergeUnreadable, Merged, Gate, Judge
  <2>2. CASE Settle \/ SettleWithoutBlockers \/ SettleExhausted \/ RequeueBlockers \/ Reopen
    BY <2>2 DEF Settle, SettleWithoutBlockers, SettleExhausted, RequeueBlockers, Reopen
  <2>3. CASE Closing \/ Summarize \/ Deliver \/ Delivered
    BY <2>3 DEF Closing, Summarize, Deliver, Delivered
  <2> QED
    BY <1>3, <2>1, <2>2, <2>3 DEF Close
<1> QED
  BY <1>1, <1>2, <1>3

(* What goes wrong; a stop of the process comes to a handler at work.       *)
LEMMA FaultsTake ==
  ASSUME LlmFails \/ HandlerRaises \/ DeliverPartly \/ Crash
  PROVE  Takes
<1> USE DEF Takes, Finish, Goto, TellAnd
<1>1. CASE LlmFails
  BY <1>1 DEF LlmFails, CallsLlm, FailStage
<1>2. CASE HandlerRaises
  BY <1>2 DEF HandlerRaises, CallsLlm, FailStage, FetchesMaterial, At
<1>3. CASE DeliverPartly \/ Crash
  BY <1>3 DEF DeliverPartly, Crash
<1> QED
  BY <1>1, <1>2, <1>3

(* The session begins with the first message that waits, is done with it at *)
(* the end of its handler, whatever failed, and finds it where it was when  *)
(* the process stopped in between.                                          *)
THEOREM InboxRefined == Spec => Mail!Spec
<1> DEFINE Sv == IF pc = "idle" THEN {} ELSE {"requester"}
           Ur == [r \in {"requester"} |-> inbox]
<1>1. Init => Mail!Init
  BY DEF Init, Mail!Init
<1>2. TypeOK /\ [Next]_vars => [Mail!Next]_(Mail!vars)
  <2> SUFFICES ASSUME TypeOK, [Next]_vars PROVE [Mail!Next]_(Mail!vars)
    OBVIOUS
  <2>1. CASE \E m \in Message : Send(m)
    <3>1. PICK m \in Message : Send(m)
      BY <2>1
    <3>2. inbox' = Append(inbox, m) /\ pc' = pc
      BY <3>1 DEF Send, turn
    <3>3. Ur' = [Ur EXCEPT !["requester"] = Append(@, m)] /\ Sv' = Sv
      BY <3>2
    <3>4. Mail!Arrive("requester", m)
      BY <3>3 DEF Mail!Arrive
    <3> QED
      BY <3>4 DEF Mail!Next
  <2>2. CASE Done
    <3>1. Sv = {"requester"} /\ Sv' = {} /\ inbox' = Tail(inbox)
      BY <2>2 DEF Done
    <3>2. Ur' = [Ur EXCEPT !["requester"] = Tail(@)]
      BY <3>1
    <3>3. Mail!End("requester")
      BY <3>1, <3>2 DEF Mail!End
    <3> QED
      BY <3>3 DEF Mail!Next
  <2>3. CASE Takes
    <3>1. Ur' = Ur
      BY <2>3 DEF Takes
    <3>2. CASE pc = "idle"
      <4>1. Sv = {} /\ Sv' = {"requester"} /\ Ur["requester"] # <<>>
        BY <2>3, <3>2 DEF Takes
      <4>2. Mail!Begin("requester")
        BY <3>1, <4>1 DEF Mail!Begin
      <4> QED
        BY <4>2 DEF Mail!Next
    <3>3. CASE pc # "idle" /\ pc' = "idle"
      <4>1. Mail!Break
        BY <3>1, <3>3 DEF Mail!Break
      <4> QED
        BY <4>1 DEF Mail!Next
    <3>4. CASE pc # "idle" /\ pc' # "idle"
      BY <3>1, <3>4 DEF Mail!vars
    <3> QED
      BY <3>2, <3>3, <3>4
  <2>4. CASE UNCHANGED vars
    <3>1. Ur' = Ur /\ Sv' = Sv
      BY <2>4 DEF vars, turn
    <3> QED
      BY <3>1 DEF Mail!vars
  <2> QED
    BY <2>1, <2>2, <2>3, <2>4, HandlersTake, ReviewTakes, FaultsTake DEF Next, Handler
<1> QED
  BY <1>1, <1>2, TypeCorrect, PTL DEF Spec, Mail!Spec

-----------------------------------------------------------------------------
(* Who moves the session *)

(* Who may change the session: a message that opens a new one, the handler  *)
(* of a live one, and a handler at work.  It is closed by one step only.    *)
LEMMA SessionMoves ==
  ASSUME TypeOK, Next
  PROVE  /\ sess' = sess \/ Open \/ Active \/ AtWork
         /\ sess'.status = "closed" => sess.status = "closed" \/ pc = "delivered"
<1> USE DEF TypeOK, Session, Active, At, AtWork, Goto, Reply, Finish, TellAnd, SetStage, Outside,
        disk, turn, world
<1>1. CASE \E m \in Message : Send(m)
  BY <1>1 DEF Send
<1>2. CASE Intake
  <2>1. ASSUME Open PROVE sess'.status = "active"
    BY <2>1 DEF Open
  <2> QED
    BY <1>2, <2>1 DEF Intake, Ingest, IngestRefused, IngestFails, Ingested
<1>3. CASE Gathering
  BY <1>3 DEF Gathering, CancelAtGate, StartReview, SupplementAtGate, Propose, Reingest,
     ChooseTopic, TopicUnclear
<1>4. CASE Qa
  BY <1>4 DEF Qa, EnterQa, SupplementInQa, ResetCursor, Rescan, SupplementRejected, More,
     MoreAdvance, AskToClose, ForceClose, Answer, AdvanceCursor, Question, ProposeClose,
     EmitNothing, EmitBlank, Emit
<1>5. CASE CloseAsked
  BY <1>5 DEF CloseAsked, ConfirmClose, MoreAtClose, BackToQa, AskAgain
<1>6. CASE Leftover
  BY <1>6 DEF Leftover, ResumeBusy, SayBusy, CloseAtIntake, WaitAtIntake
<1>7. CASE Scanning
  BY <1>7 DEF Scanning, ScanPillars, ScanResponder, Scanned
<1>8. CASE Close
  BY <1>8 DEF Close, Merge, MergeUnreadable, Merged, Gate, Judge, Settle, SettleWithoutBlockers,
     SettleExhausted, RequeueBlockers, Reopen, Closing, Summarize, Deliver, Delivered
<1>9. CASE Tell \/ TellLost \/ Done
  BY <1>9 DEF Tell, TellLost, Done
<1>10. CASE LlmFails \/ HandlerRaises \/ DeliverPartly \/ Crash
  BY <1>10 DEF LlmFails, HandlerRaises, DeliverPartly, Crash, CallsLlm, FailStage
<1> QED
  BY <1>1, <1>2, <1>3, <1>4, <1>5, <1>6, <1>7, <1>8, <1>9, <1>10 DEF Next, Handler

(* A closed or cancelled session is never touched again: no handler is left *)
(* at work on it, and none is started.                                      *)
THEOREM EndSafe == Spec => EndIsFinal
<1> DEFINE Final == sess.status \in {"closed", "cancelled"} =>
                      sess' = sess \/ (sess'.no = sess.no + 1 /\ sess'.stage = "intake")
<1>1. IInv /\ [Next]_vars => Final
  <2> SUFFICES ASSUME IInv, [Next]_vars, sess.status \in {"closed", "cancelled"}
               PROVE  sess' = sess \/ (sess'.no = sess.no + 1 /\ sess'.stage = "intake")
    OBVIOUS
  <2>1. ~Active /\ ~AtWork
    BY DEF IInv, Control, StageFits, Active
  <2>2. CASE Next
    <3>1. sess' = sess \/ Open
      BY <2>1, <2>2, SessionMoves DEF IInv, Data
    <3>2. ASSUME Open PROVE sess'.no = sess.no + 1 /\ sess'.stage = "intake"
      BY <3>2 DEF Open
    <3> QED
      BY <3>1, <3>2
  <2>3. CASE UNCHANGED vars
    BY <2>3 DEF vars, disk
  <2> QED
    BY <2>2, <2>3
<1>2. IInv /\ [Next]_vars => [Final]_vars
  BY <1>1
<1> QED
  BY <1>2, Invariance, PTL DEF Spec, EndIsFinal

(* A session that closes was accepted by the gate or forced, whatever was   *)
(* interrupted and resumed on the way; one that had failed closes without   *)
(* any verdict too, or by force after a gate has refused it.                *)
THEOREM VerdictSafe == Spec => ClosedUnderVerdict
<1> DEFINE Judged == (sess.status # "closed" /\ sess'.status = "closed") =>
                       \/ sess.verdict \in {"READY", "FORCED_PARTIAL"}
                       \/ sess.status = "failed" /\ sess.verdict = "none"
                       \/ sess.status = "failed" /\ sess.verdict = "FAIL" /\ chain = "forced"
<1>1. IInv /\ [Next]_vars => [Judged]_vars
  <2> SUFFICES ASSUME IInv, Next, sess.status # "closed", sess'.status = "closed" PROVE Judged
    OBVIOUS
  <2>1. pc = "delivered"
    BY SessionMoves DEF IInv, Data
  <2>2. Active \/ sess.status = "failed"
    BY <2>1 DEF IInv, Control, StageFits, AtWork
  <2> QED
    BY <2>1, <2>2 DEF IInv, Control, VerdictFits, Accepted, Active
<1> QED
  BY <1>1, Invariance, PTL DEF Spec, ClosedUnderVerdict

-----------------------------------------------------------------------------
(* The places of the cursor *)

(* The steps that change the cursor; `moreAdvance' is left by its own step  *)
(* or by a stop.                                                            *)
LEMMA CursorMoves ==
  ASSUME Next
  PROVE  \/ cursor' = cursor /\ (pc = "moreAdvance" <=> pc' = "moreAdvance")
         \/ Open \/ ResetCursor \/ More \/ MoreAdvance \/ AdvanceCursor \/ MoreAtClose
         \/ ScanResponder \/ RequeueBlockers \/ Crash
<1> USE DEF At, Goto, Reply, Finish, TellAnd, SetStage, Outside, disk, turn, world
<1>1. CASE \E m \in Message : Send(m)
  BY <1>1 DEF Send
<1>2. CASE Intake
  BY <1>2 DEF Intake, Ingest, IngestRefused, IngestFails, Ingested
<1>3. CASE Gathering
  BY <1>3 DEF Gathering, CancelAtGate, StartReview, SupplementAtGate, Propose, Reingest,
     ChooseTopic, TopicUnclear
<1>4. CASE Qa
  BY <1>4 DEF Qa, EnterQa, SupplementInQa, Rescan, SupplementRejected, AskToClose, ForceClose,
     Answer, Question, ProposeClose, EmitNothing, EmitBlank, Emit
<1>5. CASE CloseAsked
  BY <1>5 DEF CloseAsked, ConfirmClose, BackToQa, AskAgain
<1>6. CASE Leftover
  BY <1>6 DEF Leftover, ResumeBusy, SayBusy, CloseAtIntake, WaitAtIntake, Busy, Restart
<1>7. CASE Scanning
  BY <1>7 DEF Scanning, ScanPillars, Scanned
<1>8. CASE Close
  BY <1>8 DEF Close, Merge, MergeUnreadable, Merged, Gate, Judge, Settle, SettleWithoutBlockers,
     SettleExhausted, Reopen, Closing, Summarize, Deliver, Delivered, InChain
<1>9. CASE Tell \/ TellLost \/ Done
  BY <1>9 DEF Tell, TellLost, Done
<1>10. CASE LlmFails \/ HandlerRaises \/ DeliverPartly
  BY <1>10 DEF LlmFails, HandlerRaises, DeliverPartly, CallsLlm, FetchesMaterial, FailStage,
     InChain
<1> QED
  BY <1>1, <1>2, <1>3, <1>4, <1>5, <1>6, <1>7, <1>8, <1>9, <1>10 DEF Next, Handler

(* A handler counts no stop. *)
LEMMA HandlerCounts ==
  ASSUME Handler
  PROVE  crashes' = crashes
<1> USE DEF Outside, world
<1>1. CASE Intake
  BY <1>1 DEF Intake, Open, Ingest, IngestRefused, IngestFails, Ingested
<1>2. CASE Gathering
  BY <1>2 DEF Gathering, CancelAtGate, StartReview, SupplementAtGate, Propose, Reingest,
     ChooseTopic, TopicUnclear
<1>3. CASE Qa
  BY <1>3 DEF Qa, EnterQa, SupplementInQa, ResetCursor, Rescan, SupplementRejected, More,
     MoreAdvance, AskToClose, ForceClose, Answer, AdvanceCursor, Question, ProposeClose,
     EmitNothing, EmitBlank, Emit
<1>4. CASE CloseAsked
  BY <1>4 DEF CloseAsked, ConfirmClose, MoreAtClose, BackToQa, AskAgain
<1>5. CASE Leftover
  BY <1>5 DEF Leftover, ResumeBusy, SayBusy, CloseAtIntake, WaitAtIntake
<1>6. CASE Scanning
  BY <1>6 DEF Scanning, ScanPillars, ScanResponder, Scanned
<1>7. CASE Close
  BY <1>7 DEF Close, Merge, MergeUnreadable, Merged, Gate, Judge, Settle, SettleWithoutBlockers,
     SettleExhausted, RequeueBlockers, Reopen, Closing, Summarize, Deliver, Delivered
<1>8. CASE Tell \/ TellLost \/ Done
  BY <1>8 DEF Tell, TellLost, Done
<1> QED
  BY <1>1, <1>2, <1>3, <1>4, <1>5, <1>6, <1>7, <1>8 DEF Handler

(* The steps that lead into the Q&A, or come to places of interest on the   *)
(* way; the others leave the Q&A or stay in it, with the cursor as it is.   *)
LEMMA QaMoves ==
  ASSUME IInv, Handler, pc # "moreAdvance"
  PROVE  \/ /\ cursor' = cursor
            /\ pc' \notin {"moreAdvance", "backToQa", "scanned"}
            /\ InQa' => InQa
         \/ Open \/ ResetCursor \/ More \/ AdvanceCursor \/ MoreAtClose \/ BackToQa
         \/ ScanResponder \/ Scanned \/ RequeueBlockers \/ Reopen
<1> USE DEF IInv, Data, TypeOK, Session, Control, StageFits, StageAtStep, AtWork, Closes, InQa,
        Active, At, Goto, Reply, Finish, TellAnd, SetStage, Outside, disk
<1>1. CASE Intake
  BY <1>1 DEF Intake, Ingest, IngestRefused, IngestFails, Ingested
<1>2. CASE Gathering
  BY <1>2 DEF Gathering, CancelAtGate, StartReview, SupplementAtGate, Propose, Reingest,
     ChooseTopic, TopicUnclear
<1>3. CASE Qa
  BY <1>3 DEF Qa, EnterQa, SupplementInQa, Rescan, SupplementRejected, MoreAdvance, AskToClose,
     ForceClose, Answer, Question, ProposeClose, EmitNothing, EmitBlank, Emit
<1>4. CASE CloseAsked
  BY <1>4 DEF CloseAsked, ConfirmClose, AskAgain
<1>5. CASE Leftover
  BY <1>5 DEF Leftover, ResumeBusy, SayBusy, CloseAtIntake, WaitAtIntake, Busy, Restart
<1>6. CASE Scanning
  BY <1>6 DEF Scanning, ScanPillars
<1>7. CASE Close
  <2>1. CASE Merge \/ MergeUnreadable \/ Merged \/ Gate
    BY <2>1 DEF Merge, MergeUnreadable, Merged, Gate, InChain
  <2>2. CASE Judge \/ Settle \/ SettleWithoutBlockers \/ SettleExhausted
    BY <2>2 DEF Judge, Settle, SettleWithoutBlockers, SettleExhausted, InChain
  <2>3. CASE Closing \/ Summarize \/ Deliver \/ Delivered
    BY <2>3 DEF Closing, Summarize, Deliver, Delivered
  <2> QED
    BY <1>7, <2>1, <2>2, <2>3 DEF Close
<1>8. CASE Tell \/ TellLost \/ Done
  BY <1>8 DEF Tell, TellLost, Done
<1> QED
  BY <1>1, <1>2, <1>3, <1>4, <1>5, <1>6, <1>7, <1>8 DEF Handler

(* What goes wrong before the first stop ends the session, leaves it        *)
(* closing, or leaves the Q&A as it was.                                    *)
LEMMA SpentInTrouble ==
  ASSUME PlaceInv, LlmFails \/ HandlerRaises \/ DeliverPartly \/ Crash
  PROVE  Spent'
<1> USE DEF PlaceInv, IInv, Data, TypeOK, Session, Spent, InQa, Active
<1>1. CASE LlmFails
  <2>1. /\ cursor' = cursor /\ crashes' = crashes
        /\ pc' \notin {"moreAdvance", "backToQa", "scanned"}
        /\ sess'.status = "failed"
    BY <1>1 DEF LlmFails, CallsLlm, FailStage, TellAnd, InChain
  <2> QED
    BY <2>1
<1>2. CASE HandlerRaises
  <2>1. /\ UNCHANGED <<sess, cursor, crashes>> /\ pc' = "done"
        /\ pc # "proposeClose"
    BY <1>2 DEF HandlerRaises, CallsLlm, FetchesMaterial, FailStage, At, Finish, Goto, disk
  <2> QED
    BY <2>1
<1>3. CASE DeliverPartly
  BY <1>3 DEF DeliverPartly, SetStage, TellAnd
<1>4. CASE Crash
  BY <1>4 DEF Crash
<1> QED
  BY <1>1, <1>2, <1>3, <1>4

(* Nothing is deferred behind an empty place, until the first stop.         *)
LEMMA SpentKept ==
  ASSUME PlaceInv, [Next]_vars
  PROVE  Spent'
<1>1. CASE LlmFails \/ HandlerRaises \/ DeliverPartly \/ Crash
  BY <1>1, SpentInTrouble
<1>2. CASE (\E m \in Message : Send(m)) \/ UNCHANGED vars
  BY <1>2 DEF Send, vars, disk, turn, world, PlaceInv, Spent, InQa, Active
<1>3. CASE Handler
  <2> SUFFICES ASSUME crashes = 0
               PROVE  /\ pc' # "moreAdvance"
                      /\ pc' = "backToQa" => cursor'.current # None
                      /\ InQa' \/ pc' = "scanned" =>
                           (cursor'.current = None => cursor'.deferred = <<>>)
    BY <1>3, HandlerCounts DEF Spent
  <2>1. /\ pc # "moreAdvance"
        /\ pc = "backToQa" => cursor.current # None
        /\ InQa \/ pc = "scanned" => (cursor.current = None => cursor.deferred = <<>>)
    BY DEF PlaceInv, Spent
  <2> USE DEF PlaceInv, IInv, Data, TypeOK, Session, Control, StageFits, StageAtStep, AtWork,
          Closes, VerdictFits, InQa, Active, At, Goto, TellAnd, SetStage
  <2>2. CASE Open
    BY <2>2, CursorPlaces DEF Open
  <2>3. CASE ResetCursor
    BY <2>3, CursorPlaces DEF ResetCursor
  <2>4. CASE More
    BY <2>1, <2>4, CursorPlaces DEF More
  <2>5. CASE AdvanceCursor
    BY <2>5, CursorPlaces DEF AdvanceCursor, InPlace
  <2>6. CASE MoreAtClose
    BY <2>6, CursorPlaces DEF MoreAtClose
  <2>7. CASE BackToQa
    BY <2>1, <2>7 DEF BackToQa
  <2>8. CASE ScanResponder
    <3>1. PICK f \in Scans : rows' = rows \o NewRows(f) /\ cursor' = ScanCursor(f)
      BY <2>8 DEF ScanResponder
    <3>2. IsScan(f)
      BY <3>1, ScansAre
    <3> QED
      BY <2>8, <3>1, <3>2, ScanCursorType DEF ScanResponder
  <2>9. CASE Scanned
    BY <2>1, <2>9 DEF Scanned
  <2>10. CASE RequeueBlockers
    BY <2>10 DEF RequeueBlockers
  <2>11. CASE Reopen
    BY <2>11 DEF Reopen
  <2> QED
    BY <1>3, <2>1, <2>2, <2>3, <2>4, <2>5, <2>6, <2>7, <2>8, <2>9, <2>10, <2>11, QaMoves
<1> QED
  BY <1>1, <1>2, <1>3 DEF Next

(* If the process stops once at most, it does not stop between the two      *)
(* steps of `more': before a stop there is no second step.                  *)
LEMMA PlaceKept ==
  ASSUME StopsOnce, PlaceInv, [Next]_vars
  PROVE  InPlace'
<1> USE DEF PlaceInv, IInv, Data, InPlace, Goto, TellAnd
<1>1. CASE cursor' = cursor /\ (pc = "moreAdvance" <=> pc' = "moreAdvance")
  BY <1>1
<1>2. CASE Open
  BY <1>2, CursorPlaces DEF Open
<1>3. CASE ResetCursor
  BY <1>3, CursorPlaces DEF ResetCursor
<1>4. CASE More
  BY <1>4, CursorPlaces DEF More
<1>5. CASE MoreAdvance
  BY <1>5, CursorPlaces DEF MoreAdvance
<1>6. CASE AdvanceCursor
  BY <1>6, CursorPlaces DEF AdvanceCursor
<1>7. CASE MoreAtClose
  BY <1>7, CursorPlaces DEF MoreAtClose
<1>8. CASE ScanResponder
  <2>1. PICK f \in Scans : rows' = rows \o NewRows(f) /\ cursor' = ScanCursor(f)
    BY <1>8 DEF ScanResponder
  <2>2. IsScan(f)
    BY <2>1, ScansAre
  <2> QED
    BY <2>1, <2>2, ScanCursorType
<1>9. CASE RequeueBlockers
  BY <1>9, CursorSteps DEF RequeueBlockers
<1>10. CASE Crash
  <2>1. crashes \in 0..MaxCrashes /\ crashes < MaxCrashes
    BY <1>10 DEF TypeOK, Crash
  <2>2. crashes = 0
    BY <2>1, ReviewAssumption DEF StopsOnce
  <2> QED
    BY <1>10, <2>2 DEF Crash, Spent, disk
<1> QED
  BY <1>1, <1>2, <1>3, <1>4, <1>5, <1>6, <1>7, <1>8, <1>9, <1>10, CursorMoves DEF vars, disk, turn

(* Nothing is behind an empty place, whatever fails, in a process that      *)
(* stops once at most.                                                      *)
THEOREM PlaceInvariance ==
  ASSUME StopsOnce
  PROVE  Spec => []PlaceInv
<1>1. Init => PlaceInv
  <2> SUFFICES ASSUME Init PROVE PlaceInv
    OBVIOUS
  <2> QED
    BY InitInv DEF Init, NoSession, EmptyCursor, InPlace, Spent, InQa, Active, PlaceInv
<1>2. PlaceInv /\ [Next]_vars => PlaceInv'
  BY PlaceKept, SpentKept, NextInv DEF PlaceInv
<1> QED
  BY <1>1, <1>2, PTL DEF Spec

(* No finding waits behind an empty current place, whatever fails, in a     *)
(* process that stops once at most.                                         *)
THEOREM StrandedSafe ==
  ASSUME StopsOnce
  PROVE  Spec => []NoneStranded
<1>1. PlaceInv => NoneStranded
  BY DEF PlaceInv, InPlace, Quiet, NoneStranded
<1> QED
  BY <1>1, PlaceInvariance, PTL

-----------------------------------------------------------------------------
(* Where no handler is cut off *)

(* Opening a session and taking in its material leaves the requester with   *)
(* the prompt that the stage expects an answer to.                          *)
LEMMA IntakeCalm ==
  ASSUME HandlersEnd, QInv, Intake
  PROVE  Calm'
<1> USE DEF QInv, IInv, Data, HeadStays, Control, StageFits, StageAtStep, AtWork, Closes,
        MaterialFits, VerdictFits, Calm, Rests, AtRest, ChainWhole, PromptFits, Fits,
        Silent, Active, At, Goto, Reply, Finish, TellAnd, SetStage, Ask, AskFor, Same, Busy, None,
        Outside, disk, turn, world
<1>1. CASE Open
  BY <1>1, CursorPlaces DEF Open
<1>2. CASE Ingest
  BY <1>2 DEF Ingest
<1>3. CASE IngestRefused
  BY <1>3 DEF IngestRefused
<1>4. CASE IngestFails
  BY <1>4 DEF IngestFails
<1>5. CASE Ingested
  BY <1>5 DEF Ingested
<1> QED
  BY <1>1, <1>2, <1>3, <1>4, <1>5 DEF Intake

(* The material gate and the choice of a subject leave the requester with   *)
(* the prompt that the stage expects an answer to.                          *)
LEMMA GatheringCalm ==
  ASSUME HandlersEnd, QInv, Gathering
  PROVE  Calm'
<1> USE DEF QInv, IInv, Data, HeadStays, Control, StageFits, StageAtStep, AtWork, Closes,
        MaterialFits, VerdictFits, Calm, Rests, AtRest, ChainWhole, PromptFits, Fits,
        Silent, Active, At, Goto, Reply, Finish, TellAnd, SetStage, Ask, AskFor, Same, Busy, None,
        Outside, disk, turn, world
<1>1. CASE CancelAtGate
  BY <1>1 DEF CancelAtGate
<1>2. CASE StartReview
  BY <1>2 DEF StartReview
<1>3. CASE SupplementAtGate
  BY <1>3 DEF SupplementAtGate
<1>4. CASE Propose
  BY <1>4 DEF Propose
<1>5. CASE Reingest
  BY <1>5 DEF Reingest
<1>6. CASE ChooseTopic
  BY <1>6 DEF ChooseTopic
<1>7. CASE TopicUnclear
  BY <1>7 DEF TopicUnclear
<1> QED
  BY <1>1, <1>2, <1>3, <1>4, <1>5, <1>6, <1>7 DEF Gathering

(* The Q&A leaves the requester with the prompt that the stage expects an   *)
(* answer to.                                                               *)
LEMMA QaCalm ==
  ASSUME HandlersEnd, QInv, Qa
  PROVE  Calm'
<1> USE DEF QInv, IInv, Data, HeadStays, Control, StageFits, StageAtStep, AtWork, Closes,
        MaterialFits, VerdictFits, Calm, Rests, AtRest, ChainWhole, PromptFits, Fits,
        Silent, Active, At, Goto, Reply, Finish, TellAnd, SetStage, Ask, AskFor, Same, Busy, None,
        Outside, disk, turn, world
<1>1. CASE EnterQa
  BY <1>1 DEF EnterQa
<1>2. CASE SupplementInQa
  BY <1>2 DEF SupplementInQa
<1>3. CASE ResetCursor
  BY <1>3, CursorPlaces DEF ResetCursor
<1>4. CASE Rescan
  BY <1>4 DEF Rescan
<1>5. CASE SupplementRejected
  BY <1>5 DEF SupplementRejected
<1>6. CASE More
  BY <1>6, CursorPlaces DEF More
<1>7. CASE MoreAdvance
  BY <1>7, CursorPlaces DEF MoreAdvance
<1>8. CASE AskToClose
  BY <1>8 DEF AskToClose
<1>9. CASE ForceClose
  BY <1>9 DEF ForceClose
<1>10. CASE Answer
  BY <1>10 DEF Answer
<1>11. CASE AdvanceCursor
  BY <1>11, CursorPlaces DEF AdvanceCursor
<1>12. CASE Question
  BY <1>12 DEF Question, Intent, QaIntent, Msg
<1>13. CASE ProposeClose
  BY <1>13 DEF ProposeClose
<1>14. CASE EmitNothing
  BY <1>14, CursorPlaces DEF EmitNothing, Msg
<1>15. CASE Emit
  BY <1>15 DEF Emit
<1>16. CASE EmitBlank
  BY <1>16 DEF EmitBlank
<1> QED
  BY <1>1, <1>2, <1>3, <1>4, <1>5, <1>6, <1>7, <1>8, <1>9, <1>10, <1>11, <1>12, <1>13, <1>14,
     <1>15, <1>16 DEF Qa

(* The offer to close leaves the requester with the prompt that the stage   *)
(* expects an answer to.                                                    *)
LEMMA CloseAskedCalm ==
  ASSUME HandlersEnd, QInv, CloseAsked
  PROVE  Calm'
<1> USE DEF QInv, IInv, Data, HeadStays, Control, StageFits, StageAtStep, AtWork, Closes,
        MaterialFits, VerdictFits, Calm, Rests, AtRest, ChainWhole, PromptFits, Fits,
        Silent, Active, At, Goto, Reply, Finish, TellAnd, SetStage, Ask, AskFor, Same, Busy, None,
        Outside, disk, turn, world
<1>1. CASE ConfirmClose
  BY <1>1 DEF ConfirmClose
<1>2. CASE MoreAtClose
  BY <1>2, CursorPlaces DEF MoreAtClose
<1>3. CASE BackToQa
  BY <1>3 DEF BackToQa
<1>4. CASE AskAgain
  BY <1>4 DEF AskAgain
<1> QED
  BY <1>1, <1>2, <1>3, <1>4 DEF CloseAsked

(* A message for a session that was left in a busy stage or at intake       *)
(* leaves the requester with the prompt that the stage expects an answer    *)
(* to.                                                                      *)
LEMMA LeftoverCalm ==
  ASSUME HandlersEnd, QInv, Leftover
  PROVE  Calm'
<1> USE DEF QInv, IInv, Data, HeadStays, Control, StageFits, StageAtStep, AtWork, Closes,
        MaterialFits, VerdictFits, Calm, Rests, AtRest, ChainWhole, PromptFits, Fits,
        Silent, Active, At, Goto, Reply, Finish, TellAnd, SetStage, Ask, AskFor, Same, Busy, None,
        Outside, disk, turn, world
<1>1. CASE ResumeBusy
  BY <1>1 DEF ResumeBusy, Busy, Restart
<1>2. CASE SayBusy
  BY <1>2 DEF SayBusy, Busy
<1>3. CASE CloseAtIntake
  BY <1>3 DEF CloseAtIntake
<1>4. CASE WaitAtIntake
  BY <1>4 DEF WaitAtIntake
<1> QED
  BY <1>1, <1>2, <1>3, <1>4 DEF Leftover

(* The scan leaves the requester with the prompt that the stage expects an  *)
(* answer to.                                                               *)
LEMMA ScanningCalm ==
  ASSUME HandlersEnd, QInv, Scanning
  PROVE  Calm'
<1> USE DEF QInv, IInv, Data, HeadStays, Control, StageFits, StageAtStep, AtWork, Closes,
        MaterialFits, VerdictFits, Calm, Rests, AtRest, ChainWhole, PromptFits, Fits,
        Silent, Active, At, Goto, Reply, Finish, TellAnd, SetStage, Ask, AskFor, Same, Busy, None,
        Outside, disk, turn, world
<1>1. CASE ScanPillars
  BY <1>1 DEF ScanPillars
<1>2. CASE ScanResponder
  <2>1. PICK f \in Scans : rows' = rows \o NewRows(f) /\ cursor' = ScanCursor(f)
    BY <1>2 DEF ScanResponder
  <2>2. IsScan(f)
    BY <2>1, ScansAre
  <2>3. cursor'.current = None => cursor'.pending = <<>>
    BY <2>1, <2>2, ScanCursorType
  <2> QED
    BY <1>2, <2>3 DEF ScanResponder
<1>3. CASE Scanned
  BY <1>3 DEF Scanned
<1> QED
  BY <1>1, <1>2, <1>3 DEF Scanning

(* The close chain leaves the requester with the prompt that the stage      *)
(* expects an answer to.                                                    *)
LEMMA CloseCalm ==
  ASSUME HandlersEnd, QInv, Close
  PROVE  Calm'
<1> USE DEF QInv, IInv, Data, HeadStays, Control, StageFits, StageAtStep, AtWork, Closes,
        MaterialFits, VerdictFits, Calm, Rests, AtRest, ChainWhole, PromptFits, Fits,
        Silent, Active, At, Goto, Reply, Finish, TellAnd, SetStage, Ask, AskFor, Same, Busy, None,
        Outside, disk, turn, world
<1>1. CASE Merge
  BY <1>1 DEF Merge
<1>2. CASE MergeUnreadable
  BY <1>2 DEF MergeUnreadable
<1>3. CASE Merged
  BY <1>3 DEF Merged, InChain
<1>4. CASE Gate
  BY <1>4 DEF Gate
<1>5. CASE Judge
  <2>1. /\ pc = "judge" /\ pc' = "settle"
        /\ sess'.status = sess.status /\ (Active => sess'.stage \in {"closing", "final_gating"})
        /\ UNCHANGED <<rows, cursor, logged, material, merged, inbox, prompt, say, told, chain>>
    BY <1>5 DEF Judge, InChain, TypeOK, Session
  <2> QED
    BY <1>5, <2>1
<1>6. CASE Settle
  BY <1>6 DEF Settle
<1>7. CASE SettleWithoutBlockers
  BY <1>7 DEF SettleWithoutBlockers
<1>8. CASE SettleExhausted
  BY <1>8 DEF SettleExhausted
<1>9. CASE RequeueBlockers
  <2>1. cursor'.current # None
    BY <1>9, CursorSteps DEF RequeueBlockers
  <2> QED
    BY <1>9, <2>1 DEF RequeueBlockers
<1>10. CASE Reopen
  BY <1>10 DEF Reopen
<1>11. CASE Closing
  BY <1>11 DEF Closing
<1>12. CASE Summarize
  BY <1>12 DEF Summarize
<1>13. CASE Deliver
  BY <1>13 DEF Deliver
<1>14. CASE Delivered
  BY <1>14 DEF Delivered
<1> QED
  BY <1>1, <1>2, <1>3, <1>4, <1>5, <1>6, <1>7, <1>8, <1>9, <1>10, <1>11, <1>12, <1>13, <1>14 DEF
     Close

(* The end of a handler leaves the requester with the prompt that the stage *)
(* expects an answer to.                                                    *)
LEMMA EndsCalm ==
  ASSUME HandlersEnd, QInv, Tell \/ TellLost \/ Done
  PROVE  Calm'
<1> USE DEF QInv, IInv, Data, HeadStays, Control, StageFits, StageAtStep, AtWork, Closes,
        MaterialFits, VerdictFits, Calm, Rests, AtRest, ChainWhole, PromptFits, Fits,
        Silent, Active, At, Goto, Reply, Finish, TellAnd, SetStage, Ask, AskFor, Same, Busy, None,
        Outside, disk, turn, world
<1>1. CASE Tell \/ TellLost
  BY <1>1 DEF Tell, TellLost
<1>2. CASE Done
  BY <1>2 DEF Done
<1> QED
  BY <1>1, <1>2

(* An LLM that fails for good ends the session, or lets the close chain go  *)
(* on with it; a delivery that is not complete leaves it closing.  Both     *)
(* tell the requester.                                                      *)
LEMMA FaultsCalm ==
  ASSUME HandlersEnd, QInv, LlmFails \/ DeliverPartly
  PROVE  Calm'
<1> USE DEF QInv, IInv, Data, HeadStays, Control, StageFits, StageAtStep, AtWork, Closes,
        MaterialFits, VerdictFits, Calm, Rests, AtRest, ChainWhole, PromptFits, Fits,
        Silent, Active, TellAnd, SetStage, Ask, AskFor, Same, Busy, None, Happens
<1>1. CASE LlmFails
  <2>1. ~Active'
    BY <1>1 DEF LlmFails, TypeOK, Session
  <2>2. pc \in {"propose", "scan", "scanB", "emit", "merge", "gate", "judge", "summary"}
    BY <1>1 DEF LlmFails, CallsLlm, FailStage
  <2>3. /\ told' /\ UNCHANGED <<chain, material>>
        /\ pc' = "done" \/ (pc' \in {"gate", "settle"} /\ Closes /\ chain # "no")
    BY <1>1, <2>2 DEF LlmFails, InChain
  <2> QED
    BY <2>1, <2>3
<1>2. CASE DeliverPartly
  BY <1>2 DEF DeliverPartly
<1> QED
  BY <1>1, <1>2

(* Nothing is asked and nothing is at work at the beginning. *)
LEMMA InitQInv ==
  ASSUME Init
  PROVE  QInv
<1>1. Calm
  BY DEF Init, NoSession, EmptyCursor, Active, AtWork, Closes, Calm, Rests, ChainWhole,
     PromptFits, Silent
<1> QED
  BY <1>1, InitInv DEF QInv

(* A message in the inbox changes nothing for the one that is handled.      *)
LEMMA SendCalm ==
  ASSUME QInv, NEW m \in Message, Send(m)
  PROVE  Calm'
<1>1. inbox' = Append(inbox, m) /\ UNCHANGED <<disk, prompt, heard, turn>>
  BY DEF Send
<1>2. pc # "idle" => Msg' = Msg
  <2>1. inbox \in Seq(Message) /\ (pc # "idle" => inbox # <<>>)
    BY DEF QInv, IInv, Data, TypeOK, HeadStays
  <2> QED
    BY <1>1, <2>1 DEF Msg
<1> QED
  BY <1>1, <1>2 DEF QInv, Calm, Rests, AtRest, ChainWhole, PromptFits, Fits, Silent, Active,
     AtWork, Closes, disk, turn

(* A step that changes nothing keeps what holds while handlers end.         *)
LEMMA StutterCalm ==
  ASSUME QInv, UNCHANGED vars
  PROVE  Calm'
BY DEF QInv, Calm, Rests, AtRest, ChainWhole, PromptFits, Fits, Silent, Msg, Active, AtWork,
   Closes, vars, disk, turn

(* Every step keeps it as long as no handler is cut off. *)
LEMMA NextQInv ==
  ASSUME HandlersEnd, QInv, [Next]_vars
  PROVE  QInv'
<1>1. IInv'
  BY NextInv DEF QInv
<1>2. CASE \E m \in Message : Send(m)
  BY <1>1, <1>2, SendCalm DEF QInv
<1>3. CASE Handler
  BY <1>1, <1>3, IntakeCalm, GatheringCalm, QaCalm, CloseAskedCalm, LeftoverCalm, ScanningCalm,
     CloseCalm, EndsCalm DEF QInv, Handler
<1>4. CASE LlmFails \/ DeliverPartly
  BY <1>1, <1>4, FaultsCalm DEF QInv
<1>5. ~ (HandlerRaises \/ Crash)
  BY DEF HandlersEnd, NeverStops, HandlerRaises, Happens, Crash, QInv, IInv, Data, TypeOK
<1>6. CASE UNCHANGED vars
  BY <1>1, <1>6, StutterCalm DEF QInv
<1> QED
  BY <1>2, <1>3, <1>4, <1>5, <1>6 DEF Next

(* The stronger invariant of a review whose handlers all end.               *)
THEOREM CalmInvariance ==
  ASSUME HandlersEnd
  PROVE  Spec => []QInv
<1>1. Init => QInv
  BY InitQInv
<1>2. QInv /\ [Next]_vars => QInv'
  BY NextQInv
<1> QED
  BY <1>1, <1>2, PTL DEF Spec

(* What was asked last is what the stage makes of the next reply, although  *)
(* messages may be lost and findings be met with an empty answer of the     *)
(* LLM, so that nobody was shown what was asked (heard).                    *)
THEOREM PromptSafe ==
  ASSUME HandlersEnd
  PROVE  Spec => []PromptMatchesStage
<1>1. QInv => PromptMatchesStage
  <2> SUFFICES ASSUME QInv, Quiet, Active PROVE PromptMatchesStage
    BY DEF PromptMatchesStage
  <2>1. Fits(prompt)
    BY DEF QInv, Calm, PromptFits, Quiet
  <2> QED
    BY <2>1 DEF Fits, PromptMatchesStage
<1> QED
  BY <1>1, CalmInvariance, PTL

(* A session at rest is in no stage in which a message would have to wait,  *)
(* if deliveries reach all their targets.                                   *)
THEOREM RestsSafe ==
  ASSUME AllReached
  PROVE  Spec => []RestsOnlyOnRequester
<1>1. QInv => RestsOnlyOnRequester
  BY DEF AllReached, QInv, Calm, Rests, AtRest, Quiet, RestsOnlyOnRequester
<1> QED
  BY <1>1, CalmInvariance, PTL DEF AllReached

(* A handler that ends without a word was asked a question, or had no       *)
(* finding to show, or none of which the LLM had anything to say: then it   *)
(* waits for the answer all the same.                                       *)
THEOREM SilenceSafe ==
  ASSUME HandlersEnd
  PROVE  Spec => []SilenceIsKnown
<1>1. QInv => SilenceIsKnown
  BY DEF QInv, Calm, Silent, SilenceIsKnown
<1> QED
  BY <1>1, CalmInvariance, PTL

(* The rows change when a session is opened, with an answer and with a scan.*)
LEMMA RowMoves ==
  ASSUME Handler
  PROVE  rows' = rows \/ Open \/ Answer \/ ScanResponder
<1> USE DEF At, Goto, Reply, Finish, TellAnd, SetStage, Outside, disk, turn, world
<1>1. CASE Intake
  BY <1>1 DEF Intake, Ingest, IngestRefused, IngestFails, Ingested
<1>2. CASE Gathering
  BY <1>2 DEF Gathering, CancelAtGate, StartReview, SupplementAtGate, Propose, Reingest,
     ChooseTopic, TopicUnclear
<1>3. CASE Qa
  BY <1>3 DEF Qa, EnterQa, SupplementInQa, ResetCursor, Rescan, SupplementRejected, More,
     MoreAdvance, AskToClose, ForceClose, AdvanceCursor, Question, ProposeClose, EmitNothing,
     EmitBlank, Emit
<1>4. CASE CloseAsked
  BY <1>4 DEF CloseAsked, ConfirmClose, MoreAtClose, BackToQa, AskAgain
<1>5. CASE Leftover
  BY <1>5 DEF Leftover, ResumeBusy, SayBusy, CloseAtIntake, WaitAtIntake
<1>6. CASE Scanning
  BY <1>6 DEF Scanning, ScanPillars, Scanned
<1>7. CASE Close
  BY <1>7 DEF Close, Merge, MergeUnreadable, Merged, Gate, Judge, Settle, SettleWithoutBlockers,
     SettleExhausted, RequeueBlockers, Reopen, Closing, Summarize, Deliver, Delivered
<1>8. CASE Tell \/ TellLost \/ Done
  BY <1>8 DEF Tell, TellLost, Done
<1> QED
  BY <1>1, <1>2, <1>3, <1>4, <1>5, <1>6, <1>7, <1>8 DEF Handler

(* A reply changes the status of the finding that was asked of last, be it  *)
(* one that nobody was shown (heard), and of every row with its id, but of  *)
(* no other.                                                                *)
THEOREM ReplySafe ==
  ASSUME HandlersEnd
  PROVE  Spec => ReplyAppliesToPrompt
<1> DEFINE Applies == \A i \in DOMAIN rows :
                        (sess'.no = sess.no /\ rows'[i].status # rows[i].status) =>
                          prompt = AskFor(rows[i].id)
<1>1. QInv /\ [Next]_vars => [Applies]_vars
  <2> SUFFICES ASSUME QInv, Next, NEW i \in DOMAIN rows,
                      sess'.no = sess.no, rows'[i].status # rows[i].status
               PROVE  prompt = AskFor(rows[i].id)
    OBVIOUS
  <2>1. TypeOK
    BY DEF QInv, IInv, Data
  <2>2. rows' = rows \/ Open \/ Answer \/ ScanResponder
    <3>1. LlmFails \/ HandlerRaises \/ DeliverPartly \/ Crash => rows' = rows
      BY DEF LlmFails, HandlerRaises, DeliverPartly, Crash, disk
    <3> QED
      BY <3>1, RowMoves DEF Next, Send, disk
  <2>3. ~Open
    BY <2>1 DEF Open, TypeOK, Session
  <2>4. ~ScanResponder
    <3> SUFFICES ASSUME ScanResponder PROVE FALSE
      OBVIOUS
    <3>1. PICK f \in Scans : rows' = rows \o NewRows(f)
      BY DEF ScanResponder
    <3>2. IsScan(f) /\ rows \in Seq(Row)
      BY <2>1, <3>1, ScansAre DEF TypeOK
    <3> QED
      BY <3>1, <3>2, NewRowsType
  <2>5. CASE Answer
    <3>1. Active /\ prompt = AskFor(cursor.current)
      <4>1. Active /\ sess.stage = "qa_active" /\ cursor.current # None /\ pc = "qa"
        BY <2>5 DEF Answer, QInv, IInv, Control, StageFits, StageAtStep, AtWork, Closes
      <4> QED
        BY <4>1 DEF QInv, Calm, PromptFits, Fits
    <3>2. PICK s \in {"accepted", "rejected", "modified"} : rows' = Patch(cursor.current, s)
      BY <2>5 DEF Answer, StatusFor
    <3>3. rows[i].id = cursor.current
      BY <2>1, <3>2, PatchType DEF TypeOK
    <3> QED
      BY <3>1, <3>3
  <2> QED
    BY <2>2, <2>3, <2>4, <2>5
<1> QED
  BY <1>1, CalmInvariance, PTL DEF Spec, ReplyAppliesToPrompt

-----------------------------------------------------------------------------
(* Where no session fails *)

(* Opening a session and taking in its material keeps sessions alive while  *)
(* they are worked on.                                                      *)
LEMMA IntakeLives ==
  ASSUME LInv, Intake
  PROVE  Lives'
<1> USE DEF LInv, IInv, Data, TypeOK, Session, Control, StageFits, StageAtStep, Lives, AtRest,
        AtWork, Closes, Active, At, Goto, Reply, Finish, TellAnd, SetStage, Busy, Outside, disk
<1>1. CASE Open
  BY <1>1 DEF Open
<1>2. CASE Ingest
  BY <1>2 DEF Ingest
<1>3. CASE IngestRefused
  BY <1>3 DEF IngestRefused
<1>4. CASE IngestFails
  BY <1>4 DEF IngestFails
<1>5. CASE Ingested
  BY <1>5 DEF Ingested
<1> QED
  BY <1>1, <1>2, <1>3, <1>4, <1>5 DEF Intake

(* The material gate and the choice of a subject keeps sessions alive while *)
(* they are worked on.                                                      *)
LEMMA GatheringLives ==
  ASSUME LInv, Gathering
  PROVE  Lives'
<1> USE DEF LInv, IInv, Data, TypeOK, Session, Control, StageFits, StageAtStep, Lives, AtRest,
        AtWork, Closes, Active, At, Goto, Reply, Finish, TellAnd, SetStage, Busy, Outside, disk
<1>1. CASE CancelAtGate
  BY <1>1 DEF CancelAtGate
<1>2. CASE StartReview
  BY <1>2 DEF StartReview
<1>3. CASE SupplementAtGate
  BY <1>3 DEF SupplementAtGate
<1>4. CASE Propose
  BY <1>4 DEF Propose
<1>5. CASE Reingest
  BY <1>5 DEF Reingest
<1>6. CASE ChooseTopic
  BY <1>6 DEF ChooseTopic
<1>7. CASE TopicUnclear
  BY <1>7 DEF TopicUnclear
<1> QED
  BY <1>1, <1>2, <1>3, <1>4, <1>5, <1>6, <1>7 DEF Gathering

(* The Q&A keeps sessions alive while they are worked on.                   *)
LEMMA QaLives ==
  ASSUME LInv, Qa
  PROVE  Lives'
<1> USE DEF LInv, IInv, Data, TypeOK, Session, Control, StageFits, StageAtStep, Lives, AtRest,
        AtWork, Closes, Active, At, Goto, Reply, Finish, TellAnd, SetStage, Busy, Outside, disk
<1>1. CASE EnterQa
  BY <1>1 DEF EnterQa
<1>2. CASE SupplementInQa
  BY <1>2 DEF SupplementInQa
<1>3. CASE ResetCursor
  BY <1>3 DEF ResetCursor
<1>4. CASE Rescan
  BY <1>4 DEF Rescan
<1>5. CASE SupplementRejected
  BY <1>5 DEF SupplementRejected
<1>6. CASE More
  BY <1>6 DEF More
<1>7. CASE MoreAdvance
  BY <1>7 DEF MoreAdvance
<1>8. CASE AskToClose
  BY <1>8 DEF AskToClose
<1>9. CASE ForceClose
  BY <1>9 DEF ForceClose
<1>10. CASE Answer
  BY <1>10 DEF Answer
<1>11. CASE AdvanceCursor
  BY <1>11 DEF AdvanceCursor
<1>12. CASE Question
  BY <1>12 DEF Question
<1>13. CASE ProposeClose
  BY <1>13 DEF ProposeClose
<1>14. CASE EmitNothing
  BY <1>14 DEF EmitNothing
<1>15. CASE Emit
  BY <1>15 DEF Emit
<1>16. CASE EmitBlank
  BY <1>16 DEF EmitBlank
<1> QED
  BY <1>1, <1>2, <1>3, <1>4, <1>5, <1>6, <1>7, <1>8, <1>9, <1>10, <1>11, <1>12, <1>13,
     <1>14, <1>15, <1>16 DEF Qa

(* The offer to close keeps sessions alive while they are worked on.        *)
LEMMA CloseAskedLives ==
  ASSUME LInv, CloseAsked
  PROVE  Lives'
<1> USE DEF LInv, IInv, Data, TypeOK, Session, Control, StageFits, StageAtStep, Lives, AtRest,
        AtWork, Closes, Active, At, Goto, Reply, Finish, TellAnd, SetStage, Busy, Outside, disk
<1>1. CASE ConfirmClose
  BY <1>1 DEF ConfirmClose
<1>2. CASE MoreAtClose
  BY <1>2 DEF MoreAtClose
<1>3. CASE BackToQa
  BY <1>3 DEF BackToQa
<1>4. CASE AskAgain
  BY <1>4 DEF AskAgain
<1> QED
  BY <1>1, <1>2, <1>3, <1>4 DEF CloseAsked

(* A message for a session that was left in a busy stage keeps sessions     *)
(* alive while they are worked on.                                          *)
LEMMA LeftoverLives ==
  ASSUME LInv, Leftover
  PROVE  Lives'
<1> USE DEF LInv, IInv, Data, TypeOK, Session, Control, StageFits, StageAtStep, Lives, AtRest,
        AtWork, Closes, Active, At, Goto, Reply, Finish, TellAnd, SetStage, Busy, Outside, disk
<1>1. CASE ResumeBusy
  BY <1>1 DEF ResumeBusy, Restart
<1>2. CASE SayBusy
  BY <1>2 DEF SayBusy
<1>3. CASE CloseAtIntake
  BY <1>3 DEF CloseAtIntake
<1>4. CASE WaitAtIntake
  BY <1>4 DEF WaitAtIntake
<1> QED
  BY <1>1, <1>2, <1>3, <1>4 DEF Leftover

(* The scan keeps sessions alive while they are worked on.                  *)
LEMMA ScanningLives ==
  ASSUME LInv, Scanning
  PROVE  Lives'
<1> USE DEF LInv, IInv, Data, TypeOK, Session, Control, StageFits, StageAtStep, Lives, AtRest,
        AtWork, Closes, Active, At, Goto, Reply, Finish, TellAnd, SetStage, Busy, Outside, disk
<1>1. CASE ScanPillars
  BY <1>1 DEF ScanPillars
<1>2. CASE ScanResponder
  BY <1>2 DEF ScanResponder
<1>3. CASE Scanned
  BY <1>3 DEF Scanned
<1> QED
  BY <1>1, <1>2, <1>3 DEF Scanning

(* The close chain keeps sessions alive while they are worked on.           *)
LEMMA CloseLives ==
  ASSUME LInv, Close
  PROVE  Lives'
<1> USE DEF LInv, IInv, Data, TypeOK, Session, Control, StageFits, StageAtStep, Lives, AtRest,
        AtWork, Closes, Active, At, Goto, Reply, Finish, TellAnd, SetStage, Busy, Outside, disk
<1>1. CASE Merge
  BY <1>1 DEF Merge
<1>2. CASE MergeUnreadable
  BY <1>2 DEF MergeUnreadable, InChain
<1>3. CASE Merged
  BY <1>3 DEF Merged, InChain
<1>4. CASE Gate
  BY <1>4 DEF Gate
<1>5. CASE Judge
  BY <1>5 DEF Judge, InChain
<1>6. CASE Settle
  BY <1>6 DEF Settle
<1>7. CASE SettleWithoutBlockers
  BY <1>7 DEF SettleWithoutBlockers
<1>8. CASE SettleExhausted
  BY <1>8 DEF SettleExhausted
<1>9. CASE RequeueBlockers
  BY <1>9 DEF RequeueBlockers
<1>10. CASE Reopen
  BY <1>10 DEF Reopen
<1>11. CASE Closing
  BY <1>11 DEF Closing
<1>12. CASE Summarize
  BY <1>12 DEF Summarize
<1>13. CASE Deliver
  BY <1>13 DEF Deliver
<1>14. CASE Delivered
  BY <1>14 DEF Delivered
<1> QED
  BY <1>1, <1>2, <1>3, <1>4, <1>5, <1>6, <1>7, <1>8, <1>9, <1>10, <1>11, <1>12, <1>13,
     <1>14 DEF Close

(* The end of a handler keeps sessions alive while they are worked on.      *)
LEMMA EndsLives ==
  ASSUME LInv, Tell \/ TellLost \/ Done
  PROVE  Lives'
<1> USE DEF LInv, IInv, Data, TypeOK, Session, Control, StageFits, StageAtStep, Lives, AtRest,
        AtWork, Closes, Active, At, Goto, Reply, Finish, TellAnd, SetStage, Busy, Outside, disk
<1>1. CASE Tell \/ TellLost
  BY <1>1 DEF Tell, TellLost
<1>2. CASE Done
  BY <1>2 DEF Done
<1> QED
  BY <1>1, <1>2

(* No session fails and the process does not stop. *)
LEMMA NoneFails ==
  ASSUME NeverFails, TypeOK
  PROVE  ~ (LlmFails \/ Crash)
BY DEF NeverFails, NeverStops, TypeOK, LlmFails, Happens, Crash

(* Every step keeps sessions alive, an exception that leaves a handler and  *)
(* a partial delivery among them.                                           *)
LEMMA LivesKept ==
  ASSUME NeverFails, LInv, [Next]_vars
  PROVE  Lives'
<1>1. CASE Handler
  BY <1>1, IntakeLives, GatheringLives, QaLives, CloseAskedLives, LeftoverLives, ScanningLives,
     CloseLives, EndsLives DEF Handler
<1>2. CASE HandlerRaises
  <2>1. /\ Active /\ sess.stage # "intake"
        /\ pc' = "done" /\ UNCHANGED sess
    BY <1>2 DEF HandlerRaises, CallsLlm, FetchesMaterial, FailStage, At, Finish, Goto, disk, LInv,
       Lives, AtWork, Closes, AtRest, IInv, Control, StageFits, StageAtStep
  <2> QED
    BY <2>1 DEF LInv, Lives, AtRest, AtWork, Closes, Active
<1>3. CASE DeliverPartly
  BY <1>3 DEF DeliverPartly, SetStage, TellAnd, LInv, Lives, AtRest, AtWork, Closes, Active, IInv,
     Data, TypeOK, Session
<1>4. ~ (LlmFails \/ Crash)
  BY NoneFails DEF LInv, IInv, Data
<1>5. CASE (\E m \in Message : Send(m)) \/ UNCHANGED vars
  BY <1>5 DEF Send, vars, disk, turn, LInv, Lives, AtRest, AtWork, Closes, Active
<1> QED
  BY <1>1, <1>2, <1>3, <1>4, <1>5 DEF Next

(* The invariant of a review in which no session fails.                     *)
THEOREM LivesInvariance ==
  ASSUME NeverFails
  PROVE  Spec => []LInv
<1>1. Init => LInv
  <2> SUFFICES ASSUME Init PROVE LInv
    OBVIOUS
  <2> QED
    BY InitInv DEF Init, NoSession, LInv, Lives, Active, AtRest, AtWork, Closes
<1>2. LInv /\ [Next]_vars => LInv'
  BY LivesKept, NextInv DEF LInv
<1> QED
  BY <1>1, <1>2, PTL DEF Spec

(* Opening a session and taking in its material is a step of                *)
(* ReviewLifecycle, or changes nothing there.                               *)
LEMMA IntakeRefines ==
  ASSUME LInv, Intake
  PROVE  [Lifecycle!Next]_(Lifecycle!vars)
<1> USE DEF LInv, IInv, Data, TypeOK, Session, Control, StageFits, StageAtStep, VerdictFits,
        Accepted, Lives, AtRest, AtWork, Closes, Active, At, Goto, Reply, Finish, TellAnd,
        SetStage, Outside, disk
<1>a. UNCHANGED sess => UNCHANGED Lifecycle!vars
  BY DEF Lifecycle!vars
<1> USE DEF Lifecycle!Next
<1>1. CASE Open
  <2>1. /\ sess.status \in {"none", "closed", "failed", "cancelled"}
        /\ sess'.status = "active" /\ sess'.stage = "intake"
        /\ sess'.verdict = "none" /\ sess'.fails = 0
    BY <1>1 DEF Open
  <2>2. CASE sess.status = "none"
    BY <2>1, <2>2 DEF Lifecycle!Begin
  <2>3. CASE sess.status # "none"
    BY <2>1, <2>3 DEF Lifecycle!Begin
  <2> QED
    BY <2>2, <2>3
<1>2. CASE Ingest
  BY <1>a, <1>2 DEF Ingest
<1>3. CASE IngestRefused
  BY <1>3 DEF IngestRefused, Lifecycle!vars, Lifecycle!Abandon
<1>4. CASE IngestFails
  BY <1>4 DEF IngestFails, Lifecycle!vars, Lifecycle!Abandon
<1>5. CASE Ingested
  BY <1>5 DEF Ingested, Lifecycle!vars
<1> QED
  BY <1>1, <1>2, <1>3, <1>4, <1>5 DEF Intake

(* The material gate and the choice of a subject is a step of               *)
(* ReviewLifecycle, or changes nothing there.                               *)
LEMMA GatheringRefines ==
  ASSUME LInv, Gathering
  PROVE  [Lifecycle!Next]_(Lifecycle!vars)
<1> USE DEF LInv, IInv, Data, TypeOK, Session, Control, StageFits, StageAtStep, VerdictFits,
        Accepted, Lives, AtRest, AtWork, Closes, Active, At, Goto, Reply, Finish, TellAnd,
        SetStage, Outside, disk
<1>a. UNCHANGED sess => UNCHANGED Lifecycle!vars
  BY DEF Lifecycle!vars
<1> USE DEF Lifecycle!Next
<1>1. CASE CancelAtGate
  BY <1>1 DEF CancelAtGate, Lifecycle!vars, Lifecycle!Abandon
<1>2. CASE StartReview
  BY <1>2 DEF StartReview, Lifecycle!vars
<1>3. CASE SupplementAtGate
  BY <1>a, <1>3 DEF SupplementAtGate
<1>4. CASE Propose
  BY <1>4 DEF Propose, Lifecycle!vars
<1>5. CASE Reingest
  BY <1>a, <1>5 DEF Reingest
<1>6. CASE ChooseTopic
  BY <1>6 DEF ChooseTopic, Lifecycle!vars, Lifecycle!Review
<1>7. CASE TopicUnclear
  BY <1>a, <1>7 DEF TopicUnclear
<1> QED
  BY <1>1, <1>2, <1>3, <1>4, <1>5, <1>6, <1>7 DEF Gathering

(* The Q&A is a step of ReviewLifecycle, or changes nothing there.          *)
LEMMA QaRefines ==
  ASSUME LInv, Qa
  PROVE  [Lifecycle!Next]_(Lifecycle!vars)
<1> USE DEF LInv, IInv, Data, TypeOK, Session, Control, StageFits, StageAtStep, VerdictFits,
        Accepted, Lives, AtRest, AtWork, Closes, Active, At, Goto, Reply, Finish, TellAnd,
        SetStage, Outside, disk
<1>a. UNCHANGED sess => UNCHANGED Lifecycle!vars
  BY DEF Lifecycle!vars
<1> USE DEF Lifecycle!Next
<1>1. CASE EnterQa
  BY <1>1 DEF EnterQa, Lifecycle!vars
<1>2. CASE SupplementInQa
  BY <1>a, <1>2 DEF SupplementInQa
<1>3. CASE ResetCursor
  BY <1>a, <1>3 DEF ResetCursor
<1>4. CASE Rescan
  BY <1>4 DEF Rescan, Lifecycle!vars
<1>5. CASE SupplementRejected
  BY <1>a, <1>5 DEF SupplementRejected
<1>6. CASE More
  BY <1>a, <1>6 DEF More
<1>7. CASE MoreAdvance
  BY <1>a, <1>7 DEF MoreAdvance
<1>8. CASE AskToClose
  BY <1>a, <1>8 DEF AskToClose
<1>9. CASE ForceClose
  BY <1>a, <1>9 DEF ForceClose
<1>10. CASE Answer
  BY <1>a, <1>10 DEF Answer
<1>11. CASE AdvanceCursor
  BY <1>a, <1>11 DEF AdvanceCursor
<1>12. CASE Question
  BY <1>a, <1>12 DEF Question
<1>13. CASE ProposeClose
  BY <1>13 DEF ProposeClose, Lifecycle!vars
<1>14. CASE EmitNothing
  BY <1>a, <1>14 DEF EmitNothing
<1>15. CASE Emit
  BY <1>a, <1>15 DEF Emit
<1>16. CASE EmitBlank
  BY <1>a, <1>16 DEF EmitBlank
<1> QED
  BY <1>1, <1>2, <1>3, <1>4, <1>5, <1>6, <1>7, <1>8, <1>9, <1>10, <1>11, <1>12, <1>13, <1>14,
     <1>15, <1>16 DEF Qa

(* The offer to close is a step of ReviewLifecycle, or changes nothing      *)
(* there.                                                                   *)
LEMMA CloseAskedRefines ==
  ASSUME LInv, CloseAsked
  PROVE  [Lifecycle!Next]_(Lifecycle!vars)
<1> USE DEF LInv, IInv, Data, TypeOK, Session, Control, StageFits, StageAtStep, VerdictFits,
        Accepted, Lives, AtRest, AtWork, Closes, Active, At, Goto, Reply, Finish, TellAnd,
        SetStage, Outside, disk
<1>a. UNCHANGED sess => UNCHANGED Lifecycle!vars
  BY DEF Lifecycle!vars
<1> USE DEF Lifecycle!Next
<1>1. CASE ConfirmClose
  BY <1>1 DEF ConfirmClose, Lifecycle!vars, Lifecycle!Close
<1>2. CASE MoreAtClose
  BY <1>a, <1>2 DEF MoreAtClose
<1>3. CASE BackToQa
  BY <1>3 DEF BackToQa, Lifecycle!vars
<1>4. CASE AskAgain
  BY <1>a, <1>4 DEF AskAgain
<1> QED
  BY <1>1, <1>2, <1>3, <1>4 DEF CloseAsked

(* A message for a session that was left in a busy stage or at intake is a  *)
(* step of ReviewLifecycle, or changes nothing there.                       *)
LEMMA LeftoverRefines ==
  ASSUME LInv, Leftover
  PROVE  [Lifecycle!Next]_(Lifecycle!vars)
<1> USE DEF LInv, IInv, Data, TypeOK, Session, Control, StageFits, StageAtStep, VerdictFits,
        Accepted, Lives, AtRest, AtWork, Closes, Active, At, Goto, Reply, Finish, TellAnd,
        SetStage, Outside, disk
<1>a. UNCHANGED sess => UNCHANGED Lifecycle!vars
  BY DEF Lifecycle!vars
<1> USE DEF Lifecycle!Next
<1>1. CASE ResumeBusy
  BY <1>a, <1>1 DEF ResumeBusy, Busy, Restart
<1>2. CASE SayBusy
  BY <1>a, <1>2 DEF SayBusy, Busy
<1>3. CASE CloseAtIntake
  BY <1>a, <1>3 DEF CloseAtIntake
<1>4. CASE WaitAtIntake
  BY <1>a, <1>4 DEF WaitAtIntake
<1> QED
  BY <1>1, <1>2, <1>3, <1>4 DEF Leftover

(* The scan is a step of ReviewLifecycle, or changes nothing there.         *)
LEMMA ScanningRefines ==
  ASSUME LInv, Scanning
  PROVE  [Lifecycle!Next]_(Lifecycle!vars)
<1> USE DEF LInv, IInv, Data, TypeOK, Session, Control, StageFits, StageAtStep, VerdictFits,
        Accepted, Lives, AtRest, AtWork, Closes, Active, At, Goto, Reply, Finish, TellAnd,
        SetStage, Outside, disk
<1>a. UNCHANGED sess => UNCHANGED Lifecycle!vars
  BY DEF Lifecycle!vars
<1> USE DEF Lifecycle!Next
<1>1. CASE ScanPillars
  BY <1>a, <1>1 DEF ScanPillars
<1>2. CASE ScanResponder
  BY <1>a, <1>2 DEF ScanResponder
<1>3. CASE Scanned
  BY <1>3 DEF Scanned, Lifecycle!vars
<1> QED
  BY <1>1, <1>2, <1>3 DEF Scanning

(* The close chain is a step of ReviewLifecycle, or changes nothing there.  *)
LEMMA CloseRefines ==
  ASSUME LInv, Close
  PROVE  [Lifecycle!Next]_(Lifecycle!vars)
<1> USE DEF LInv, IInv, Data, TypeOK, Session, Control, StageFits, StageAtStep, VerdictFits,
        Accepted, Lives, AtRest, AtWork, Closes, Active, At, Goto, Reply, Finish, TellAnd,
        SetStage, Outside, disk
<1>a. UNCHANGED sess => UNCHANGED Lifecycle!vars
  BY DEF Lifecycle!vars
<1> USE DEF Lifecycle!Next
<1>1. CASE Merge
  BY <1>a, <1>1 DEF Merge
<1>2. CASE MergeUnreadable
  BY <1>a, <1>2 DEF MergeUnreadable
<1>3. CASE Merged
  BY <1>3 DEF Merged, Lifecycle!vars, Lifecycle!Close
<1>4. CASE Gate
  BY <1>a, <1>4 DEF Gate
<1>5. CASE Judge
  <2>1. CASE sess'.verdict = "FAIL"
    BY <1>5, <2>1 DEF Judge, Lifecycle!Refuse, FailsFit, MayFail
  <2>2. CASE sess'.verdict # "FAIL"
    <3>1. /\ sess.status = "active" /\ sess.stage = "final_gating"
          /\ \E v \in {"READY", "FORCED_PARTIAL"} :
               sess' = [sess EXCEPT !.verdict = v, !.stage = "closing"]
      BY <1>5, <2>2 DEF Judge
    <3>2. /\ sess'.status = "active" /\ sess'.stage = "closing" /\ sess'.fails = sess.fails
          /\ sess'.verdict \in {"READY", "FORCED_PARTIAL"}
      BY <3>1
    <3> QED
      BY <3>1, <3>2 DEF Lifecycle!Accept
  <2> QED
    BY <2>1, <2>2
<1>6. CASE Settle
  BY <1>a, <1>6 DEF Settle
<1>7. CASE SettleWithoutBlockers
  BY <1>7 DEF SettleWithoutBlockers, Lifecycle!vars, Lifecycle!Accept
<1>8. CASE SettleExhausted
  BY <1>8 DEF SettleExhausted, Lifecycle!vars, Lifecycle!Accept
<1>9. CASE RequeueBlockers
  BY <1>a, <1>9 DEF RequeueBlockers
<1>10. CASE Reopen
  BY <1>10 DEF Reopen, Lifecycle!vars, Lifecycle!Reopen, FailsFit
<1>11. CASE Closing
  BY <1>11 DEF Closing, Lifecycle!vars
<1>12. CASE Summarize
  BY <1>a, <1>12 DEF Summarize
<1>13. CASE Deliver
  BY <1>13 DEF Deliver, Lifecycle!vars
<1>14. CASE Delivered
  BY <1>14 DEF Delivered, Lifecycle!vars, Lifecycle!Deliver
<1> QED
  BY <1>1, <1>2, <1>3, <1>4, <1>5, <1>6, <1>7, <1>8, <1>9, <1>10, <1>11, <1>12, <1>13, <1>14 DEF
     Close

(* The end of a handler is a step of ReviewLifecycle, or changes nothing    *)
(* there.                                                                   *)
LEMMA EndsRefines ==
  ASSUME LInv, Tell \/ TellLost \/ Done
  PROVE  [Lifecycle!Next]_(Lifecycle!vars)
<1> USE DEF LInv, IInv, Data, TypeOK, Session, Control, StageFits, StageAtStep, VerdictFits,
        Accepted, Lives, AtRest, AtWork, Closes, Active, At, Goto, Reply, Finish, TellAnd,
        SetStage, Outside, disk
<1>a. UNCHANGED sess => UNCHANGED Lifecycle!vars
  BY DEF Lifecycle!vars
<1> USE DEF Lifecycle!Next
<1>1. CASE Tell \/ TellLost
  BY <1>a, <1>1 DEF Tell, TellLost
<1>2. CASE Done
  BY <1>a, <1>2 DEF Done
<1> QED
  BY <1>1, <1>2

(* The review does what ReviewLifecycle promises of it, step by step, if no *)
(* session fails: an interrupted handler leaves it in a phase it may be in. *)
THEOREM LifecycleRefined ==
  ASSUME NeverFails
  PROVE  Spec => Lifecycle!Spec
<1>1. Init => Lifecycle!Init
  BY DEF Init, NoSession, Lifecycle!Init
<1>2. LInv /\ [Next]_vars => [Lifecycle!Next]_(Lifecycle!vars)
  <2> SUFFICES ASSUME LInv, [Next]_vars PROVE [Lifecycle!Next]_(Lifecycle!vars)
    OBVIOUS
  <2>1. CASE Handler
    BY <2>1, IntakeRefines, GatheringRefines, QaRefines, CloseAskedRefines, LeftoverRefines,
       ScanningRefines, CloseRefines, EndsRefines DEF Handler
  <2>2. CASE ~Handler
    <3>1. DeliverPartly => UNCHANGED sess
      BY DEF DeliverPartly, SetStage, LInv, Lives, AtWork, IInv, Data, TypeOK, Session, Control,
         StageFits, StageAtStep
    <3>2. UNCHANGED sess
      BY <2>2, <3>1, NoneFails DEF Next, Send, HandlerRaises, Crash, vars, disk, LInv, IInv, Data
    <3> QED
      BY <3>2 DEF Lifecycle!vars
  <2> QED
    BY <2>1, <2>2
<1> QED
  BY <1>1, <1>2, LivesInvariance, PTL DEF Spec, Lifecycle!Spec
=============================================================================
