-------------------------- MODULE DeliveryProofs --------------------------
(***************************************************************************)
(* A closed session has reached all its targets but for what Lark refused  *)
(* inside a 200: for any targets in any order, any registered backends,    *)
(* any number of runs, failing or refused sends and stops of the process.  *)
(* IInv (module Delivery) is inductive; what carries it across runs is     *)
(* that the outbound table is right about what has arrived or been refused.*)
(***************************************************************************)
EXTENDS Delivery, Basics

(* The order of a run over the targets it has listed. *)
OrderOf(list) ==
  LET documents == {k \in DOMAIN list : IsDoc(list[k])}
  IN  Select(list, documents) \o Select(list, DOMAIN list \ documents)

(* It serves every target of the list and nothing else, the documents first. *)
LEMMA OrderFacts ==
  ASSUME NEW list \in Seq(Target)
  PROVE  LET o == OrderOf(list)
         IN  /\ o \in Seq(Target)
             /\ {o[k] : k \in DOMAIN o} = {list[k] : k \in DOMAIN list}
             /\ \A j, k \in DOMAIN o : IsDoc(o[k]) /\ ~IsDoc(o[j]) => k < j
<1> DEFINE D == {k \in DOMAIN list : IsDoc(list[k])}
           R == DOMAIN list \ D
           d == Select(list, D)
           r == Select(list, R)
           o == d \o r
<1>1. PICK at \in Seq(Nat) : Lists(d, list, at) /\ {at[k] : k \in DOMAIN at} = D \cap DOMAIN list
  BY SelectKeeps
<1>2. PICK bt \in Seq(Nat) : Lists(r, list, bt) /\ {bt[k] : k \in DOMAIN bt} = R \cap DOMAIN list
  BY SelectKeeps
<1>3. d \in Seq(Target) /\ r \in Seq(Target) /\ OrderOf(list) = o
  BY SelectKeeps DEF OrderOf
<1>4. D \cap DOMAIN list = D /\ R \cap DOMAIN list = R
  OBVIOUS
<1>5. /\ \A k \in DOMAIN d : \E i \in D : d[k] = list[i]
      /\ \A i \in D : \E k \in DOMAIN d : d[k] = list[i]
  <2> HIDE DEF D, d
  <2> QED
    BY <1>1, <1>4 DEF Lists
<1>6. /\ \A k \in DOMAIN r : \E i \in R : r[k] = list[i]
      /\ \A i \in R : \E k \in DOMAIN r : r[k] = list[i]
  <2> HIDE DEF R, r
  <2> QED
    BY <1>2, <1>4 DEF Lists
<1>7. \A i \in DOMAIN list : i \in D <=> IsDoc(list[i])
  OBVIOUS
<1>8. /\ \A i \in D \cup R : i \in DOMAIN list
      /\ \A i \in DOMAIN list : i \in R <=> i \notin D
  OBVIOUS
<1> HIDE DEF D, R, d, r
<1>9. /\ o \in Seq(Target) /\ DOMAIN o = 1..(Len(d) + Len(r))
      /\ DOMAIN d = 1..Len(d) /\ DOMAIN r = 1..Len(r) /\ Len(d) \in Nat /\ Len(r) \in Nat
      /\ \A k \in DOMAIN d : k \in DOMAIN o /\ o[k] = d[k]
      /\ \A k \in DOMAIN r : Len(d) + k \in DOMAIN o /\ o[Len(d) + k] = r[k]
  BY <1>3
<1> HIDE DEF o
<1>10. \A k \in DOMAIN o : \/ k \in DOMAIN d /\ o[k] = d[k]
                           \/ k > Len(d) /\ k - Len(d) \in DOMAIN r /\ o[k] = r[k - Len(d)]
  <2> TAKE k \in DOMAIN o
  <2>1. k \in Nat /\ 1 <= k /\ k <= Len(d) + Len(r)
    BY <1>9
  <2>2. CASE k <= Len(d)
    BY <1>9, <2>1, <2>2
  <2>3. CASE k > Len(d)
    <3>1. k - Len(d) \in DOMAIN r /\ Len(d) + (k - Len(d)) = k
      BY <1>9, <2>1, <2>3
    <3> QED
      BY <1>9, <2>3, <3>1
  <2> QED
    BY <1>9, <2>1, <2>2, <2>3
<1>11. \A k \in DOMAIN o : \/ k \in DOMAIN d /\ \E i \in D : o[k] = list[i]
                           \/ k > Len(d) /\ \E i \in R : o[k] = list[i]
  <2> TAKE k \in DOMAIN o
  <2>1. CASE k \in DOMAIN d /\ o[k] = d[k]
    BY <1>5, <2>1
  <2>2. CASE k > Len(d) /\ k - Len(d) \in DOMAIN r /\ o[k] = r[k - Len(d)]
    <3>1. PICK i \in R : r[k - Len(d)] = list[i]
      BY <1>6, <2>2
    <3> QED
      BY <2>2, <3>1
  <2> QED
    BY <1>10, <2>1, <2>2
<1>12. \A i \in DOMAIN list : \E k \in DOMAIN o : o[k] = list[i]
  BY <1>5, <1>6, <1>8, <1>9
<1>13. {o[k] : k \in DOMAIN o} = {list[k] : k \in DOMAIN list}
  <2>1. \A k \in DOMAIN o : \E i \in DOMAIN list : o[k] = list[i]
    BY <1>8, <1>11
  <2> QED
    BY <1>12, <2>1
<1>14. \A k \in DOMAIN o : IF IsDoc(o[k]) THEN k \in DOMAIN d ELSE k > Len(d)
  <2> TAKE k \in DOMAIN o
  <2>1. CASE k \in DOMAIN d /\ \E i \in D : o[k] = list[i]
    BY <1>7, <1>8, <2>1
  <2>2. CASE k > Len(d) /\ \E i \in R : o[k] = list[i]
    BY <1>7, <1>8, <2>2
  <2> QED
    BY <1>11, <2>1, <2>2
<1>15. \A j, k \in DOMAIN o : IsDoc(o[k]) /\ ~IsDoc(o[j]) => k < j
  BY <1>9, <1>14
<1> QED
  BY <1>3, <1>9, <1>13, <1>15

(* The targets that the run goes through, in the words of the model. *)
LEMMA OrderServes ==
  ASSUME targets \in TargetLists
  PROVE  /\ Order \in Seq(Target) /\ Count \in Nat /\ DOMAIN Order = 1..Count
         /\ \A i \in DOMAIN targets : \E k \in 1..Count : Order[k] = targets[i]
         /\ \A k \in 1..Count : Order[k] \in Target /\ Order[k] \in AllTargets
         /\ \A j, k \in 1..Count : IsDoc(Order[k]) /\ ~IsDoc(Order[j]) => k < j
<1>1. targets \in Seq(Target)
  BY DeliveryAssumption
<1>2. Order = OrderOf(targets)
  BY DEF Order, OrderOf
<1>3. Order \in Seq(Target) /\ Count \in Nat /\ DOMAIN Order = 1..Count
  BY <1>1, <1>2, OrderFacts DEF Count
<1>4. {Order[k] : k \in DOMAIN Order} = {targets[k] : k \in DOMAIN targets}
  BY <1>1, <1>2, OrderFacts
<1>5. \A j, k \in 1..Count : IsDoc(Order[k]) /\ ~IsDoc(Order[j]) => k < j
  BY <1>1, <1>2, <1>3, OrderFacts
<1>6. {targets[k] : k \in DOMAIN targets} \subseteq AllTargets
  BY DEF AllTargets
<1>7. \A k \in 1..Count : Order[k] \in Target
  BY <1>3
<1>8. \A k \in 1..Count : Order[k] \in {targets[i] : i \in DOMAIN targets}
  BY <1>3, <1>4
<1>9. \A i \in DOMAIN targets : targets[i] \in {Order[k] : k \in DOMAIN Order}
  BY <1>4
<1> HIDE DEF Order
<1> QED
  BY <1>3, <1>5, <1>6, <1>7, <1>8, <1>9

(* The number of targets, also of the next list. *)
LEMMA CountIsNat ==
  /\ targets \in TargetLists => Count \in Nat
  /\ targets' \in TargetLists => Count' \in Nat
<1>1. targets \in TargetLists => Count \in Nat
  BY OrderServes
<1>2. \A list \in TargetLists : Len(OrderOf(list)) \in Nat
  BY OrderFacts, DeliveryAssumption
<1>3. Count' = Len(OrderOf(targets'))
  BY DEF Count, Order, OrderOf
<1> QED
  BY <1>1, <1>2, <1>3

(* Nothing has been sent. *)
LEMMA InitInv == Init => IInv
<1> SUFFICES ASSUME Init PROVE IInv
  OBVIOUS
<1>1. Count \in Nat
  BY CountIsNat DEF Init
<1> QED
  BY <1>1 DEF Init, IInv, LoggedMeansArrived, Covered, ClosedMeansReached, PassedIsReached,
     Arrived

(* What has arrived, after a send, is what had and the message. *)
LEMMA ArrivedGrows ==
  ASSUME received \in Seq(Arrived), NEW m, received' = Append(received, m)
  PROVE  Arrived' = Arrived \cup {m} /\ received' \in Seq(Arrived')
<1> DEFINE S == Arrived \cup {m}
           n == Len(received) + 1
<1>1. received \in Seq(S)
  <2>1. Arrived \subseteq S
    OBVIOUS
  <2> HIDE DEF S
  <2> QED
    BY <2>1
<1>2. /\ received' \in Seq(S)
      /\ n \in DOMAIN received' /\ received'[n] = m
      /\ \A i \in DOMAIN received : i \in DOMAIN received' /\ received'[i] = received[i]
      /\ \A i \in DOMAIN received' : i \in DOMAIN received \/ i = n
  <2>1. m \in S
    OBVIOUS
  <2> HIDE DEF S
  <2> QED
    BY <1>1, <2>1
<1>3. Arrived' = S
  <2>1. Arrived' = {received'[k] : k \in DOMAIN received'}
    BY DEF Arrived
  <2>2. Arrived = {received[k] : k \in DOMAIN received}
    BY DEF Arrived
  <2> QED
    BY <1>2, <2>1, <2>2
<1> QED
  BY <1>2, <1>3

(* The order of the targets is that of the list that the run has read.      *)
LEMMA OrderStays ==
  ASSUME targets' = targets PROVE Order' = Order /\ Count' = Count
BY DEF Order, Count

(* What has arrived is not lost, and what was refused stays refused. *)
LEMMA ServedStays ==
  ASSUME Arrived \subseteq Arrived', refused \subseteq refused', summary' = summary,
         NEW x, Served(x)
  PROVE  Served(x)'
BY DEF Served, Reached, Refused, For, Text, IsDoc

(* Either way there is a message for the target. *)
LEMMA ServedMessage ==
  ASSUME NEW x
  PROVE  Served(x) <=> \E m \in Arrived \cup refused : For(m, x)
BY DEF Served, Reached, Refused

(* A row of a target that is deduplicated says that the target is served.   *)
LEMMA HitIsServed ==
  ASSUME LoggedMeansArrived, Deduplicates(t), AlreadySent(t)
  PROVE  Served(t)
<1> DEFINE r == Row(t, Hash(t), TRUE)
<1>1. r \in outbound /\ r.ok /\ r.to = t.to /\ r.hash = Hash(t)
  BY DEF AlreadySent, Row
<1>2. Hash(t)[1] = t.backend /\ Hash(t) # <<"-">>
      /\ (t.backend = "lark_dm" => Hash(t)[2] = Text(t))
  BY DEF Hash, Deduplicates
<1>3. Covered(r)
  BY <1>1, <1>2 DEF LoggedMeansArrived
<1> HIDE DEF r
<1>4. PICK m \in Arrived \cup refused : /\ m.to = r.to
                                        /\ m.backend = r.hash[1]
                                        /\ m.backend = "lark_dm" => m.text = r.hash[2]
  BY <1>3 DEF Covered, Covers
<1>5. m.to = t.to /\ m.backend = t.backend
  BY <1>1, <1>2, <1>4
<1>6. IsDoc(t) \/ m.text = Text(t)
  BY <1>1, <1>2, <1>4, <1>5 DEF IsDoc, Deduplicates
<1> QED
  BY <1>4, <1>5, <1>6, ServedMessage DEF For

(* A row is added that is not ok: nothing is claimed of what arrived.       *)
LEMMA MissedInv ==
  ASSUME IInv, AtTarget, NEW h, Missed(h), refused' = refused,
         Arrived \subseteq Arrived', received' \in Seq(Arrived')
  PROVE  IInv'
<1>1. /\ outbound' = outbound \cup {Row(t, h, FALSE)}
      /\ ~allOk' /\ pc' = "target" /\ next' = next + 1
      /\ UNCHANGED <<closed, summary, targets>>
  BY DEF Missed, NextTarget
<1>2. LoggedMeansArrived'
  <2>1. \A r \in outbound' : r.ok => r \in outbound
    BY <1>1 DEF Row
  <2> QED
    BY <2>1 DEF IInv, LoggedMeansArrived, Covered, Covers
<1>3. ClosedMeansReached' /\ PassedIsReached' /\ ~closed'
  BY <1>1 DEF IInv, AtTarget, ClosedMeansReached, PassedIsReached
<1> QED
  BY <1>1, <1>2, <1>3, OrderStays, CountIsNat DEF IInv, AtTarget

(* The step of a run, of a target or of the process keeps the invariant. *)
LEMMA NextInv == IInv /\ [Next]_vars => IInv'
<1> SUFFICES ASSUME IInv, [Next]_vars PROVE IInv'
  OBVIOUS
<1> USE OrderStays
<1>0. Count \in Nat /\ (targets' \in TargetLists => Count' \in Nat)
  BY CountIsNat DEF IInv
<1>1. ASSUME received' = received PROVE Arrived' = Arrived
  BY <1>1 DEF Arrived
<1>2. CASE Run \/ Crash
  BY <1>0, <1>1, <1>2 DEF Run, Crash, IInv, LoggedMeansArrived, Covered, Covers, ClosedMeansReached,
                    PassedIsReached,
                    disk, outside
<1>3. CASE Build
  BY <1>0, <1>1, <1>3 DEF Build, IInv, LoggedMeansArrived, Covered, Covers, ClosedMeansReached,
                    PassedIsReached, outside
<1>4. CASE NoBackend \/ SlackRefuses
  BY <1>1, <1>4, MissedInv DEF NoBackend, SlackRefuses, ToSend, outside, IInv
<1>5. CASE DedupHit
  <2>1. Served(t)
    BY <1>5, HitIsServed DEF DedupHit, IInv
  <2>2. /\ AtTarget /\ pc' = "target" /\ next' = next + 1 /\ UNCHANGED <<allOk, targets>>
        /\ UNCHANGED <<closed, outbound, summary, received, refused>>
    BY <1>5 DEF DedupHit, NextTarget, disk, outside
  <2>3. \A x : Served(x) => Served(x)'
    BY <1>1, <2>2, ServedStays
  <2>4. PassedIsReached'
    BY <2>1, <2>2, <2>3 DEF PassedIsReached, AtTarget, IInv, t
  <2> QED
    BY <1>0, <1>1, <2>2, <2>4 DEF IInv, AtTarget, LoggedMeansArrived, Covered, Covers, ClosedMeansReached
<1>6. CASE Send \/ LarkRefuses
  <2>1. /\ AtTarget /\ pc' = "log"
        /\ \/ received' = Append(received, Sent(t)) /\ refused' = refused
           \/ received' = received /\ refused' = refused \cup {Sent(t)}
        /\ UNCHANGED <<closed, outbound, summary, targets, next, allOk>>
    BY <1>6 DEF Send, LarkRefuses, ToSend, Arrives, disk
  <2>2. /\ (Arrived \cup refused)' = Arrived \cup refused \cup {Sent(t)}
        /\ Arrived \subseteq Arrived' /\ refused \subseteq refused'
        /\ received' \in Seq(Arrived')
    <3>1. CASE received' = Append(received, Sent(t)) /\ refused' = refused
      BY <3>1, ArrivedGrows DEF IInv
    <3>2. CASE received' = received /\ refused' = refused \cup {Sent(t)}
      BY <1>1, <3>2 DEF IInv
    <3> QED
      BY <2>1, <3>1, <3>2
  <2>3. \A x : Served(x) => Served(x)'
    BY <2>1, <2>2, ServedStays
  <2>4. Served(t)'
    <3>1. For(Sent(t), t)
      BY DEF Sent, For
    <3>2. t' = t /\ For(Sent(t), t)'
      BY <2>1, <3>1 DEF For, Text, IsDoc, Sent, t
    <3>3. (\E m \in Arrived \cup refused : For(m, t))'
      BY <2>2, <3>1, <2>1 DEF For, Text, IsDoc, t
    <3> QED
      BY <3>3 DEF Served, Reached, Refused
  <2>5. LoggedMeansArrived'
    BY <2>1, <2>2 DEF IInv, LoggedMeansArrived, Covered, Covers
  <2>6. PassedIsReached'
    BY <2>1, <2>3 DEF IInv, PassedIsReached, AtTarget
  <2> QED
    BY <1>0, <2>1, <2>2, <2>4, <2>5, <2>6 DEF IInv, AtTarget, ClosedMeansReached
<1>7. CASE Log
  <2>1. /\ pc = "log" /\ pc' = "target" /\ next' = next + 1
        /\ outbound' = outbound \cup {Row(t, Hash(t), TRUE)}
        /\ UNCHANGED <<closed, summary, received, refused, targets, allOk>>
    BY <1>7 DEF Log, NextTarget, outside
  <2>2. \A x : Served(x) => Served(x)'
    BY <1>1, <2>1, ServedStays
  <2>3. PassedIsReached'
    BY <2>1, <2>2 DEF IInv, PassedIsReached, t
  <2>4. LoggedMeansArrived'
    <3>1. PICK m \in Arrived \cup refused : /\ m.to = t.to /\ m.backend = t.backend
                                            /\ IsDoc(t) \/ m.text = Text(t)
      BY <2>1, ServedMessage DEF IInv, For
    <3>2. Hash(t) # <<"-">> => Hash(t)[1] = t.backend
                               /\ (t.backend = "lark_dm" => Hash(t)[2] = Text(t))
      BY DEF Hash
    <3>3. \A r \in outbound' : r \in outbound \/ (r.to = t.to /\ r.hash = Hash(t))
      BY <2>1 DEF Row
    <3>4. ASSUME NEW r \in outbound', r.ok, r.hash # <<"-">>
          PROVE  Covered(r)'
      <4>1. CASE r \in outbound
        BY <1>1, <2>1, <3>4, <4>1 DEF IInv, LoggedMeansArrived, Covered, Covers
      <4>2. CASE r.to = t.to /\ r.hash = Hash(t)
        <5>1. m.backend = "lark_dm" => m.text = Text(t)
          BY <3>1 DEF IsDoc
        <5>2. Hash(t)[1] = t.backend /\ (t.backend = "lark_dm" => Hash(t)[2] = Text(t))
          BY <3>2, <3>4, <4>2
        <5>3. r.hash[1] = t.backend /\ (t.backend = "lark_dm" => r.hash[2] = Text(t))
          BY <4>2, <5>2
        <5>4. m.to = r.to /\ m.backend = t.backend
          BY <3>1, <4>2
        <5> QED
          BY <1>1, <2>1, <5>1, <5>3, <5>4 DEF Covered, Covers
      <4> QED
        BY <3>3, <4>1, <4>2
    <3> QED
      BY <3>4 DEF LoggedMeansArrived
  <2> QED
    BY <1>0, <1>1, <2>1, <2>3, <2>4 DEF IInv, ClosedMeansReached
<1>8. CASE Fail
  <2>1. AtTarget /\ Missed(Hash(t)) /\ (Arrives \/ UNCHANGED outside)
    BY <1>8 DEF Fail, ToSend
  <2>2. Arrived \subseteq Arrived' /\ received' \in Seq(Arrived') /\ refused' = refused
    BY <1>1, <2>1, ArrivedGrows DEF Arrives, outside, IInv
  <2> QED
    BY <2>1, <2>2, MissedInv
<1>9. CASE End
  <2>1. /\ pc = "target" /\ next > Count /\ closed' = allOk /\ pc' = "idle"
        /\ UNCHANGED <<outbound, summary, received, refused, targets, next>>
    BY <1>9 DEF End, outside
  <2>2. ClosedMeansReached'
    <3>1. allOk => \A k \in DOMAIN targets : Served(targets[k])
      BY <1>0, <2>1, OrderServes DEF IInv, PassedIsReached
    <3>2. \A x : Served(x) => Served(x)'
      BY <1>1, <2>1, ServedStays
    <3> QED
      BY <2>1, <3>1, <3>2 DEF ClosedMeansReached, Served
  <2> QED
    BY <1>0, <1>1, <2>1, <2>2 DEF IInv, LoggedMeansArrived, Covered, Covers, PassedIsReached
<1>10. CASE UNCHANGED vars
  BY <1>0, <1>1, <1>10 DEF vars, disk, outside, run, bounds, IInv, LoggedMeansArrived, Covered,
                     ClosedMeansReached, PassedIsReached, Served, Reached, Refused, For, Text, t
<1> QED
  BY <1>2, <1>3, <1>4, <1>5, <1>6, <1>7, <1>8, <1>9, <1>10 DEF Next

-----------------------------------------------------------------------------
(* The inductive invariant of the delivery. *)
THEOREM Invariance == Spec => []IInv
BY InitInv, NextInv, PTL DEF Spec

(* A closed session has reached every target with the summary it keeps, or  *)
(* Lark has refused the message inside a 200.                               *)
THEOREM ClosedSafe == Spec => []ClosedMeansReached
<1>1. IInv => ClosedMeansReached
  BY DEF IInv
<1> QED
  BY <1>1, Invariance, PTL

(* What the outbound table says was sent did arrive or was so refused.      *)
THEOREM LoggedSafe == Spec => []LoggedMeansArrived
<1>1. IInv => LoggedMeansArrived
  BY DEF IInv
<1> QED
  BY <1>1, Invariance, PTL

-----------------------------------------------------------------------------
(* Counting: what is sent twice, and what a first run says of the link *)

(* A message that Lark shows to the end, and the row that tells of it.      *)
IsDirect(m) == m.backend = "lark_dm" /\ m.whole
RowOf(m)    == Row(m, <<"lark_dm", m.text, m.url>>, TRUE)

(* It is not sent again: its row is there, or is about to be logged.        *)
Settled(m) == RowOf(m) \in outbound \/ (pc = "log" /\ Sent(t) = m)

(* Each copy but one has its fault. *)
MessagesCounted ==
  \A m : IsDirect(m) =>
    /\ Copies(m) \in Nat
    /\ Copies(m) <= (IF Settled(m) THEN 1 ELSE 0) + faults + crashes

(* The targets whose document is logged, or about to be. *)
DocTargets == {x \in AllTargets : IsDoc(x)}
Made       == {x \in DocTargets : AlreadySent(x) \/ (pc = "log" /\ t = x)}

(* Each document beyond those has its fault. *)
DocsCounted == docs <= Cardinality(Made) + faults + crashes

(* Someone has got a message without the link. *)
Linkless   == \E m \in Arrived : IsDm(m) /\ m.whole /\ m.url = 0
NoDocsLeft == \A k \in next..Count : ~IsDoc(Order[k])

(* The first run starts with nothing; while all its results are ok, it has  *)
(* the link of the document that it made, and who got none of it shows that *)
(* there will be no document.                                               *)
FirstRun ==
  /\ runs = 0 \/ (runs = 1 /\ pc = "build") => Arrived = {} /\ docs = 0
  /\ runs = 0 => pc = "idle" /\ ~closed
  /\ runs = 1 /\ pc \in {"target", "log"} /\ allOk =>
       /\ docs > 0 => url > 0 \/ (pc = "log" /\ IsDoc(t))
       /\ Linkless => docs = 0 /\ NoDocsLeft
  /\ pc = "log" /\ IsDoc(t) => docs > 0

Base == IInv /\ TypeOK

-----------------------------------------------------------------------------
(* The target at hand is one of the lists. *)
LEMMA AtHand ==
  ASSUME IInv, AtTarget \/ pc = "log"
  PROVE  t \in Target /\ t \in AllTargets /\ next \in 1..Count
<1>1. next \in 1..Count
  BY CountIsNat DEF IInv, AtTarget
<1> QED
  BY <1>1, OrderServes DEF IInv, t

(* What is sent is a message. *)
LEMMA SentType ==
  ASSUME Base, t \in Target
  PROVE  /\ Sent(t) \in Message
         /\ Sent(t).to = t.to /\ Sent(t).backend = t.backend /\ Sent(t).text = Text(t)
         /\ Sent(t).whole = Whole(t)
         /\ IsDm(t) /\ Whole(t) => Sent(t).url = url
<1>1. url \in Nat /\ docs \in Nat /\ summary \in 0..MaxTexts
  BY DEF Base, TypeOK
<1>2. MaxTexts \in Nat
  BY DeliveryAssumption
<1>3. Text(t) \in 0..MaxTexts
  BY <1>1, <1>2 DEF Text
<1>4. Whole(t) \in BOOLEAN
  BY DEF Whole
<1> QED
  BY <1>1, <1>3, <1>4 DEF Sent, Message, Target

(* A whole message through Lark is logged under its own row. *)
LEMMA SentIsLogged ==
  ASSUME Base, t \in Target, IsDirect(Sent(t))
  PROVE  Deduplicates(t) /\ RowOf(Sent(t)) = Row(t, Hash(t), TRUE)
<1>1. t.backend = "lark_dm" /\ Whole(t) /\ IsDm(t)
  BY SentType DEF IsDirect, IsDm
<1> QED
  BY <1>1, SentType DEF Deduplicates, RowOf, Row, Hash

(* The next state of what belongs to the target at hand. *)
LEMMA TargetStays ==
  ASSUME UNCHANGED <<targets, next, summary, url>>
  PROVE  t' = t /\ Sent(t)' = Sent(t) /\ Order' = Order /\ Count' = Count
<1>1. t' = t /\ Order' = Order /\ Count' = Count
  BY OrderStays DEF t
<1> QED
  BY <1>1 DEF Sent, Whole, Text

(* An arrival is counted where it belongs. *)
LEMMA ArrivalCounted ==
  ASSUME IInv, NEW m, received' = Append(received, m), NEW x
  PROVE  /\ Copies(x) \in Nat
         /\ Copies(x)' = IF m = x THEN Copies(x) + 1 ELSE Copies(x)
<1>1. received \in Seq(Arrived \cup {m})
  <2> DEFINE S == Arrived \cup {m}
  <2>1. Arrived \subseteq S
    OBVIOUS
  <2> HIDE DEF S
  <2>2. received \in Seq(S)
    BY <2>1 DEF IInv
  <2> QED
    BY <2>2 DEF S
<1>2. CountOf(received, x) \in Nat
      /\ CountOf(Append(received, m), x)
           = IF m = x THEN CountOf(received, x) + 1 ELSE CountOf(received, x)
  BY <1>1, AppendCounts
<1>3. Copies(x) = CountOf(received, x) /\ Copies(x)' = CountOf(received', x)
  BY DEF Copies, CountOf
<1> QED
  BY <1>2, <1>3, Zenon

-----------------------------------------------------------------------------
(* What Lark has refused inside a 200 is a set of its messages. *)
LEMMA RefusedKept ==
  ASSUME Base, [Next]_vars
  PROVE  refused' \subseteq {m \in Message : m.backend = "lark_dm"}
<1>1. CASE LarkRefuses
  <2>1. AtTarget /\ t.backend = "lark_dm" /\ refused' = refused \cup {Sent(t)}
    BY <1>1 DEF LarkRefuses, ToSend
  <2>2. Sent(t) \in Message /\ Sent(t).backend = "lark_dm"
    BY <2>1, AtHand, SentType DEF Base
  <2> QED
    BY <2>1, <2>2 DEF Base, TypeOK
<1>2. CASE ~LarkRefuses
  <2>1. refused' = refused
    BY <1>2 DEF Next, Run, Build, NoBackend, DedupHit, SlackRefuses, Send, Arrives, Log, Fail,
       End, Crash, vars, outside
  <2> QED
    BY <2>1 DEF Base, TypeOK
<1> QED
  BY <1>1, <1>2

(* The types of the variables. *)
LEMMA TypeKept ==
  ASSUME Base, IInv', [Next]_vars
  PROVE  TypeOK'
<1> USE DEF Base, TypeOK
<1>a. ASSUME NEW h, NEW ok \in BOOLEAN, outbound' = outbound \cup {Row(t, h, ok)}
      PROVE  \A r \in outbound' : r.ok \in BOOLEAN
  <2>1. Row(t, h, ok).ok = ok
    BY DEF Row
  <2> QED
    BY <1>a, <2>1
<1>b. ASSUME NEW h, Missed(h)
      PROVE  /\ \A r \in outbound' : r.ok \in BOOLEAN
             /\ allOk' = FALSE /\ UNCHANGED <<closed, summary, url, backends>>
  <2>1. outbound' = outbound \cup {Row(t, h, FALSE)}
    BY <1>b DEF Missed
  <2>2. \A r \in outbound' : r.ok \in BOOLEAN
    BY <1>a, <2>1
  <2> QED
    BY <1>b, <2>2 DEF Missed, NextTarget
<1>0. /\ MaxTexts \in Nat /\ MaxRuns \in Nat /\ MaxFaults \in Nat /\ MaxCrashes \in Nat
      /\ targets' \in TargetLists /\ next' \in 1..(Count' + 1)
      /\ pc' \in {"idle", "build", "target", "log"}
      /\ refused' \subseteq {m \in Message : m.backend = "lark_dm"}
  BY DeliveryAssumption, RefusedKept DEF IInv
<1>1. CASE Run \/ Crash \/ End \/ UNCHANGED vars
  <2>1. CASE Run
    BY <1>0, <2>1 DEF Run, disk, outside, bounds
  <2>2. CASE Crash
    BY <1>0, <2>2 DEF Crash, disk, outside, run, bounds
  <2>3. CASE End
    BY <1>0, <2>3 DEF End, disk, outside, run, bounds
  <2>4. CASE UNCHANGED vars
    BY <1>0, <2>4 DEF vars, disk, outside, run, bounds
  <2> QED
    BY <1>1, <2>1, <2>2, <2>3, <2>4
<1>2. CASE Build
  BY <1>0, <1>2 DEF Build, outside, bounds
<1>3. CASE NoBackend \/ SlackRefuses
  <2>1. PICK h : Missed(h) /\ UNCHANGED <<outside, bounds>>
    BY <1>3 DEF NoBackend, SlackRefuses
  <2> QED
    BY <1>0, <1>b, <2>1 DEF outside, bounds
<1>4. CASE DedupHit
  BY <1>0, <1>4 DEF DedupHit, NextTarget, disk, outside, bounds
<1>5. ASSUME AtTarget, Arrives
      PROVE  received' \in Seq(Message) /\ docs' \in Nat /\ docs' >= docs
  BY <1>5, AtHand, SentType DEF Arrives
<1>6. CASE Send \/ LarkRefuses
  <2>1. CASE Send
    BY <1>0, <1>5, <2>1 DEF Send, ToSend, disk, bounds
  <2>2. CASE LarkRefuses
    BY <1>0, <2>2 DEF LarkRefuses, disk, bounds
  <2> QED
    BY <1>6, <2>1, <2>2
<1>7. CASE Log
  <2>1. outbound' = outbound \cup {Row(t, Hash(t), TRUE)}
    BY <1>7 DEF Log
  <2>2. \A r \in outbound' : r.ok \in BOOLEAN
    BY <1>a, <2>1
  <2>3. /\ url' \in {url, docs} /\ allOk' = allOk
        /\ UNCHANGED <<closed, summary, received, docs, backends, runs, faults, crashes>>
    BY <1>7 DEF Log, NextTarget, outside, bounds
  <2>4. url' \in 0..docs'
    BY <2>3
  <2> QED
    BY <1>0, <2>2, <2>3, <2>4
<1>8. CASE Fail
  <2>1. Missed(Hash(t))
    BY <1>8 DEF Fail
  <2>2. received' \in Seq(Message) /\ docs' \in Nat /\ docs' >= docs
    BY <1>5, <1>8 DEF Fail, ToSend, outside
  <2>3. /\ \A r \in outbound' : r.ok \in BOOLEAN
        /\ allOk' = FALSE /\ UNCHANGED <<closed, summary, url, backends>>
    BY <1>b, <2>1
  <2>4. faults' \in 0..MaxFaults /\ UNCHANGED <<runs, crashes>>
    BY <1>0, <1>8 DEF Fail
  <2>5. url' \in 0..docs'
    BY <2>2, <2>3
  <2> QED
    BY <1>0, <2>2, <2>3, <2>4, <2>5
<1> QED
  BY <1>1, <1>2, <1>3, <1>4, <1>6, <1>7, <1>8 DEF Next

(* What is settled stays so but for a stop of the process, which is counted. *)
LEMMA SettledStays ==
  ASSUME Base, [Next]_vars, ~Crash, NEW x, IsDirect(x), Settled(x)
  PROVE  Settled(x)'
<1>1. outbound \subseteq outbound'
  BY DEF Next, Run, Build, NoBackend, DedupHit, SlackRefuses, Missed, Send, LarkRefuses, Log, Fail, End,
     vars, disk
<1>2. CASE RowOf(x) \in outbound
  BY <1>1, <1>2 DEF Settled, RowOf, Row
<1>3. CASE pc = "log" /\ Sent(t) = x
  <2>1. CASE Log
    <3>1. t \in Target
      BY <1>3, AtHand DEF Base
    <3>2. RowOf(x) = Row(t, Hash(t), TRUE)
      BY <1>3, <3>1, SentIsLogged
    <3>3. Row(t, Hash(t), TRUE) \in outbound'
      BY <2>1 DEF Log
    <3> QED
      BY <3>2, <3>3 DEF Settled, RowOf, Row
  <2>2. CASE UNCHANGED vars
    <3>1. Sent(t)' = Sent(t) /\ pc' = pc
      BY <2>2, TargetStays DEF vars, run, disk
    <3> QED
      BY <1>3, <3>1 DEF Settled
  <2> QED
    BY <1>3, <2>1, <2>2 DEF Next, Run, Build, NoBackend, DedupHit, SlackRefuses, ToSend, AtTarget,
       Send, LarkRefuses, Fail, End
<1> QED
  BY <1>2, <1>3 DEF Settled

(* A message goes out only when it is not settled, and is so then; a failed *)
(* send and a stop have their count.                                        *)
LEMMA MessagesKept ==
  ASSUME Base, MessagesCounted, [Next]_vars
  PROVE  MessagesCounted'
<1> SUFFICES ASSUME NEW x, IsDirect(x)
             PROVE  /\ Copies(x)' \in Nat
                    /\ Copies(x)' <= (IF Settled(x)' THEN 1 ELSE 0) + faults' + crashes'
  BY DEF MessagesCounted, IsDirect
<1>0. /\ faults \in Nat /\ crashes \in Nat /\ Copies(x) \in Nat
      /\ Copies(x) <= (IF Settled(x) THEN 1 ELSE 0) + faults + crashes
  BY DeliveryAssumption DEF Base, TypeOK, MessagesCounted
<1>a. received' = received => Copies(x)' = Copies(x)
  BY DEF Copies
<1>b. ~Crash /\ Settled(x) => Settled(x)'
  BY SettledStays
<1>1. CASE Crash
  <2>1. received' = received /\ faults' = faults /\ crashes' = crashes + 1
    BY <1>1 DEF Crash, outside
  <2> QED
    BY <1>0, <1>a, <2>1
<1>2. CASE Send
  <2>1. /\ AtTarget /\ received' = Append(received, Sent(t)) /\ pc' = "log"
        /\ UNCHANGED <<targets, next, summary, url, faults, crashes>>
        /\ ~(Deduplicates(t) /\ AlreadySent(t))
    BY <1>2 DEF Send, ToSend, Arrives, disk, bounds
  <2>2. Copies(x)' = IF Sent(t) = x THEN Copies(x) + 1 ELSE Copies(x)
    BY <2>1, ArrivalCounted DEF Base
  <2>3. ASSUME Sent(t) = x
        PROVE  ~Settled(x) /\ Settled(x)'
    <3>1. Deduplicates(t) /\ RowOf(x) = Row(t, Hash(t), TRUE)
      BY <2>1, <2>3, AtHand, SentIsLogged DEF Base
    <3>2. ~Settled(x)
      BY <2>1, <3>1 DEF Settled, AlreadySent, AtTarget
    <3>3. Settled(x)'
      BY <2>1, <2>3, TargetStays DEF Settled
    <3> QED
      BY <3>2, <3>3
  <2>4. ~Crash
    BY <2>1 DEF Crash, AtTarget
  <2> QED
    BY <1>0, <1>b, <2>1, <2>2, <2>3, <2>4
<1>3. CASE Fail
  <2>1. /\ faults' = faults + 1 /\ crashes' = crashes /\ AtTarget
        /\ received' = received \/ received' = Append(received, Sent(t))
    BY <1>3 DEF Fail, ToSend, Arrives, outside
  <2>2. Copies(x)' \in {Copies(x), Copies(x) + 1}
    BY <1>a, <2>1, ArrivalCounted DEF Base
  <2>3. ~Crash
    BY <1>0, <2>1 DEF Crash
  <2> QED
    BY <1>0, <1>b, <2>1, <2>2, <2>3
<1>4. CASE \/ Run \/ Build \/ NoBackend \/ DedupHit \/ SlackRefuses \/ LarkRefuses \/ Log
           \/ End \/ UNCHANGED vars
  <2>1. UNCHANGED <<received, faults, crashes>>
    BY <1>4 DEF Run, Build, NoBackend, DedupHit, SlackRefuses, LarkRefuses, Log, End, vars,
       outside, bounds
  <2>2. ~Crash
    BY <1>0, <2>1 DEF Crash
  <2> QED
    BY <1>0, <1>a, <1>b, <2>1, <2>2
<1> QED
  BY <1>1, <1>2, <1>3, <1>4 DEF Next

-----------------------------------------------------------------------------
(* There are finitely many targets that are documents. *)
LEMMA DocTargetsFinite == IsFiniteSet(DocTargets)
<1> DEFINE members == [list \in TargetLists |-> {list[k] : k \in DOMAIN list}]
<1>1. ASSUME NEW list \in TargetLists
      PROVE  IsFiniteSet({list[k] : k \in DOMAIN list})
  <2>1. /\ list = [k \in DOMAIN list |-> list[k]]
        /\ DOMAIN list = 1..Len(list) /\ Len(list) \in Nat
    BY DeliveryAssumption
  <2>2. IsFiniteSet(DOMAIN list)
    <3>1. 1 \in Int /\ Len(list) \in Int
      BY <2>1
    <3>2. IsFiniteSet(1..Len(list))
      BY <3>1, FS_Interval
    <3> QED
      BY <2>1, <3>2
  <2> QED
    BY <2>1, <2>2, ImageFinite
<1>2. \A list \in TargetLists : IsFiniteSet(members[list])
  BY <1>1
<1>3. /\ members = [list \in TargetLists |-> members[list]]
      /\ AllTargets = UNION {members[list] : list \in TargetLists}
  BY DEF AllTargets
<1> HIDE DEF members
<1>4. IsFiniteSet({members[list] : list \in TargetLists})
  BY <1>3, ImageFinite, DeliveryAssumption
<1>5. IsFiniteSet(AllTargets)
  BY <1>2, <1>3, <1>4, FS_UNION
<1> QED
  BY <1>5, FS_Subset DEF DocTargets

(* So many documents are logged, or about to be. *)
LEMMA MadeFinite ==
  /\ IsFiniteSet(Made) /\ Cardinality(Made) \in Nat
  /\ IsFiniteSet(Made') /\ Cardinality(Made') \in Nat
<1>1. Made \subseteq DocTargets /\ Made' \subseteq DocTargets
  BY DEF Made, DocTargets, AllTargets, IsDoc
<1> QED
  BY <1>1, DocTargetsFinite, FS_Subset, FS_CardinalityType

(* A document that is logged is so for good. *)
LEMMA LoggedStays ==
  ASSUME [Next]_vars, NEW x \in DocTargets, AlreadySent(x)
  PROVE  AlreadySent(x)'
<1>1. outbound \subseteq outbound'
  BY DEF Next, Run, Build, NoBackend, DedupHit, SlackRefuses, Missed, Send, LarkRefuses, Log, Fail, End, Crash,
     vars, disk
<1>2. Hash(x)' = Hash(x)
  BY DEF Hash, DocTargets, IsDoc
<1> QED
  BY <1>1, <1>2 DEF AlreadySent, Row

(* A document is created only for a target that has none, which then has it. *)
LEMMA DocsKept ==
  ASSUME Base, DocsCounted, [Next]_vars
  PROVE  DocsCounted'
<1>0. /\ faults \in Nat /\ crashes \in Nat /\ docs \in Nat
      /\ docs <= Cardinality(Made) + faults + crashes
      /\ Cardinality(Made) \in Nat /\ Cardinality(Made') \in Nat
      /\ IsFiniteSet(Made) /\ IsFiniteSet(Made')
  BY DeliveryAssumption, MadeFinite DEF Base, TypeOK, DocsCounted
<1>a. Cardinality(Made)' = Cardinality(Made')
  OBVIOUS
<1>b. Made \subseteq Made' => Cardinality(Made) <= Cardinality(Made')
  BY <1>0, FS_Subset
<1>c. pc # "log" => Made \subseteq Made'
  BY LoggedStays DEF Made, DocTargets, AllTargets, IsDoc
<1>1. CASE Crash
  <2>1. docs' = docs /\ faults' = faults /\ crashes' = crashes + 1
    BY <1>1 DEF Crash, outside
  <2>2. Made \subseteq Made' \cup {t}
    BY LoggedStays DEF Made, DocTargets, AllTargets, IsDoc
  <2>3. Cardinality(Made) <= Cardinality(Made') + 1
    BY <1>0, <2>2, GainsOne
  <2> QED
    BY <1>0, <1>a, <2>1, <2>3 DEF DocsCounted
<1>2. CASE Send
  <2>1. /\ AtTarget /\ pc' = "log" /\ docs' = IF IsDoc(t) THEN docs + 1 ELSE docs
        /\ UNCHANGED <<targets, next, summary, url, faults, crashes>>
        /\ ~(Deduplicates(t) /\ AlreadySent(t))
    BY <1>2 DEF Send, ToSend, Arrives, disk, bounds
  <2>2. Made \subseteq Made'
    BY <1>c, <2>1 DEF AtTarget
  <2>3. ASSUME IsDoc(t) PROVE t \in Made' /\ t \notin Made
    <3>1. t \in DocTargets /\ t' = t
      BY <2>1, <2>3, AtHand, TargetStays DEF DocTargets, Base
    <3>2. t \notin Made
      BY <2>1, <2>3 DEF Made, AtTarget, Deduplicates, IsDoc
    <3>3. t \in Made'
      BY <2>1, <3>1 DEF Made, DocTargets, AllTargets, IsDoc
    <3> QED
      BY <3>2, <3>3
  <2>4. ASSUME IsDoc(t) PROVE Cardinality(Made) + 1 <= Cardinality(Made')
    <3>1. Made \cup {t} \subseteq Made'
      BY <2>2, <2>3, <2>4
    <3>2. IsFiniteSet(Made \cup {t}) /\ Cardinality(Made \cup {t}) = Cardinality(Made) + 1
      BY <1>0, <2>3, <2>4, FS_AddElement
    <3> QED
      BY <1>0, <3>1, <3>2, FS_Subset
  <2> QED
    BY <1>0, <1>a, <1>b, <2>1, <2>2, <2>4 DEF DocsCounted
<1>3. CASE Fail
  <2>1. /\ faults' = faults + 1 /\ crashes' = crashes /\ docs' \in {docs, docs + 1}
        /\ pc # "log"
    BY <1>3 DEF Fail, ToSend, AtTarget, Arrives, outside
  <2> QED
    BY <1>0, <1>a, <1>b, <1>c, <2>1 DEF DocsCounted
<1>4. CASE Log
  <2>1. UNCHANGED <<docs, faults, crashes>> /\ Row(t, Hash(t), TRUE) \in outbound'
    BY <1>4 DEF Log, outside, bounds
  <2>2. ASSUME NEW x \in DocTargets, t = x
        PROVE  AlreadySent(x)'
    <3>1. Hash(x)' = Hash(x)
      BY DEF Hash, DocTargets, IsDoc
    <3> QED
      BY <2>1, <2>2, <3>1 DEF AlreadySent, Row
  <2>3. Made \subseteq Made'
    BY <2>2, LoggedStays DEF Made, DocTargets, AllTargets, IsDoc
  <2> QED
    BY <1>0, <1>a, <1>b, <2>1, <2>3 DEF DocsCounted
<1>5. CASE Run \/ Build \/ NoBackend \/ DedupHit \/ SlackRefuses \/ LarkRefuses \/ End
  <2>1. UNCHANGED <<docs, faults, crashes>> /\ pc # "log"
    BY <1>5 DEF Run, Build, NoBackend, DedupHit, SlackRefuses, LarkRefuses, ToSend, AtTarget, End,
       outside, bounds
  <2> QED
    BY <1>0, <1>a, <1>b, <1>c, <2>1 DEF DocsCounted
<1>6. CASE UNCHANGED vars
  <2>1. t' = t /\ UNCHANGED <<pc, docs, faults, crashes>>
    BY <1>6, TargetStays DEF vars, disk, outside, run, bounds
  <2>2. Made \subseteq Made'
    BY <2>1, LoggedStays DEF Made, DocTargets, AllTargets, IsDoc
  <2> QED
    BY <1>0, <1>a, <1>b, <2>1, <2>2 DEF DocsCounted
<1> QED
  BY <1>1, <1>2, <1>3, <1>4, <1>5, <1>6 DEF Next

-----------------------------------------------------------------------------
(* A target that is not a document leaves no document behind it. *)
LEMMA DocsFirst ==
  ASSUME Base, AtTarget \/ pc = "log", ~IsDoc(t)
  PROVE  NoDocsLeft
<1>1. next \in 1..Count /\ targets \in TargetLists
  BY AtHand DEF Base, IInv
<1>2. \A k \in next..Count : k \in 1..Count /\ ~ (k < next)
  BY <1>1, CountIsNat
<1> QED
  BY <1>1, <1>2, OrderServes DEF NoDocsLeft, t

(* The documents of the first run come before its messages. *)
LEMMA FirstRunKept ==
  ASSUME Base, Base', FirstRun, [Next]_vars
  PROVE  FirstRun'
<1>0. /\ runs \in Nat /\ docs \in Nat /\ url \in Nat /\ next \in Nat /\ Count \in Nat
      /\ received \in Seq(Arrived)
  BY DeliveryAssumption, CountIsNat DEF Base, TypeOK, IInv
<1>a. received' = received => Arrived' = Arrived
  BY DEF Arrived
<1>b. received' = received => (Linkless' <=> Linkless)
  BY <1>a DEF Linkless, IsDm
<1>c. UNCHANGED targets => Order' = Order /\ Count' = Count
  BY OrderStays
<1>d. UNCHANGED targets /\ next' \in {next, next + 1} /\ NoDocsLeft => NoDocsLeft'
  <2> SUFFICES ASSUME UNCHANGED targets, next' \in {next, next + 1}, NoDocsLeft,
                      NEW k \in next'..Count'
               PROVE  ~IsDoc(Order'[k])
    BY DEF NoDocsLeft, IsDoc
  <2>1. k \in next..Count
    BY <1>0, <1>c
  <2> QED
    BY <1>c, <2>1 DEF NoDocsLeft
<1>1. CASE Run
  BY <1>0, <1>1 DEF Run, FirstRun, outside, Base, IInv, Arrived
<1>2. CASE Build
  <2>1. UNCHANGED <<received, docs, runs>> /\ pc = "build" /\ pc' = "target"
    BY <1>2 DEF Build, outside, bounds
  <2>2. runs # 0
    BY <2>1 DEF FirstRun
  <2>3. runs = 1 => ~Linkless /\ docs = 0
    BY <2>1 DEF FirstRun, Linkless
  <2> QED
    BY <1>b, <2>1, <2>2, <2>3 DEF FirstRun
<1>3. CASE NoBackend \/ SlackRefuses
  <2>1. allOk' = FALSE /\ pc' = "target" /\ runs' = runs /\ pc = "target"
    BY <1>3 DEF NoBackend, SlackRefuses, ToSend, AtTarget, Missed, NextTarget, bounds
  <2> QED
    BY <2>1 DEF FirstRun
<1>4. CASE Fail
  <2>1. allOk' = FALSE /\ pc' = "target" /\ runs' = runs /\ pc = "target"
    BY <1>4 DEF Fail, ToSend, AtTarget, Missed, NextTarget
  <2> QED
    BY <2>1 DEF FirstRun
<1>5. CASE DedupHit
  <2>1. /\ pc = "target" /\ pc' = "target" /\ next' = next + 1
        /\ UNCHANGED <<received, docs, url, allOk, runs, targets>>
    BY <1>5 DEF DedupHit, AtTarget, NextTarget, disk, outside, bounds
  <2> QED
    BY <1>b, <1>d, <2>1 DEF FirstRun
<1>6. CASE Send
  <2>1. /\ AtTarget /\ pc = "target" /\ pc' = "log"
        /\ received' = Append(received, Sent(t))
        /\ docs' = IF IsDoc(t) THEN docs + 1 ELSE docs
        /\ UNCHANGED <<targets, next, summary, url, allOk, runs>>
    BY <1>6 DEF Send, ToSend, AtTarget, Arrives, disk, bounds
  <2>2. t' = t /\ t \in Target /\ next \in 1..Count
    BY <2>1, TargetStays, AtHand DEF Base
  <2>3. Arrived' = Arrived \cup {Sent(t)}
    BY <1>0, <2>1, ArrivedGrows
  <2>4. IsDoc(t)' = IsDoc(t)
    BY <2>2 DEF IsDoc
  <2>5. CASE IsDoc(t)
    <3>1. ~IsDm(Sent(t))
      BY <2>2, <2>5, SentType DEF IsDm, IsDoc, Base
    <3>2. Linkless' <=> Linkless
      BY <2>3, <3>1 DEF Linkless, IsDm
    <3>3. ~NoDocsLeft
      BY <1>0, <2>2, <2>5 DEF NoDocsLeft, t
    <3>4. docs' > 0
      BY <1>0, <2>1, <2>5
    <3> QED
      BY <2>1, <2>4, <2>5, <3>2, <3>3, <3>4 DEF FirstRun
  <2>6. CASE ~IsDoc(t)
    <3>1. NoDocsLeft'
      BY <1>d, <2>1, <2>6, DocsFirst
    <3>2. docs' = docs
      BY <2>1, <2>6
    <3>3. Linkless' => Linkless \/ url = 0
      BY <2>2, <2>3, SentType DEF Linkless, IsDm
    <3>4. docs > 0 /\ url = 0 => ~ (runs = 1 /\ allOk)
      BY <2>1 DEF FirstRun
    <3>5. docs = 0 \/ docs > 0
      BY <1>0
    <3> QED
      BY <2>1, <2>4, <2>6, <3>1, <3>2, <3>3, <3>4, <3>5 DEF FirstRun
  <2> QED
    BY <2>5, <2>6
<1>7. CASE Log
  <2>1. /\ pc = "log" /\ pc' = "target" /\ next' = next + 1
        /\ url' = IF IsDoc(t) THEN docs ELSE url
        /\ UNCHANGED <<received, docs, allOk, runs, targets>>
    BY <1>7 DEF Log, NextTarget, outside, bounds
  <2> QED
    BY <1>b, <1>d, <2>1 DEF FirstRun
<1>8. CASE End \/ Crash
  <2>1. pc' = "idle" /\ runs' = runs /\ runs # 0
    BY <1>8 DEF End, Crash, FirstRun, bounds
  <2> QED
    BY <2>1 DEF FirstRun
<1>10. CASE LarkRefuses
  <2>1. /\ pc = "target" /\ pc' = "log" /\ t.backend = "lark_dm"
        /\ UNCHANGED <<received, docs, targets, next, url, allOk, runs>> /\ AtTarget
    BY <1>10 DEF LarkRefuses, ToSend, AtTarget, bounds
  <2>2. t' = t /\ ~IsDoc(t) /\ ~IsDoc(t)'
    BY <2>1, OrderStays DEF IsDoc, t
  <2>3. NoDocsLeft'
    BY <1>d, <2>1, <2>2, DocsFirst
  <2>4. docs > 0 => ~ (runs = 1 /\ allOk) \/ url > 0
    BY <2>1 DEF FirstRun
  <2>5. Linkless => docs = 0 \/ ~ (runs = 1 /\ allOk)
    BY <2>1 DEF FirstRun
  <2> QED
    BY <1>b, <2>1, <2>2, <2>3, <2>4, <2>5 DEF FirstRun
<1>9. CASE UNCHANGED vars
  <2>1. /\ t' = t /\ UNCHANGED <<received, docs, url, allOk, runs, targets, pc, next, closed>>
    BY <1>9, TargetStays DEF vars, disk, outside, run, bounds
  <2>2. IsDoc(t)' = IsDoc(t)
    BY <2>1 DEF IsDoc
  <2> QED
    BY <1>a, <1>b, <1>d, <2>1, <2>2 DEF FirstRun
<1> QED
  BY <1>1, <1>2, <1>3, <1>4, <1>5, <1>6, <1>7, <1>8, <1>9, <1>10 DEF Next

(* A first run that closes leaves no one without the link. *)
LEMMA LinkKept ==
  ASSUME Base, FirstRun, LinkGiven, [Next]_vars
  PROVE  LinkGiven'
<1> SUFFICES ASSUME closed', runs' = 1, docs' > 0,
                    NEW m \in Arrived', IsDm(m)', m.whole
             PROVE  m.url > 0
  BY DEF LinkGiven
<1>1. CASE closed
  <2>1. pc = "idle" /\ runs # 0
    BY <1>1 DEF Base, IInv, FirstRun
  <2>2. UNCHANGED <<received, docs, runs>>
    BY <1>1, <2>1 DEF Next, Run, Build, NoBackend, DedupHit, SlackRefuses, ToSend, AtTarget, Send,
       LarkRefuses, Log, Fail, End, Crash, vars, outside, bounds
  <2> QED
    BY <1>1, <2>2 DEF LinkGiven, Arrived, IsDm
<1>2. CASE ~closed
  <2>1. /\ pc = "target" /\ allOk /\ UNCHANGED <<received, docs, runs>>
    BY <1>2 DEF Next, Run, Build, NoBackend, DedupHit, SlackRefuses, Missed, Send, LarkRefuses, Log, Fail, End,
       Crash, vars, disk, outside, bounds
  <2>2. docs # 0 /\ Arrived' = Arrived
    BY <2>1 DEF Arrived
  <2>3. ~Linkless
    BY <2>1, <2>2 DEF FirstRun
  <2>4. m.url \in Nat /\ m.url # 0
    <3>1. m \in Arrived /\ IsDm(m)
      BY <2>2 DEF IsDm
    <3>2. m \in Message
      BY <3>1 DEF Base, TypeOK, Arrived
    <3> QED
      BY <2>3, <3>1, <3>2 DEF Linkless, Message
  <2> QED
    BY <2>4
<1> QED
  BY <1>1, <1>2

-----------------------------------------------------------------------------
(* The types, the counts and the first run, together with IInv. *)
DInv == Base /\ MessagesCounted /\ DocsCounted /\ FirstRun /\ LinkGiven

(* Nothing has been sent. *)
LEMMA InitDInv == Init => DInv
<1> SUFFICES ASSUME Init PROVE DInv
  OBVIOUS
<1>1. Arrived = {} /\ DOMAIN received = {} /\ received \in Seq(Message) /\ received \in Seq({})
  BY DEF Init, Arrived
<1>2. Base
  <2>1. /\ MaxTexts \in Nat /\ MaxRuns \in Nat /\ MaxFaults \in Nat /\ MaxCrashes \in Nat
        /\ Count \in Nat
    BY DeliveryAssumption, CountIsNat DEF Init
  <2>2. IInv
    BY InitInv
  <2>3. received \in Seq(Message) /\ next \in 1..(Count + 1) /\ \A r \in outbound : FALSE
    BY <1>1, <2>1 DEF Init
  <2>4. /\ summary \in 0..MaxTexts /\ docs \in Nat /\ url \in 0..docs
        /\ runs \in 0..MaxRuns /\ faults \in 0..MaxFaults /\ crashes \in 0..MaxCrashes
    BY <2>1 DEF Init
  <2>5. TypeOK
    BY <2>3, <2>4 DEF Init, TypeOK
  <2> QED
    BY <2>2, <2>5 DEF Base
<1>3. MessagesCounted
  <2> SUFFICES ASSUME NEW m PROVE Copies(m) = 0 /\ faults = 0 /\ crashes = 0
    BY DEF MessagesCounted
  <2>1. {k \in DOMAIN received : received[k] = m} = {}
    BY <1>1
  <2> QED
    BY <2>1, FS_EmptySet DEF Copies, Init
<1>4. DocsCounted
  BY MadeFinite DEF Init, DocsCounted
<1>5. FirstRun /\ LinkGiven
  BY <1>1 DEF Init, FirstRun, LinkGiven
<1> QED
  BY <1>2, <1>3, <1>4, <1>5 DEF DInv

(* Every step keeps them. *)
LEMMA NextDInv == DInv /\ [Next]_vars => DInv'
<1> SUFFICES ASSUME DInv, [Next]_vars PROVE DInv'
  OBVIOUS
<1>1. IInv'
  BY NextInv DEF DInv, Base
<1>2. Base'
  BY <1>1, TypeKept DEF DInv, Base
<1> QED
  BY <1>2, MessagesKept, DocsKept, FirstRunKept, LinkKept DEF DInv

(* They hold in every reachable state. *)
THEOREM CountedInvariance == Spec => []DInv
BY InitDInv, NextDInv, PTL DEF Spec

(* The variables of the delivery keep their types. *)
THEOREM TypeCorrect == Spec => []TypeOK
<1>1. DInv => TypeOK
  BY DEF DInv, Base
<1> QED
  BY <1>1, CountedInvariance, PTL

(* In however many runs, the same uncut message reaches a person through    *)
(* Lark once and a document is created once for each of its targets, but    *)
(* for the sends that were cut off or failed.                               *)
THEOREM OnceSafe == Spec => []SameMessageOnce
<1>1. DInv => SameMessageOnce
  <2> SUFFICES ASSUME DInv PROVE SameMessageOnce
    OBVIOUS
  <2>1. faults \in Nat /\ crashes \in Nat /\ docs \in Nat
    BY DeliveryAssumption DEF DInv, Base, TypeOK
  <2>2. \A m \in Arrived : (m.backend = "lark_dm" /\ m.whole) => Copies(m) <= 1 + faults + crashes
    BY <2>1 DEF DInv, MessagesCounted, IsDirect
  <2>3. Cardinality(Made) <= Cardinality(DocTargets) /\ Cardinality(DocTargets) \in Nat
    <3>1. Made \subseteq DocTargets
      BY DEF Made
    <3> QED
      BY <3>1, DocTargetsFinite, FS_Subset, FS_CardinalityType
  <2>4. docs <= Cardinality(DocTargets) + faults + crashes
    BY <2>1, <2>3, MadeFinite DEF DInv, DocsCounted
  <2> QED
    BY <2>2, <2>4 DEF SameMessageOnce, DocTargets
<1> QED
  BY <1>1, CountedInvariance, PTL

(* A first run that closes has given the link of the document to everyone   *)
(* whose message was not cut.                                               *)
THEOREM LinkSafe == Spec => []LinkGiven
<1>1. DInv => LinkGiven
  BY DEF DInv
<1> QED
  BY <1>1, CountedInvariance, PTL
=============================================================================
