----------------------------- MODULE UsersProofs -----------------------------
(***************************************************************************)
(* Proofs about the users table: whoever writes first, and however the     *)
(* worker's statements and the operator's commands interleave, nobody is   *)
(* paired with a stranger, a stranger is registered once, what the         *)
(* operator entered stands but for one gap, and a message ends in an       *)
(* exception only after a removal.                                         *)
(***************************************************************************)
EXTENDS Users, TLAPS

(* Admins, responders and whoever is paired with somebody, in the table, in *)
(* a session or in the worker's hands, are people the operator has named.   *)
Named ==
  /\ PairedWithNamed
  /\ found.pair # None => found.pair \in named
  /\ With("admin") \cup With("responder") \subseteq named
  /\ pc \in {"responder", "name"} => found.roles = {"requester"}
  /\ pc = "responder" => found.pair # None

(* A person without a row has been removed as often as registered: so has   *)
(* the one whom the worker is about to register.                            *)
Counted ==
  /\ \A p \in People : regs[p] <= IF Known(p) THEN 1 + removals[p] ELSE removals[p]
  /\ AboutToRegister(sender) => regs[sender] <= removals[sender]
  /\ \A p \in People : welcomes[p] <= regs[p]
  /\ pc = "welcome" => welcomes[sender] < regs[sender]

(* The row of whom the worker is about to register was entered in the gap.  *)
Stays ==
  /\ EnteredStays
  /\ AboutToRegister(sender) /\ entered[sender] # None => sender \in gap

(* What the worker has looked up is still there, or somebody was removed.   *)
Explained ==
  /\ SilenceExplained
  /\ pc \in {"responder", "name"} => found.pair # None /\ (Known(found.pair) \/ hurt)
  /\ pc \in {"welcome", "notify", "session", "open", "create"} => Known(sender) \/ hurt
  /\ pc = "create" => found.pair # None /\ (Known(found.pair) \/ hurt)

IInv == TypeOK /\ Named /\ Counted /\ Stays /\ Explained

-----------------------------------------------------------------------------
(* A command that enters a row: whom it makes an officer, and with whom it  *)
(* pairs, it names.                                                         *)
Enters(p, row) ==
  /\ Enter(p, row)
  /\ named \subseteq named' /\ named' \subseteq People
  /\ row.roles \cap {"admin", "responder"} # {} => p \in named'
  /\ row.pair # None => row.pair \in named'

(* Every command of the operator is one of these, or a removal. *)
LEMMA OperatorEnters ==
  ASSUME TypeOK, Operator
  PROVE  (\E p \in People, row \in Row : Enters(p, row)) \/ (\E p \in People : Remove(p))
<1>1. ASSUME NEW p \in People, Setup(p)
      PROVE  \E row \in Row : Enters(p, row)
  <2>1. [roles |-> {"admin", "responder"}, pair |-> None] \in Row
    BY DEF Row, Role
  <2> QED
    BY <1>1, <2>1 DEF Setup, Enters, TypeOK
<1>2. ASSUME NEW p \in People, NEW role \in {"admin", "responder"}, AddOfficer(p, role)
      PROVE  \E row \in Row : Enters(p, row)
  <2>1. [roles |-> {role}, pair |-> None] \in Row
    BY DEF Row, Role
  <2> QED
    BY <1>2, <2>1 DEF AddOfficer, Enters, TypeOK
<1>3. ASSUME NEW p \in People, NEW r \in People \cup {None}, AddRequester(p, r)
      PROVE  \E row \in Row : Enters(p, row)
  <2>1. Requester(r) \in Row
    BY DEF Requester, Row, Role
  <2>2. Requester(r).roles = {"requester"} /\ Requester(r).pair = r
    BY DEF Requester
  <2> QED
    BY <1>3, <2>1, <2>2 DEF AddRequester, Enters, TypeOK
<1> QED
  BY <1>1, <1>2, <1>3 DEF Operator

(* Every variable keeps its type.                                           *)
LEMMA Types ==
  ASSUME IInv, [Next]_vars
  PROVE  TypeOK'
<1> USE UsersAssumption DEF IInv, TypeOK, Row, Pcs, Ends, Goto, End, NoOne, table, handler,
        operator, counts
<1>1. ASSUME NEW p \in People, Look(p) PROVE TypeOK'
  <2>1. Known(p) => users[p] \in Row
    BY DEF Known
  <2>2. NoOne \in Row
    BY DEF Role
  <2> QED
    BY <1>1, <2>1, <2>2 DEF Look
<1>2. CASE Refuse
  BY <1>2 DEF Refuse
<1>3. ASSUME NEW p \in People, PairWithAdmin(p) \/ PairWithResponder(p) PROVE TypeOK'
  BY <1>3 DEF PairWithAdmin, PairWithResponder, Hold, Requester, Role
<1>4. CASE Upsert
  BY <1>4 DEF Upsert
<1>5. CASE Welcome
  BY <1>5 DEF Welcome
<1>6. CASE NotifyAdmin
  BY <1>6 DEF NotifyAdmin
<1>7. CASE FindSession
  BY <1>7 DEF FindSession
<1>8. CASE PointToCli
  BY <1>8 DEF PointToCli
<1>9. CASE Open
  BY <1>9 DEF Open
<1>10. CASE Create
  BY <1>10 DEF Create
<1>11. CASE InSession
  BY <1>11 DEF InSession
<1>12. CASE Crash
  BY <1>12 DEF Crash
<1>13. ASSUME NEW p \in People, NEW row \in Row, Enters(p, row) PROVE TypeOK'
  BY <1>13 DEF Enters, Enter, Command
<1>14. ASSUME NEW p \in People, Remove(p) PROVE TypeOK'
  BY <1>14 DEF Remove, Command
<1>15. CASE UNCHANGED vars
  BY <1>15 DEF vars
<1> QED
  BY <1>1, <1>2, <1>3, <1>4, <1>5, <1>6, <1>7, <1>8, <1>9, <1>10, <1>11, <1>12, <1>13, <1>14,
     <1>15, OperatorEnters DEF Next, Worker

(* Only people the operator has named come to be paired with or put in      *)
(* charge.                                                                  *)
LEMMA NamedKept ==
  ASSUME IInv, [Next]_vars
  PROVE  Named'
<1> USE UsersAssumption DEF IInv, Named, PairedWithNamed, With, Known, TypeOK, Pcs, Ends, Goto,
        End, NoOne, table, handler, operator, counts
<1>1. ASSUME NEW p \in People, Look(p) PROVE Named'
  BY <1>1 DEF Look, Row
<1>2. CASE Refuse
  BY <1>2 DEF Refuse
<1>3. ASSUME NEW p \in People, PairWithAdmin(p) \/ PairWithResponder(p) PROVE Named'
  BY <1>3 DEF PairWithAdmin, PairWithResponder, Hold, Requester
<1>4. CASE Upsert
  BY <1>4 DEF Upsert
<1>5. CASE Welcome
  BY <1>5 DEF Welcome
<1>6. CASE NotifyAdmin
  BY <1>6 DEF NotifyAdmin
<1>7. CASE FindSession
  BY <1>7 DEF FindSession
<1>8. CASE PointToCli
  BY <1>8 DEF PointToCli
<1>9. CASE Open
  BY <1>9 DEF Open
<1>10. CASE Create
  BY <1>10 DEF Create
<1>11. CASE InSession
  BY <1>11 DEF InSession
<1>12. CASE Crash
  BY <1>12 DEF Crash
<1>13. ASSUME NEW p \in People, NEW row \in Row, Enters(p, row) PROVE Named'
  BY <1>13 DEF Enters, Enter, Command
<1>14. ASSUME NEW p \in People, Remove(p) PROVE Named'
  BY <1>14 DEF Remove, Command
<1>15. CASE UNCHANGED vars
  BY <1>15 DEF vars
<1> QED
  BY <1>1, <1>2, <1>3, <1>4, <1>5, <1>6, <1>7, <1>8, <1>9, <1>10, <1>11, <1>12, <1>13, <1>14,
     <1>15, OperatorEnters DEF Next, Worker

(* A registration follows a look that found nobody, and a welcome follows a *)
(* registration.                                                            *)
LEMMA CountedKept ==
  ASSUME IInv, [Next]_vars
  PROVE  Counted'
<1> USE UsersAssumption DEF IInv, Counted, Known, AboutToRegister, TypeOK, Pcs, Ends, Goto, End,
        NoOne, table, handler, operator, counts
<1>1. ASSUME NEW p \in People, Look(p) PROVE Counted'
  BY <1>1 DEF Look
<1>2. CASE Refuse
  BY <1>2 DEF Refuse
<1>3. ASSUME NEW p \in People, PairWithAdmin(p) \/ PairWithResponder(p) PROVE Counted'
  BY <1>3 DEF PairWithAdmin, PairWithResponder, Hold, Requester
<1>4. CASE Upsert
  BY <1>4 DEF Upsert
<1>5. CASE Welcome
  BY <1>5 DEF Welcome
<1>6. CASE NotifyAdmin
  BY <1>6 DEF NotifyAdmin
<1>7. CASE FindSession
  BY <1>7 DEF FindSession
<1>8. CASE PointToCli
  BY <1>8 DEF PointToCli
<1>9. CASE Open
  BY <1>9 DEF Open
<1>10. CASE Create
  BY <1>10 DEF Create
<1>11. CASE InSession
  BY <1>11 DEF InSession
<1>12. CASE Crash
  BY <1>12 DEF Crash
<1>13. ASSUME NEW p \in People, NEW row \in Row, Enters(p, row) PROVE Counted'
  BY <1>13 DEF Enters, Enter, Command
<1>14. ASSUME NEW p \in People, Remove(p) PROVE Counted'
  BY <1>14 DEF Remove, Command
<1>15. CASE UNCHANGED vars
  BY <1>15 DEF vars
<1> QED
  BY <1>1, <1>2, <1>3, <1>4, <1>5, <1>6, <1>7, <1>8, <1>9, <1>10, <1>11, <1>12, <1>13, <1>14,
     <1>15, OperatorEnters DEF Next, Worker

(* A row that was entered outside the gap is not overwritten.               *)
LEMMA StaysKept ==
  ASSUME IInv, [Next]_vars
  PROVE  Stays'
<1> USE UsersAssumption DEF IInv, Stays, EnteredStays, Known, AboutToRegister, TypeOK, Pcs, Ends,
        Goto, End, NoOne, table, handler, operator, counts
<1>1. ASSUME NEW p \in People, Look(p) PROVE Stays'
  BY <1>1 DEF Look
<1>2. CASE Refuse
  BY <1>2 DEF Refuse
<1>3. ASSUME NEW p \in People, PairWithAdmin(p) \/ PairWithResponder(p) PROVE Stays'
  BY <1>3 DEF PairWithAdmin, PairWithResponder, Hold, Requester
<1>4. CASE Upsert
  BY <1>4 DEF Upsert
<1>5. CASE Welcome
  BY <1>5 DEF Welcome
<1>6. CASE NotifyAdmin
  BY <1>6 DEF NotifyAdmin
<1>7. CASE FindSession
  BY <1>7 DEF FindSession
<1>8. CASE PointToCli
  BY <1>8 DEF PointToCli
<1>9. CASE Open
  BY <1>9 DEF Open
<1>10. CASE Create
  BY <1>10 DEF Create
<1>11. CASE InSession
  BY <1>11 DEF InSession
<1>12. CASE Crash
  BY <1>12 DEF Crash
<1>13. ASSUME NEW p \in People, NEW row \in Row, Enters(p, row) PROVE Stays'
  BY <1>13 DEF Enters, Enter, Command
<1>14. ASSUME NEW p \in People, Remove(p) PROVE Stays'
  BY <1>14 DEF Remove, Command
<1>15. CASE UNCHANGED vars
  BY <1>15 DEF vars
<1> QED
  BY <1>1, <1>2, <1>3, <1>4, <1>5, <1>6, <1>7, <1>8, <1>9, <1>10, <1>11, <1>12, <1>13, <1>14,
     <1>15, OperatorEnters DEF Next, Worker

(* Nothing that was looked up is missed without a removal.                  *)
LEMMA ExplainedKept ==
  ASSUME IInv, [Next]_vars
  PROVE  Explained'
<1> USE UsersAssumption DEF IInv, Explained, SilenceExplained, Known, TypeOK, Pcs, Ends, Goto,
        End, NoOne, table, handler, operator, counts
<1>1. ASSUME NEW p \in People, Look(p) PROVE Explained'
  BY <1>1 DEF Look
<1>2. CASE Refuse
  BY <1>2 DEF Refuse
<1>3. ASSUME NEW p \in People, PairWithAdmin(p) \/ PairWithResponder(p) PROVE Explained'
  BY <1>3 DEF PairWithAdmin, PairWithResponder, Hold, Requester, With
<1>4. CASE Upsert
  BY <1>4 DEF Upsert
<1>5. CASE Welcome
  BY <1>5 DEF Welcome
<1>6. CASE NotifyAdmin
  BY <1>6 DEF NotifyAdmin
<1>7. CASE FindSession
  BY <1>7 DEF FindSession
<1>8. CASE PointToCli
  BY <1>8 DEF PointToCli
<1>9. CASE Open
  BY <1>9 DEF Open
<1>10. CASE Create
  BY <1>10 DEF Create
<1>11. CASE InSession
  BY <1>11 DEF InSession
<1>12. CASE Crash
  BY <1>12 DEF Crash
<1>13. ASSUME NEW p \in People, NEW row \in Row, Enters(p, row) PROVE Explained'
  BY <1>13 DEF Enters, Enter, Command
<1>14. ASSUME NEW p \in People, Remove(p) PROVE Explained'
  <2>1. \A q \in People : removals'[q] >= removals[q] /\ removals'[q] \in Nat
    BY <1>14 DEF Remove, Command
  <2>2. removals'[p] > 0
    BY <1>14 DEF Remove, Command
  <2>3. \A q \in People : q # p => users'[q] = users[q]
    BY <1>14 DEF Remove
  <2>4. hurt' = (hurt \/ pc # "idle") /\ UNCHANGED <<active, handler, end>>
    BY <1>14 DEF Remove
  <2>5. /\ end' = "failed" => hurt'
        /\ \A q \in People :
             active'[q] # None /\ users'[active'[q]] = None => removals'[active'[q]] > 0
    BY <2>1, <2>2, <2>3, <2>4
  <2>6. /\ pc' \in {"responder", "name"} => found'.pair # None /\ (Known(found.pair)' \/ hurt')
        /\ pc' \in {"welcome", "notify", "session", "open", "create"} => Known(sender)' \/ hurt'
        /\ pc' = "create" => found'.pair # None /\ (Known(found.pair)' \/ hurt')
    BY <2>4
  <2> QED
    BY <2>5, <2>6
<1>15. CASE UNCHANGED vars
  BY <1>15 DEF vars
<1> QED
  BY <1>1, <1>2, <1>3, <1>4, <1>5, <1>6, <1>7, <1>8, <1>9, <1>10, <1>11, <1>12, <1>13, <1>14,
     <1>15, OperatorEnters DEF Next, Worker

(* In the beginning there is nobody. *)
LEMMA InitInv ==
  ASSUME Init
  PROVE  IInv
<1> USE UsersAssumption DEF Init, Nobody, Never, NoOne, Known
<1>1. TypeOK
  <2>1. NoOne \in Row
    BY DEF Row, Role
  <2>2. Nobody \in [People -> Row \cup {None}] /\ Nobody \in [People -> People \cup {None}]
    OBVIOUS
  <2>3. Never \in [People -> Nat] /\ 0 \in 0..MaxEdits
    OBVIOUS
  <2> HIDE DEF NoOne, Nobody, Never
  <2> QED
    BY <2>1, <2>2, <2>3 DEF TypeOK, Pcs, Ends
<1>2. Named
  BY DEF Named, PairedWithNamed, With
<1>3. Counted /\ Stays
  BY DEF Counted, Stays, EnteredStays, AboutToRegister
<1>4. Explained
  BY DEF Explained, SilenceExplained
<1> QED
  BY <1>1, <1>2, <1>3, <1>4 DEF IInv

(* The invariant holds in every state. *)
THEOREM Invariance == Spec => []IInv
<1>1. Init => IInv
  BY InitInv
<1>2. IInv /\ [Next]_vars => IInv'
  BY Types, NamedKept, CountedKept, StaysKept, ExplainedKept DEF IInv
<1> QED
  BY <1>1, <1>2, PTL DEF Spec

(* Every value is of its type. *)
THEOREM TypeCorrect == Spec => []TypeOK
<1>1. IInv => TypeOK
  BY DEF IInv
<1> QED
  BY <1>1, Invariance, PTL

(* Nobody is paired with a stranger, and no session runs under one.         *)
THEOREM PairingSafe == Spec => []PairedWithNamed
<1>1. IInv => PairedWithNamed
  BY DEF IInv, Named
<1> QED
  BY <1>1, Invariance, PTL

(* A stranger is registered once, and once more after each removal, and     *)
(* welcomed no more often.                                                  *)
THEOREM WelcomeSafe == Spec => []WelcomedOnce
<1>1. IInv => WelcomedOnce
  <2> SUFFICES ASSUME IInv, NEW p \in People
               PROVE  regs[p] <= 1 + removals[p] /\ welcomes[p] <= regs[p]
    BY DEF WelcomedOnce
  <2>1. regs[p] \in Nat /\ removals[p] \in Nat
    BY DEF IInv, TypeOK
  <2>2. regs[p] <= IF Known(p) THEN 1 + removals[p] ELSE removals[p]
    BY DEF IInv, Counted
  <2> QED
    BY <2>1, <2>2 DEF IInv, Counted
<1> QED
  BY <1>1, Invariance, PTL

(* What the operator entered stands, but for what was entered in the gap.   *)
THEOREM EntrySafe == Spec => []EnteredStays
<1>1. IInv => EnteredStays
  BY DEF IInv, Stays
<1> QED
  BY <1>1, Invariance, PTL

(* A message ends in an exception only after somebody was removed. *)
THEOREM ExceptionSafe == Spec => []SilenceExplained
<1>1. IInv => SilenceExplained
  BY DEF IInv, Explained
<1> QED
  BY <1>1, Invariance, PTL
==============================================================================
