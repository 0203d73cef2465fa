--------------------------- MODULE ClientsProofs ---------------------------
(***************************************************************************)
(* The safety properties of Clients, for every number of attempts, every   *)
(* margin that covers an exchange and a request, and every lifetime of a   *)
(* token longer than both.                                                 *)
(***************************************************************************)
EXTENDS Clients, Integers, TLAPS

(* The numbers of the code are natural, and an exchange and a request fit   *)
(* both in the margin and in the life of a token.                           *)
LEMMA Constants ==
  /\ MaxAttempts \in Nat /\ Tries \in Nat /\ Margin \in Nat /\ ExchangeTime \in Nat
  /\ RequestTime \in Nat /\ UserTTL \in Nat /\ MaxNow \in Nat
  /\ Margin >= ExchangeTime + RequestTime
  /\ \A l \in Lifetimes : l \in Nat /\ l > ExchangeTime + RequestTime
BY ClientsAssumption DEF ClientsAssumption

(* A time that lies ahead is a time. *)
LEMMA AfterType == ASSUME TypeOK, NEW t \in Nat PROVE After(t) \in Nat
BY DEF TypeOK, After

(* An exception ends the call, or makes a rich post go on with its text; it *)
(* is a normal return only for a document that was created.                 *)
LEMMA FailEnds ==
  ASSUME TypeOK, NEW e \in Errors, Fail(e)
  PROVE  \/ call.kind = "rich" /\ call.part = 1 /\ NextPart
         \/ \E o \in Outcomes :
              /\ End(o)
              /\ o = "returned" => call.kind = "doc" /\ call.part = 2
              /\ o # "blank"
BY DEF Fail, Outcomes, Errors

(* What comes of a 2xx is an outcome: what was asked for if Lark gave it,   *)
(* or the document that exists; nothing only when Lark refused.             *)
LEMMA ResultType ==
  ASSUME TypeOK, req.answer \in {"ok", "refused"}
  PROVE  /\ Result \in Outcomes
         /\ Result = "returned" => req.answer = "ok" \/ (call.kind = "doc" /\ call.part = 2)
         /\ Result = "blank" => req.answer = "refused" /\ ~(call.kind = "doc" /\ call.part = 2)
BY DEF Result, Outcomes

(* The strings the steps use belong to their sets. *)
LEMMA Names ==
  /\ {"idle", "ready", "exchange", "issued", "sent", "served", "backoff"} \subseteq Phases
  /\ {"status", "transport", "value", "runtime"} \subseteq Errors
  /\ Errors \cup {"returned", "blank", "none"} \subseteq Outcomes
  /\ {"ok", "lost"} \subseteq Answers
  /\ NoToken \in Token
BY DEF Phases, Errors, Outcomes, Answers, NoToken, Token

(* The empty request is a request. *)
LEMMA NoReqType == ASSUME NEW phase \in Phases PROVE NoReq(phase) \in Requests
BY Names DEF NoReq, Requests

(* A call that ends leaves call, request and log of their types. *)
LEMMA EndType ==
  ASSUME TypeOK, NEW o \in Outcomes, End(o)
  PROVE  call' \in Calls /\ req' \in Requests /\ log' \in Logs
BY Names, NoReqType DEF End, TypeOK, Logs

(* So does a call that goes on with its next part. *)
LEMMA NextPartType ==
  ASSUME TypeOK, NextPart
  PROVE  call' \in Calls /\ req' \in Requests /\ log' \in Logs
BY Names, NoReqType DEF NextPart, TypeOK, Calls

(* So does an exception, which does one or the other. *)
LEMMA FailType ==
  ASSUME TypeOK, NEW e \in Errors, Fail(e)
  PROVE  call' \in Calls /\ req' \in Requests /\ log' \in Logs
BY FailEnds, EndType, NextPartType

(* The account stays one when an answer is written into it. *)
LEMMA NoteType ==
  ASSUME TypeOK, NEW a \in Answers, Note(a)
  PROVE  log' \in Logs
<1>1. CASE Unclear(a)
  BY <1>1 DEF TypeOK, Note, Logs
<1>2. CASE ~Unclear(a)
  BY <1>2 DEF TypeOK, Note, Logs
<1> QED BY <1>1, <1>2

-----------------------------------------------------------------------------
(* One lemma for each part of the invariant, one step for each action. *)

(* Types: every step of the clock, the token, the request and the cache. *)
LEMMA TypePreserved == TypeOK /\ [Next]_vars => TypeOK'
<1> SUFFICES ASSUME TypeOK, [Next]_vars PROVE TypeOK'
  OBVIOUS
<1> USE Constants, AfterType, Names, NoReqType DEF TypeOK
<1>1. ASSUME NEW k \in Kinds, NEW p \in People, Begin(k, p) PROVE TypeOK'
  BY <1>1 DEF Begin, NoLog, Calls, Logs
<1>2. CASE GetCached
  BY <1>2 DEF GetCached, Send, Requests
<1>3. CASE Exchange
  BY <1>3 DEF Exchange, Requests
<1>4. CASE Store
  BY <1>4 DEF Store, Send, Token, Requests
<1>5. ASSUME NEW l \in Lifetimes, Issue(l) PROVE TypeOK'
  BY <1>5 DEF Issue, Token, Requests, Logs
<1>6. ASSUME NEW e \in {"status", "transport", "value", "runtime"}, ExchangeFails(e) PROVE TypeOK'
  BY <1>6, FailType DEF ExchangeFails
<1>7. ASSUME NEW a \in Answers, NEW acts \in BOOLEAN, Serve(a, acts) PROVE TypeOK'
  <2>1. req' \in Requests
    BY <1>7 DEF Serve, Requests
  <2>2. CASE acts /\ Counts
    <3>1. log' = [log EXCEPT !.effects = @ + 1, !.last = a] /\ UNCHANGED <<now, tok, users, call>>
      BY <1>7, <2>2 DEF Serve
    <3>2. log.effects + 1 \in Nat
      BY DEF Logs
    <3>3. log' \in Logs
      <4> DEFINE n == log.effects + 1
      <4> HIDE DEF n
      <4>1. log' = [log EXCEPT !.effects = n, !.last = a] /\ n \in Nat
        BY <3>1, <3>2 DEF n
      <4> QED
        BY <4>1 DEF Logs
    <3> QED
      BY <3>1, <3>3, <2>1
  <2>3. CASE ~(acts /\ Counts)
    BY <1>7, <2>3, <2>1 DEF Serve, Logs
  <2> QED
    BY <2>2, <2>3
<1>8. CASE Return
  <2>1. users' \in [People -> Entry]
    <3> DEFINE until == call.asked + UserTTL
    <3>1. until \in Nat /\ req.readAt \in Nat
      BY DEF Calls, Requests
    <3> HIDE DEF until
    <3>2. [until |-> until, readAt |-> req.readAt] \in Entry
      BY <3>1 DEF Entry
    <3>3. users' = users \/ users' = [users EXCEPT ![call.who] = [until |-> until, readAt |-> req.readAt]]
      BY <1>8 DEF Return, Remember, until
    <3> QED
      BY <3>2, <3>3
  <2>2. call' \in Calls /\ req' \in Requests /\ log' \in Logs
    BY <1>8, NextPartType, EndType, ResultType DEF Return
  <2> QED
    BY <1>8, <2>1, <2>2 DEF Return
<1>9. CASE Expired
  <2>1. CASE LastAttempt
    BY <1>9, <2>1, FailType DEF Expired
  <2>2. CASE ~LastAttempt
    <3>1. call' \in Calls /\ req' \in Requests
      BY <1>9, <2>2 DEF Expired, Calls
    <3>2. log' \in Logs
      BY <1>9, <2>2 DEF Expired, Logs
    <3> QED
      BY <1>9, <3>1, <3>2 DEF Expired
  <2> QED
    BY <2>1, <2>2
<1>10. CASE BackOff
  BY <1>10, NoteType DEF BackOff, Requests
<1>11. CASE Wake
  BY <1>11 DEF Wake, Calls
<1>12. CASE Raise
  <2>1. ErrorOf(req.answer) \in Errors
    BY DEF ErrorOf
  <2>2. CASE call.kind = "rich" /\ call.part = 1
    <3>0. call' = [call EXCEPT !.part = 2, !.attempt = 0] /\ UNCHANGED <<now, tok, users>>
          /\ req' = NoReq("ready") /\ Note(req.answer)
      BY <1>12, <2>2 DEF Raise
    <3>1. call' \in Calls
      BY <3>0 DEF Calls
    <3>2. log' \in Logs
      BY <3>0, NoteType DEF Requests
    <3> QED
      BY <3>0, <3>1, <3>2
  <2>3. CASE ~(call.kind = "rich" /\ call.part = 1)
    BY <1>12, <2>1, <2>3, FailType DEF Raise
  <2> QED
    BY <2>2, <2>3
<1>13. CASE Download
  <2>1. \E o \in Outcomes : End(o)
    BY <1>13 DEF Download
  <2> QED
    BY <1>13, <2>1, EndType DEF Download
<1>14. ASSUME NEW o \in {"returned", "escaped"}, ChatDone(o) PROVE TypeOK'
  BY <1>14, EndType DEF ChatDone, Errors
<1>15. CASE ChatFails
  BY <1>15, EndType DEF ChatFails, Errors
<1>16. CASE Tick
  BY <1>16 DEF Tick
<1>17. CASE UNCHANGED vars
  BY <1>17 DEF vars
<1>. QED
  BY <1>1, <1>2, <1>3, <1>4, <1>5, <1>6, <1>7, <1>8, <1>9, <1>10, <1>11, <1>12,
     <1>13, <1>14, <1>15, <1>16, <1>17 DEF Next, Progress

(* The ages of tokens: what the cache takes for the end of one is at most   *)
(* an exchange too late, and a request in hand began with life left.        *)
LEMMA TimesPreserved == TypeOK /\ TokenTimes /\ [Next]_vars => TokenTimes'
<1> SUFFICES ASSUME TypeOK /\ TokenTimes, [Next]_vars PROVE TokenTimes'
  OBVIOUS
<1> USE Constants, Names
    DEF TypeOK, TokenTimes, Requests, Logs, Token, NoReq, NoToken, After, Usable
<1>1. ASSUME NEW k \in Kinds, NEW p \in People, Begin(k, p) PROVE TokenTimes'
  BY <1>1 DEF Begin, NoLog
<1>2. CASE GetCached
  BY <1>2 DEF GetCached, Send
<1>3. CASE Exchange
  BY <1>3 DEF Exchange
<1>4. CASE Store
  BY <1>4 DEF Store, Send
<1>5. ASSUME NEW l \in Lifetimes, Issue(l) PROVE TokenTimes'
  BY <1>5 DEF Issue
<1>6. ASSUME NEW e \in {"status", "transport", "value", "runtime"}, ExchangeFails(e)
      PROVE  TokenTimes'
  BY <1>6, FailEnds DEF ExchangeFails, End, NextPart, Errors
<1>7. ASSUME NEW a \in Answers, NEW acts \in BOOLEAN, Serve(a, acts) PROVE TokenTimes'
  BY <1>7 DEF Serve
<1>8. CASE Return
  BY <1>8 DEF Return, NextPart, End
<1>9. CASE Expired
  BY <1>9, FailEnds DEF Expired, End, NextPart, Errors
<1>10. CASE BackOff
  BY <1>10 DEF BackOff, Note
<1>11. CASE Wake
  BY <1>11 DEF Wake
<1>12. CASE Raise
  BY <1>12, FailEnds DEF Raise, Note, ErrorOf, End, NextPart, Errors
<1>13. CASE Download
  BY <1>13 DEF Download, End
<1>14. ASSUME NEW o \in {"returned", "escaped"}, ChatDone(o) PROVE TokenTimes'
  BY <1>14 DEF ChatDone, End
<1>15. CASE ChatFails
  BY <1>15 DEF ChatFails, End
<1>16. CASE Tick
  BY <1>16 DEF Tick
<1>17. CASE UNCHANGED vars
  BY <1>17 DEF vars
<1>. QED
  BY <1>1, <1>2, <1>3, <1>4, <1>5, <1>6, <1>7, <1>8, <1>9, <1>10, <1>11, <1>12,
     <1>13, <1>14, <1>15, <1>16, <1>17 DEF Next, Progress

(* The user cache is not looked at when a call ends or turns to its next    *)
(* part.                                                                    *)
LEMMA TurnKeepsUserTimes ==
  ASSUME UserTimes, UNCHANGED <<now, users>>, NextPart \/ \E o \in Outcomes : End(o), TypeOK
  PROVE  UserTimes'
<1>1. CASE NextPart
  BY <1>1 DEF UserTimes, NextPart, NoReq, TypeOK, Calls
<1>2. ASSUME NEW o \in Outcomes, End(o) PROVE UserTimes'
  BY <1>2 DEF UserTimes, End, NoReq
<1>. QED
  BY <1>1, <1>2

(* An exception ends the call or turns it to its next part. *)
LEMMA FailTurns ==
  ASSUME TypeOK, NEW e \in Errors, Fail(e)
  PROVE  NextPart \/ \E o \in Outcomes : End(o)
BY FailEnds

(* A call may end normally when its effect has been seen, or when it hands  *)
(* out the body of a refusal as a file, and with nothing when Lark has done *)
(* nothing that is not accounted for.                                       *)
LEMMA EndKeepsDone ==
  ASSUME TypeOK, Done, NEW o \in Outcomes, End(o),
         o = "returned" => \/ log.effects >= 1 \/ call.kind = "chat"
                           \/ call.kind = "file" /\ log.last \in {"refused", "expired"},
         o = "blank" => log.effects <= log.unclear
  PROVE  Done'
BY DEF TypeOK, Done, ResultIsTrue, End, NoReq, Logs

(* A call may go on to its next part: plain text after a failed rich post,  *)
(* the content of a document after its creation.                            *)
LEMMA NextPartKeepsDone ==
  ASSUME TypeOK, Done, NextPart, call.kind = "rich" \/ (call.kind = "doc" /\ log.effects >= 1)
  PROVE  Done'
BY DEF TypeOK, Done, ResultIsTrue, NextPart, NoReq, Calls

(* An exception is no normal return but for a document that exists. *)
LEMMA FailKeepsDone ==
  ASSUME TypeOK, Done, NEW e \in Errors, Fail(e)
  PROVE  Done'
<1>1. CASE call.kind = "rich" /\ call.part = 1 /\ NextPart
  BY <1>1, NextPartKeepsDone
<1>2. ASSUME NEW o \in Outcomes, End(o), o # "blank",
             o = "returned" => call.kind = "doc" /\ call.part = 2
      PROVE  Done'
  BY <1>2, EndKeepsDone DEF Done
<1>. QED
  BY <1>1, <1>2, FailEnds

(* What the user cache holds was fetched no later than it says. *)
LEMMA UserTimesPreserved == TypeOK /\ UserTimes /\ [Next]_vars => UserTimes'
<1> SUFFICES ASSUME TypeOK /\ UserTimes, [Next]_vars PROVE UserTimes'
  OBVIOUS
<1> USE Constants, Names DEF TypeOK, UserTimes, Requests, Calls, Entry, NoReq
<1>1. ASSUME NEW k \in Kinds, NEW p \in People, Begin(k, p) PROVE UserTimes'
  BY <1>1 DEF Begin, NoLog
<1>2. CASE GetCached
  BY <1>2 DEF GetCached, Send
<1>3. CASE Exchange
  BY <1>3 DEF Exchange
<1>4. CASE Store
  BY <1>4 DEF Store, Send
<1>5. ASSUME NEW l \in Lifetimes, Issue(l) PROVE UserTimes'
  BY <1>5 DEF Issue
<1>6. ASSUME NEW e \in {"status", "transport", "value", "runtime"}, ExchangeFails(e)
      PROVE  UserTimes'
  BY <1>6, FailTurns, TurnKeepsUserTimes DEF ExchangeFails, Errors
<1>7. ASSUME NEW a \in Answers, NEW acts \in BOOLEAN, Serve(a, acts) PROVE UserTimes'
  BY <1>7 DEF Serve
<1>8. CASE Return
  <2>1. CASE call.kind = "user"
    <3>1. users' = [users EXCEPT ![call.who] =
                     [until |-> call.asked + UserTTL, readAt |-> req.readAt]]
      BY <1>8, <2>1 DEF Return, Remember
    <3>2. \A p \in People : users'[p].until <= users'[p].readAt + UserTTL
      BY <1>8, <3>1 DEF Return
    <3>3. now' = now /\ End(Result)
      BY <1>8, <2>1 DEF Return
    <3> QED
      BY <3>2, <3>3 DEF End
  <2>2. CASE call.kind # "user"
    BY <1>8, <2>2, TurnKeepsUserTimes, ResultType DEF Return
  <2> QED
    BY <2>1, <2>2
<1>9. CASE Expired
  <2>1. CASE LastAttempt
    BY <1>9, <2>1, FailTurns, TurnKeepsUserTimes DEF Expired, Errors
  <2>2. CASE ~LastAttempt
    BY <1>9, <2>2 DEF Expired
  <2> QED
    BY <2>1, <2>2
<1>10. CASE BackOff
  BY <1>10 DEF BackOff, Note
<1>11. CASE Wake
  BY <1>11 DEF Wake
<1>12. CASE Raise
  <2>1. CASE call.kind = "rich" /\ call.part = 1
    <3>1. /\ call' = [call EXCEPT !.part = 2, !.attempt = 0] /\ req' = NoReq("ready")
          /\ Note(req.answer) /\ UNCHANGED <<now, tok, users>>
      BY <1>12, <2>1 DEF Raise
    <3> QED
      BY <3>1
  <2>2. CASE ~(call.kind = "rich" /\ call.part = 1)
    BY <1>12, <2>2, FailTurns, TurnKeepsUserTimes DEF Raise, Errors, ErrorOf
  <2> QED
    BY <2>1, <2>2
<1>13. CASE Download
  BY <1>13 DEF Download, End
<1>14. ASSUME NEW o \in {"returned", "escaped"}, ChatDone(o) PROVE UserTimes'
  BY <1>14 DEF ChatDone, End
<1>15. CASE ChatFails
  BY <1>15 DEF ChatFails, End
<1>16. CASE Tick
  BY <1>16 DEF Tick
<1>17. CASE UNCHANGED vars
  BY <1>17 DEF vars
<1>. QED
  BY <1>1, <1>2, <1>3, <1>4, <1>5, <1>6, <1>7, <1>8, <1>9, <1>10, <1>11, <1>12,
     <1>13, <1>14, <1>15, <1>16, <1>17 DEF Next, Progress

(* Effects are paid for by the one that was asked for and by unclear        *)
(* answers.                                                                 *)
LEMMA CountsPreserved == TypeOK /\ EffectCounts /\ [Next]_vars => EffectCounts'
<1> SUFFICES ASSUME TypeOK /\ EffectCounts, [Next]_vars PROVE EffectCounts'
  OBVIOUS
<1> USE Names
    DEF TypeOK, EffectCounts, EffectsExplained, Counts, MayAct, Requests, Calls, Logs, NoReq
<1>1. ASSUME NEW k \in Kinds, NEW p \in People, Begin(k, p) PROVE EffectCounts'
  BY <1>1 DEF Begin, NoLog
<1>2. CASE GetCached
  BY <1>2 DEF GetCached, Send
<1>3. CASE Exchange
  BY <1>3 DEF Exchange
<1>4. CASE Store
  BY <1>4 DEF Store, Send
<1>5. ASSUME NEW l \in Lifetimes, Issue(l) PROVE EffectCounts'
  BY <1>5 DEF Issue
<1>6. ASSUME NEW e \in {"status", "transport", "value", "runtime"}, ExchangeFails(e)
      PROVE  EffectCounts'
  BY <1>6, FailEnds DEF ExchangeFails, End, NextPart, Errors
<1>7. ASSUME NEW a \in Answers, NEW acts \in BOOLEAN, Serve(a, acts) PROVE EffectCounts'
  BY <1>7 DEF Serve
<1>8. CASE Return
  <2>1. CASE call.kind = "doc" /\ call.part = 1 /\ req.answer = "ok"
    <3>1. NextPart
      BY <1>8, <2>1 DEF Return
    <3> QED
      BY <2>1, <3>1 DEF NextPart
  <2>2. ASSUME NEW o \in Outcomes, End(o) PROVE EffectCounts'
    BY <2>2 DEF End
  <2> QED
    BY <1>8, <2>1, <2>2, ResultType DEF Return
<1>9. CASE Expired
  BY <1>9, FailEnds DEF Expired, End, NextPart, Errors
<1>10. CASE BackOff
  BY <1>10 DEF BackOff, Note, Unclear
<1>11. CASE Wake
  BY <1>11 DEF Wake
<1>12. CASE Raise
  BY <1>12, FailEnds DEF Raise, Note, Unclear, ErrorOf, End, NextPart, Errors
<1>13. CASE Download
  BY <1>13 DEF Download, End
<1>14. ASSUME NEW o \in {"returned", "escaped"}, ChatDone(o) PROVE EffectCounts'
  BY <1>14 DEF ChatDone, End
<1>15. CASE ChatFails
  BY <1>15 DEF ChatFails, End
<1>16. CASE Tick
  BY <1>16 DEF Tick
<1>17. CASE UNCHANGED vars
  BY <1>17 DEF vars
<1>. QED
  BY <1>1, <1>2, <1>3, <1>4, <1>5, <1>6, <1>7, <1>8, <1>9, <1>10, <1>11, <1>12,
     <1>13, <1>14, <1>15, <1>16, <1>17 DEF Next, Progress

(* A request that is answered with success has been carried out, and one    *)
(* that is refused has added nothing.                                       *)
LEMMA DonePreserved == TypeOK /\ EffectCounts /\ Done /\ [Next]_vars => Done'
<1> SUFFICES ASSUME TypeOK /\ EffectCounts /\ Done, [Next]_vars PROVE Done'
  OBVIOUS
<1> USE Names DEF TypeOK, Done, ResultIsTrue, Counts, Requests, Calls, Logs, NoReq
<1>1. ASSUME NEW k \in Kinds, NEW p \in People, Begin(k, p) PROVE Done'
  BY <1>1 DEF Begin, NoLog
<1>2. CASE GetCached
  BY <1>2 DEF GetCached, Send
<1>3. CASE Exchange
  BY <1>3 DEF Exchange
<1>4. CASE Store
  BY <1>4 DEF Store, Send
<1>5. ASSUME NEW l \in Lifetimes, Issue(l) PROVE Done'
  BY <1>5 DEF Issue
<1>6. ASSUME NEW e \in {"status", "transport", "value", "runtime"}, ExchangeFails(e) PROVE Done'
  BY <1>6, FailKeepsDone DEF ExchangeFails, Errors
<1>7. ASSUME NEW a \in Answers, NEW acts \in BOOLEAN, Serve(a, acts) PROVE Done'
  BY <1>7 DEF Serve
<1>8. CASE Return
  <2>1. CASE call.kind = "doc" /\ call.part = 1 /\ req.answer = "ok"
    BY <1>8, <2>1, NextPartKeepsDone DEF Return
  <2>2. CASE ~(call.kind = "doc" /\ call.part = 1 /\ req.answer = "ok")
    <3>1. End(Result) /\ req.answer \in {"ok", "refused"} /\ req.at = "served"
      BY <1>8, <2>2 DEF Return
    <3>2. Result = "returned" => log.effects >= 1
      BY <3>1, ResultType
    <3>3. Result = "blank" => log.effects <= log.unclear
      BY <3>1, ResultType DEF EffectCounts, MayAct
    <3> QED
      BY <3>1, <3>2, <3>3, EndKeepsDone, ResultType
  <2> QED
    BY <2>1, <2>2
<1>9. CASE Expired
  <2>1. CASE LastAttempt
    BY <1>9, <2>1, FailKeepsDone DEF Expired, Errors
  <2>2. CASE ~LastAttempt
    BY <1>9, <2>2 DEF Expired
  <2> QED
    BY <2>1, <2>2
<1>10. CASE BackOff
  BY <1>10 DEF BackOff, Note
<1>11. CASE Wake
  BY <1>11 DEF Wake
<1>12. CASE Raise
  <2>1. CASE call.kind = "rich" /\ call.part = 1
    <3>1. /\ call' = [call EXCEPT !.part = 2, !.attempt = 0] /\ req' = NoReq("ready")
          /\ Note(req.answer) /\ UNCHANGED <<now, tok, users>>
      BY <1>12, <2>1 DEF Raise
    <3> QED
      BY <2>1, <3>1 DEF Note
  <2>2. CASE ~(call.kind = "rich" /\ call.part = 1)
    BY <1>12, <2>2, FailKeepsDone DEF Raise, Errors, ErrorOf
  <2> QED
    BY <2>1, <2>2
<1>13. CASE Download
  <2>1. \E o \in Outcomes \ {"blank"} :
          End(o) /\ (o = "returned" => req.answer \in {"ok", "garbled", "refused", "expired"})
    BY <1>13 DEF Download, Outcomes, Errors, Answers
  <2> QED
    BY <1>13, <2>1, EndKeepsDone DEF Download
<1>14. ASSUME NEW o \in {"returned", "escaped"}, ChatDone(o) PROVE Done'
  BY <1>14 DEF ChatDone, End
<1>15. CASE ChatFails
  BY <1>15 DEF ChatFails, End
<1>16. CASE Tick
  BY <1>16 DEF Tick
<1>17. CASE UNCHANGED vars
  BY <1>17 DEF vars
<1>. QED
  BY <1>1, <1>2, <1>3, <1>4, <1>5, <1>6, <1>7, <1>8, <1>9, <1>10, <1>11, <1>12,
     <1>13, <1>14, <1>15, <1>16, <1>17 DEF Next, Progress

-----------------------------------------------------------------------------
(* The inductive invariant of the clients. *)
THEOREM Invariance == Spec => []IInv
<1>1. Init => IInv
  BY Constants DEF Init, IInv, TypeOK, TokenTimes, EffectCounts, Done, UserTimes,
     EffectsExplained, ResultIsTrue, Counts, NoToken, NoReq, NoLog, Unknown, Token, Entry,
     Calls, Requests, Logs, Kinds, Phases, Answers, MayAct, Outcomes, Errors
<1>2. IInv /\ [Next]_vars => IInv'
  BY TypePreserved, TimesPreserved, UserTimesPreserved, CountsPreserved, DonePreserved DEF IInv
<1>. QED
  BY <1>1, <1>2, PTL DEF Spec

(* Call, request, token, cache and account keep their types. *)
THEOREM TypeCorrect == Spec => []TypeOK
<1>1. IInv => TypeOK
  BY DEF IInv
<1>. QED
  BY <1>1, Invariance, PTL

(* A request on its way carries a token that is alive and not rejected, for *)
(* every margin that covers an exchange and a request.                      *)
THEOREM TokenAliveSafe == Spec => []TokenAlive
<1>1. IInv => TokenAlive
  BY DEF IInv, TypeOK, TokenTimes, TokenAlive, Requests, Token
<1>. QED
  BY <1>1, Invariance, PTL

(* Lark acts once for a call, and once more for each unclear answer. *)
THEOREM EffectsSafe == Spec => []EffectsExplained
<1>1. IInv => EffectsExplained
  BY DEF IInv, EffectCounts
<1>. QED
  BY <1>1, Invariance, PTL

(* What a call returns tells what Lark did, however many requests it took.  *)
THEOREM ReturnSafe == Spec => []ResultIsTrue
<1>1. IInv => ResultIsTrue
  BY DEF IInv, Done
<1>. QED
  BY <1>1, Invariance, PTL

(* A user is not served from the cache past the time to live. *)
THEOREM UserFreshSafe == Spec => []UserFresh
<1>1. IInv => UserFresh
  BY Constants DEF IInv, TypeOK, UserTimes, UserFresh, Fresh, Entry
<1>. QED
  BY <1>1, Invariance, PTL

-----------------------------------------------------------------------------
(* A call comes to its end: what it has left to do is a number, which gets  *)
(* smaller with every step but those of the clock.                          *)

Limit == IF call.kind = "chat" THEN Tries ELSE MaxAttempts

(* A call under way makes no more attempts than it has, and waits only for  *)
(* one it has.                                                              *)
AttemptFits ==
  /\ req.at # "idle" => call.attempt < Limit
  /\ req.at = "backoff" => call.attempt + 1 < Limit
  /\ call.kind = "chat" => req.at \in {"idle", "ready", "backoff"}

(* A rich post and a document may have a second part to come. *)
MoreParts == call.kind \in {"rich", "doc"} /\ call.part = 1

StepsAt == [idle |-> 0, backoff |-> 1, served |-> 2, sent |-> 3, issued |-> 4,
            exchange |-> 5, ready |-> 6]

(* An attempt takes six steps, and a part as many attempts as there are.    *)
Work == IF req.at = "idle" THEN 0
        ELSE StepsAt[req.at] + 8 * (Limit - call.attempt)
               + (IF MoreParts THEN 8 * MaxAttempts ELSE 0)

CallAdvances == [][req.at = "idle" \/ Tick \/ Work' < Work]_vars

(* There is work left while the call is under way, and only then. *)
LEMMA WorkType ==
  ASSUME TypeOK, AttemptFits
  PROVE  /\ Work \in Nat /\ (req.at # "idle" => Work > 8)
         /\ call.attempt \in Nat /\ Limit \in Nat
<1>1. StepsAt[req.at] \in 0..6 /\ (req.at # "idle" => StepsAt[req.at] > 0)
  BY DEF TypeOK, Requests, Phases, StepsAt
<1>2. call.attempt \in Nat /\ Limit \in Nat /\ MaxAttempts \in Nat
  BY Constants DEF TypeOK, Calls, Limit
<1> QED
  BY <1>1, <1>2 DEF Work, AttemptFits

(* The two ways on for a call that is through with a request: its end, ...  *)
LEMMA EndAdvances ==
  ASSUME TypeOK, AttemptFits, req.at # "idle", NEW o, End(o)
  PROVE  Work' < Work /\ AttemptFits'
<1>1. req'.at = "idle" /\ call' = call
  BY DEF End, NoReq
<1>2. Work' = 0
  BY <1>1 DEF Work
<1>3. Work > 0
  BY WorkType
<1> QED
  BY <1>1, <1>2, <1>3 DEF AttemptFits

(* ... and its second part, if it has one. *)
LEMMA NextPartAdvances ==
  ASSUME TypeOK, AttemptFits, req.at # "idle", MoreParts,
         call' = [call EXCEPT !.part = 2, !.attempt = 0], req' = NoReq("ready")
  PROVE  Work' < Work /\ AttemptFits'
<1>1. /\ req'.at = "ready" /\ call'.kind = call.kind /\ call'.part = 2 /\ call'.attempt = 0
      /\ call.kind # "chat"
  BY DEF NoReq, TypeOK, Calls, MoreParts
<1>2. Limit = MaxAttempts /\ Limit' = MaxAttempts /\ MaxAttempts \in Nat /\ MaxAttempts > 0
  BY <1>1, ClientsAssumption DEF Limit, ClientsAssumption
<1>3. Work' = 6 + 8 * MaxAttempts
  BY <1>1, <1>2 DEF Work, MoreParts, StepsAt
<1>4. StepsAt[req.at] \in 1..6
  BY DEF TypeOK, Requests, Phases, StepsAt
<1>5. call.attempt \in Nat /\ call.attempt < MaxAttempts
  BY <1>2 DEF TypeOK, Calls, AttemptFits
<1>6. Work = StepsAt[req.at] + 8 * (MaxAttempts - call.attempt) + 8 * MaxAttempts
  BY <1>2 DEF Work
<1>7. Work' < Work
  BY <1>2, <1>3, <1>4, <1>5, <1>6
<1> QED
  BY <1>1, <1>2, <1>7 DEF AttemptFits

(* An exception does one or the other. *)
LEMMA FailAdvances ==
  ASSUME TypeOK, AttemptFits, req.at # "idle", NEW e \in Errors, Fail(e)
  PROVE  Work' < Work /\ AttemptFits'
BY FailEnds, EndAdvances, NextPartAdvances DEF NextPart, MoreParts

(* The same attempt, a step further on. *)
LEMMA OnwardAdvances ==
  ASSUME TypeOK, AttemptFits, NEW p \in Phases \ {"idle"}, NEW q \in Phases \ {"idle"},
         req.at = p, req'.at = q, StepsAt[q] < StepsAt[p], call' = call,
         call.kind # "chat", q = "backoff" => call.attempt + 1 < Limit
  PROVE  Work' < Work /\ AttemptFits'
<1>1. StepsAt[p] \in Nat /\ StepsAt[q] \in Nat
  BY DEF Phases, StepsAt
<1>2. Limit' = Limit /\ MoreParts' = MoreParts
  BY DEF Limit, MoreParts
<1>3. call.attempt \in Nat /\ Limit \in Nat /\ MaxAttempts \in Nat
  BY WorkType, Constants
<1> DEFINE rest == 8 * (Limit - call.attempt) + (IF MoreParts THEN 8 * MaxAttempts ELSE 0)
<1>4. rest \in Int
  <2>1. (IF MoreParts THEN 8 * MaxAttempts ELSE 0) \in Int
    BY <1>3
  <2>2. 8 * (Limit - call.attempt) \in Int
    BY <1>3
  <2> QED
    BY <2>1, <2>2
<1>5. Work = StepsAt[p] + rest /\ Work' = StepsAt[q] + rest
  BY <1>1, <1>2, <1>3 DEF Work
<1> HIDE DEF rest
<1>6. Work' < Work
  BY <1>1, <1>4, <1>5
<1> QED
  BY <1>2, <1>6 DEF AttemptFits

(* The next attempt, if there is one. *)
LEMMA AttemptAdvances ==
  ASSUME TypeOK, AttemptFits, req.at # "idle", call.attempt + 1 < Limit,
         call' = [call EXCEPT !.attempt = @ + 1], req' = NoReq("ready")
  PROVE  Work' < Work /\ AttemptFits'
<1>1. /\ req'.at = "ready" /\ call'.kind = call.kind /\ call'.part = call.part
      /\ call'.attempt = call.attempt + 1
  BY DEF NoReq, TypeOK, Calls
<1>2. Limit' = Limit /\ MoreParts' = MoreParts
  BY <1>1 DEF Limit, MoreParts
<1>3. call.attempt \in Nat /\ Limit \in Nat /\ MaxAttempts \in Nat
  BY WorkType, Constants
<1>4. StepsAt[req.at] \in 1..6 /\ StepsAt["ready"] = 6
  BY DEF TypeOK, Requests, Phases, StepsAt
<1> DEFINE rest == 8 * (Limit - call.attempt) + (IF MoreParts THEN 8 * MaxAttempts ELSE 0)
<1>5. rest \in Int
  <2>1. (IF MoreParts THEN 8 * MaxAttempts ELSE 0) \in Int
    BY <1>3
  <2>2. 8 * (Limit - call.attempt) \in Int
    BY <1>3
  <2> QED
    BY <2>1, <2>2
<1>6. Work = StepsAt[req.at] + rest /\ Work' = 6 + rest - 8
  BY <1>1, <1>2, <1>3, <1>4 DEF Work
<1> HIDE DEF rest
<1>7. Work' < Work
  BY <1>4, <1>5, <1>6
<1> QED
  BY <1>1, <1>2, <1>7 DEF AttemptFits

(* Every step of a call under way brings it nearer to its end. *)
LEMMA ProgressAdvances ==
  ASSUME TypeOK, AttemptFits, Progress
  PROVE  req.at # "idle" /\ Work' < Work /\ AttemptFits'
<1> USE DEF StepsAt, Phases
<1>a. req.at # "idle"
  BY DEF Progress, GetCached, Exchange, Store, Issue, ExchangeFails, Serve, Return, Expired,
     BackOff, Wake, Raise, Download, ChatDone, ChatFails
<1>b. call.kind = "chat" => req.at \in {"ready", "backoff"}
  BY <1>a DEF AttemptFits
<1>c. call.kind # "chat" => Limit = MaxAttempts
  BY DEF Limit
<1>1. CASE GetCached \/ Exchange \/ Store \/ (\E l \in Lifetimes : Issue(l))
  <2>1. call.kind # "chat" /\ call' = call
    BY <1>1, <1>b DEF GetCached, Exchange, Store, Issue
  <2>2. CASE GetCached
    BY <2>1, <2>2, OnwardAdvances DEF GetCached, Send, TypeOK, Requests
  <2>3. CASE Exchange
    BY <2>1, <2>3, OnwardAdvances DEF Exchange, TypeOK, Requests
  <2>4. CASE Store
    BY <2>1, <2>4, OnwardAdvances DEF Store, Send, TypeOK, Requests
  <2>5. CASE \E l \in Lifetimes : Issue(l)
    BY <2>1, <2>5, OnwardAdvances DEF Issue, TypeOK, Requests
  <2> QED
    BY <1>1, <2>2, <2>3, <2>4, <2>5
<1>2. ASSUME NEW e \in {"status", "transport", "value", "runtime"}, ExchangeFails(e)
      PROVE  Work' < Work /\ AttemptFits'
  BY <1>a, <1>2, FailAdvances, Names DEF ExchangeFails
<1>3. ASSUME NEW a \in Answers, NEW acts \in BOOLEAN, Serve(a, acts)
      PROVE  Work' < Work /\ AttemptFits'
  <2>1. req.at = "sent" /\ req'.at = "served" /\ call' = call /\ call.kind # "chat"
    BY <1>3, <1>b DEF Serve, TypeOK, Requests
  <2> QED
    BY <2>1, OnwardAdvances
<1>4. CASE Return
  <2>1. CASE call.kind = "doc" /\ call.part = 1 /\ req.answer = "ok"
    BY <1>4, <1>a, <2>1, NextPartAdvances DEF Return, NextPart, MoreParts
  <2>2. CASE ~(call.kind = "doc" /\ call.part = 1 /\ req.answer = "ok")
    BY <1>4, <1>a, <2>2, EndAdvances DEF Return
  <2> QED
    BY <2>1, <2>2
<1>5. CASE Expired
  <2>1. CASE LastAttempt
    BY <1>5, <1>a, <2>1, FailAdvances, Names DEF Expired
  <2>2. CASE ~LastAttempt
    <3>1. call.kind # "chat" /\ call.attempt + 1 < Limit
      <4>1. call.kind # "chat"
        BY <1>5, <1>b DEF Expired
      <4>2. call.attempt \in Nat /\ MaxAttempts \in Nat
        BY WorkType, Constants
      <4> QED
        BY <1>c, <2>2, <4>1, <4>2 DEF LastAttempt
    <3> QED
      BY <1>5, <1>a, <2>2, <3>1, AttemptAdvances DEF Expired
  <2> QED
    BY <2>1, <2>2
<1>6. CASE BackOff
  <2>1. req.at = "served" /\ req'.at = "backoff" /\ call' = call /\ call.kind # "chat"
    BY <1>6, <1>b DEF BackOff, NoReq
  <2>2. call.attempt + 1 < Limit
    <3>1. call.attempt \in Nat /\ MaxAttempts \in Nat
      BY WorkType, Constants
    <3> QED
      BY <1>6, <1>c, <2>1, <3>1 DEF BackOff, LastAttempt
  <2> QED
    BY <2>1, <2>2, OnwardAdvances
<1>7. CASE Wake
  <2>1. call.attempt + 1 < Limit
    BY <1>7 DEF Wake, AttemptFits
  <2> QED
    BY <1>7, <1>a, <2>1, AttemptAdvances DEF Wake
<1>8. CASE Raise
  <2>1. CASE call.kind = "rich" /\ call.part = 1
    BY <1>8, <1>a, <2>1, NextPartAdvances DEF Raise, MoreParts
  <2>2. CASE ~(call.kind = "rich" /\ call.part = 1)
    BY <1>8, <1>a, <2>2, FailAdvances, Names DEF Raise, ErrorOf
  <2> QED
    BY <2>1, <2>2
<1>9. CASE Download
  BY <1>9, <1>a, EndAdvances DEF Download
<1>10. ASSUME NEW o \in {"returned", "escaped"}, ChatDone(o)
       PROVE  Work' < Work /\ AttemptFits'
  BY <1>10, <1>a, EndAdvances DEF ChatDone
<1>11. CASE ChatFails
  <2>1. req.at = "ready" /\ call.kind = "chat" /\ Limit = Tries
    BY <1>11 DEF ChatFails, Limit
  <2>2. CASE call.attempt + 1 < Tries
    <3>1. req'.at = "backoff" /\ call' = call
      BY <1>11, <2>2 DEF ChatFails, NoReq
    <3>2. Limit' = Limit /\ MoreParts' = MoreParts
      BY <3>1 DEF Limit, MoreParts
    <3>3. call.attempt \in Nat /\ Limit \in Nat /\ MaxAttempts \in Nat
      BY WorkType, Constants
    <3>4. Work' < Work
      BY <2>1, <3>1, <3>2, <3>3 DEF Work
    <3> QED
      BY <2>1, <2>2, <3>1, <3>2, <3>4 DEF AttemptFits
  <2>3. CASE ~ (call.attempt + 1 < Tries)
    BY <1>11, <1>a, <2>3, EndAdvances DEF ChatFails
  <2> QED
    BY <2>2, <2>3
<1> QED
  BY <1>a, <1>1, <1>2, <1>3, <1>4, <1>5, <1>6, <1>7, <1>8, <1>9, <1>10, <1>11 DEF Progress

(* No call makes more attempts than _MAX_ATTEMPTS or max_retries allow: the *)
(* loops of _request_with_retry and of DeepSeekClient.chat, each part of a  *)
(* post anew.                                                               *)
THEOREM AttemptsSafe == Spec => []AttemptFits
<1>1. Init => AttemptFits
  BY DEF Init, AttemptFits, NoReq
<1>2. TypeOK /\ AttemptFits /\ [Next]_vars => AttemptFits'
  <2> SUFFICES ASSUME TypeOK, AttemptFits, [Next]_vars PROVE AttemptFits'
    OBVIOUS
  <2>1. ASSUME NEW k \in Kinds, NEW p \in People, Begin(k, p) PROVE AttemptFits'
    <3>1. call'.kind = k /\ call'.attempt = 0 /\ req'.at = "ready"
      BY <2>1 DEF Begin, NoReq
    <3>2. Limit' > 0
      BY <3>1, ClientsAssumption DEF Limit, ClientsAssumption
    <3> QED
      BY <3>1, <3>2 DEF AttemptFits
  <2>2. CASE Tick \/ UNCHANGED vars
    BY <2>2 DEF Tick, vars, AttemptFits, Limit
  <2>3. CASE Progress
    BY <2>3, ProgressAdvances
  <2> QED
    BY <2>1, <2>2, <2>3 DEF Next
<1> QED
  BY <1>1, <1>2, TypeCorrect, PTL DEF Spec

(* Every step of a call but one of the clock brings it nearer to its end,   *)
(* by a number that only the attempts and the parts of the call bound: no   *)
(* call goes on for ever as long as its requests and sleeps do not.         *)
THEOREM CallAdvancesSafe == Spec => CallAdvances
<1>1. TypeOK /\ AttemptFits /\ [Next]_vars => [req.at = "idle" \/ Tick \/ Work' < Work]_vars
  <2> SUFFICES ASSUME TypeOK, AttemptFits, Next, req.at # "idle", ~Tick
               PROVE  Work' < Work
    OBVIOUS
  <2>1. Progress
    BY DEF Next, Begin
  <2> QED
    BY <2>1, ProgressAdvances
<1> QED
  BY <1>1, TypeCorrect, AttemptsSafe, PTL DEF Spec, CallAdvances
============================================================================
