------------------------------ MODULE Clients ------------------------------
(***************************************************************************)
(* The clients of the two services the process calls: Lark                 *)
(* (lark/client.py, with the token of lark/token.py) and the LLM           *)
(* (llm/deepseek.py).  The worker makes one call at a time.                *)
(*                                                                         *)
(* A call to Lark takes up to MaxAttempts requests, each with a token from *)
(* the cache or from an exchange of its own.  Lark acts on a request when  *)
(* it serves it and the answer arrives later or never.  Code takes no      *)
(* time; requests, exchanges and sleeps do.                                *)
(***************************************************************************)
EXTENDS Naturals

CONSTANTS
  People,        \* open_ids
  MaxAttempts,   \* _MAX_ATTEMPTS of the Lark client
  Tries,         \* max_retries of the LLM client
  Margin,        \* how long before its end a token is given up (600 s)
  ExchangeTime,  \* longest exchange of a token (15 s)
  RequestTime,   \* longest time until a request is served or given up (30 s)
  Lifetimes,     \* what `expire' of an exchange may say (7200 s)
  UserTTL,       \* _user_cache_ttl (600 s)
  MaxNow         \* bound: the clock

ASSUME ClientsAssumption ==
  /\ {MaxAttempts, Tries} \subseteq Nat \ {0}
  /\ {Margin, ExchangeTime, RequestTime, UserTTL, MaxNow} \subseteq Nat
  /\ Lifetimes \subseteq Nat
  /\ Margin >= ExchangeTime + RequestTime
  /\ \A l \in Lifetimes : l > ExchangeTime + RequestTime

VARIABLES
  now,    \* time.time()
  tok,    \* the token cache: what it takes for the end of the token, and the true one
  users,  \* _user_cache, with the time Lark read the entry
  call,   \* the call under way, or the last one
  req,    \* where it is, and its request
  log     \* of the call: what Lark did and last said, what stayed unclear, how it ended

vars == <<now, tok, users, call, req, log>>

(* text: a single request, as that of a message or a get.  rich: the post   *)
(* of a finding, with its text as a second part if the first fails.  doc: a *)
(* document is created and then filled.                                     *)
Kinds   == {"text", "rich", "doc", "update", "user", "file", "chat"}
Phases  == {"idle", "ready", "exchange", "issued", "sent", "served", "backoff"}

(* What comes back: refused is a 2xx with a code of Lark other than 0,      *)
(* expired the one for the token, client a 4xx, busy a 429, server a 5xx;   *)
(* garbled has no JSON in it, lost never comes.                             *)
Answers  == {"ok", "refused", "expired", "client", "busy", "server", "garbled", "lost"}
MayAct   == {"ok", "server", "garbled", "lost"}
Errors   == {"status", "transport", "value", "runtime", "terminal", "escaped"}

(* How a call ends: returned with what was asked for, or what is taken for  *)
(* it; blank with an empty id or dict; false as update_message; or with an  *)
(* exception.                                                               *)
Outcomes == {"none", "returned", "blank", "false"} \cup Errors

NoToken  == [exp |-> 0, dies |-> 0]
Token    == [exp : Nat, dies : Nat]
Unknown  == [until |-> 0, readAt |-> 0]
Entry    == [until : Nat, readAt : Nat]
Calls    == [kind : Kinds, who : People, part : {1, 2}, attempt : Nat, asked : Nat]
Requests == [at : Phases, by : Nat, token : Token, life : Nat, answer : Answers, readAt : Nat]
Logs     == [effects : Nat, unclear : Nat, rejected : BOOLEAN, last : Answers, outcome : Outcomes]
NoReq(phase) == [at |-> phase, by |-> 0, token |-> NoToken, life |-> 0,
                 answer |-> "ok", readAt |-> 0]
NoLog    == [effects |-> 0, unclear |-> 0, rejected |-> FALSE, last |-> "lost",
             outcome |-> "none"]

TypeOK ==
  /\ now \in Nat
  /\ tok \in Token
  /\ users \in [People -> Entry]
  /\ call \in Calls
  /\ req \in Requests
  /\ log \in Logs

Usable(t)         == now + Margin < t.exp

(* The time t from now. *)
After(t) == now + t

Fresh(p) == now < users[p].until

Init ==
  /\ now = 0
  /\ tok = NoToken
  /\ users = [p \in People |-> Unknown]
  /\ call \in [kind : {"text"}, who : People, part : {1}, attempt : {0}, asked : {0}]
  /\ req = NoReq("idle")
  /\ log = NoLog

-----------------------------------------------------------------------------
(* The ends and the turns of a call. *)

End(o) ==
  /\ req' = NoReq("idle")
  /\ log' = [log EXCEPT !.outcome = o]
  /\ UNCHANGED call

NextPart ==
  /\ call' = [call EXCEPT !.part = 2, !.attempt = 0]
  /\ req' = NoReq("ready")
  /\ UNCHANGED log

(* Mutant: the whole of create_doc is in the try. *)
FailQuietly(e) ==
  \/ call.kind = "rich" /\ call.part = 1 /\ NextPart
  \/ call.kind = "doc" /\ e \in {"status", "transport"} /\ End("returned")
  \/ call.kind = "update" /\ e = "status" /\ End("false")
  \/ /\ ~(call.kind = "rich" /\ call.part = 1)
     /\ ~(call.kind = "doc" /\ e \in {"status", "transport"})
     /\ ~(call.kind = "update" /\ e = "status")
     /\ End(e)

(* An exception leaves _request_with_retry.  A rich post is followed by its *)
(* text whatever went wrong, and the text by nothing; the body of a         *)
(* document is missed only for an httpx.HTTPError; update_message answers   *)
(* False to an HTTPStatusError alone.                                       *)
Fail(e) ==
  \/ call.kind = "rich" /\ call.part = 1 /\ NextPart
  \/ call.kind = "doc" /\ call.part = 2 /\ e \in {"status", "transport"} /\ End("returned")
  \/ call.kind = "update" /\ e = "status" /\ End("false")
  \/ /\ ~(call.kind = "rich" /\ call.part = 1)
     /\ ~(call.kind = "doc" /\ call.part = 2 /\ e \in {"status", "transport"})
     /\ ~(call.kind = "update" /\ e = "status")
     /\ End(e)

LastAttempt == call.attempt + 1 >= MaxAttempts

Begin(k, p) ==
  /\ req.at = "idle"
  /\ k = "user" => ~Fresh(p)
  /\ call' = [kind |-> k, who |-> p, part |-> 1, attempt |-> 0,
              asked |-> IF k = "user" THEN now ELSE 0]
  /\ req' = NoReq("ready")
  /\ log' = NoLog
  /\ UNCHANGED <<now, tok, users>>

-----------------------------------------------------------------------------
(* TenantTokenCache.get *)

Send(t) == req' = [req EXCEPT !.at = "sent", !.by = After(RequestTime), !.token = t]

GetCached ==
  /\ req.at = "ready" /\ call.kind # "chat"
  /\ Usable(tok)
  /\ Send(tok)
  /\ UNCHANGED <<now, tok, users, call, log>>

Exchange ==
  /\ req.at = "ready" /\ call.kind # "chat"
  /\ ~Usable(tok)
  /\ req' = [req EXCEPT !.at = "exchange", !.by = After(ExchangeTime)]
  /\ UNCHANGED <<now, tok, users, call, log>>

(* Lark issues the token: its life begins.  A new one is not one that has   *)
(* been rejected.                                                           *)
Issue(l) ==
  /\ req.at = "exchange"
  /\ req' = [req EXCEPT !.at = "issued", !.life = l, !.token = [exp |-> 0, dies |-> After(l)]]
  /\ log' = [log EXCEPT !.rejected = FALSE]
  /\ UNCHANGED <<now, tok, users, call>>

(* The answer arrives, and the life is counted from here. *)
Store ==
  /\ req.at = "issued"
  /\ tok' = [exp |-> After(req.life), dies |-> req.token.dies]
  /\ Send(tok')
  /\ UNCHANGED <<now, users, call, log>>

(* No answer, a bad status, one that is no JSON, or a code other than 0.    *)
ExchangeFails(e) ==
  /\ req.at \in {"exchange", "issued"}
  /\ Fail(e)
  /\ UNCHANGED <<now, tok, users>>

-----------------------------------------------------------------------------
(* Lark *)

(* Only the first part creates the document; both parts of a rich post show *)
(* the finding.                                                             *)
Counts == call.kind = "rich" \/ call.part = 1

Serve(a, acts) ==
  /\ req.at = "sent"
  /\ now >= req.token.dies => a \in {"expired", "lost"}
  /\ acts => a \in MayAct
  /\ a = "ok" => acts
  /\ a = "garbled" => call.kind # "file"
  /\ req' = [req EXCEPT !.at = "served", !.answer = a, !.readAt = now]
  /\ log' = [log EXCEPT !.effects = IF acts /\ Counts THEN @ + 1 ELSE @, !.last = a]
  /\ UNCHANGED <<now, tok, users, call>>

-----------------------------------------------------------------------------
(* _request_with_retry *)

(* Mutant: the time is taken when the answer is there. *)
RememberFromAnswer ==
  users' = [users EXCEPT ![call.who] =
    [until |-> After(UserTTL), readAt |-> req.readAt]]

(* get_user: what is in the answer, nothing if that is refused, is kept,    *)
(* for a time that begins before the request.                               *)
Remember ==
  users' = [users EXCEPT ![call.who] =
    [until |-> call.asked + UserTTL, readAt |-> req.readAt]]

(* What the caller makes of a 2xx: the id or the data in it, none if Lark   *)
(* refused; update_message looks at the code; create_doc returns the        *)
(* document of its first part whatever the second brought.                  *)
Result ==
  CASE req.answer = "ok" \/ (call.kind = "doc" /\ call.part = 2) -> "returned"
    [] call.kind = "update" /\ req.answer = "refused" -> "false"
    [] OTHER -> "blank"

(* Any 2xx is a success to _request_with_retry. *)
Return ==
  /\ req.at = "served" /\ call.kind # "file"
  /\ req.answer \in {"ok", "refused"}
  /\ IF call.kind = "user" THEN Remember ELSE UNCHANGED users
  /\ IF call.kind = "doc" /\ call.part = 1 /\ req.answer = "ok" THEN NextPart
     ELSE End(Result)
  /\ UNCHANGED <<now, tok>>

(* Mutant: the token stays in the cache. *)
ExpiredKept ==
  /\ req.at = "served" /\ call.kind # "file"
  /\ req.answer = "expired"
  /\ IF LastAttempt
     THEN Fail("runtime")
     ELSE /\ call' = [call EXCEPT !.attempt = @ + 1]
          /\ req' = NoReq("ready")
          /\ log' = [log EXCEPT !.rejected = TRUE]
  /\ UNCHANGED <<now, tok, users>>

(* Mutant: an expired token does not use up an attempt. *)
ExpiredForFree ==
  /\ req.at = "served" /\ call.kind # "file"
  /\ req.answer = "expired"
  /\ tok' = NoToken
  /\ req' = NoReq("ready")
  /\ log' = [log EXCEPT !.rejected = TRUE]
  /\ UNCHANGED <<now, users, call>>

(* invalidate, and the next attempt at once; after the last one the loop    *)
(* ends, with a RuntimeError.                                               *)
Expired ==
  /\ req.at = "served" /\ call.kind # "file"
  /\ req.answer = "expired"
  /\ tok' = NoToken
  /\ IF LastAttempt
     THEN Fail("runtime")
     ELSE /\ call' = [call EXCEPT !.attempt = @ + 1]
          /\ req' = NoReq("ready")
          /\ log' = [log EXCEPT !.rejected = TRUE]
  /\ UNCHANGED <<now, users>>

(* Answers that leave open whether Lark acted, and after which the post is  *)
(* sent again, by the loop or as the text of a finding.                     *)
Unclear(a) == a = "server" \/ (a \in {"garbled", "lost"} /\ call.kind = "rich" /\ call.part = 1)
Note(a)    == log' = [log EXCEPT !.unclear = IF Unclear(a) THEN @ + 1 ELSE @]

(* Mutant: what got no answer is sent again as well. *)
BackOffLost ==
  /\ req.at = "served" /\ call.kind # "file"
  /\ req.answer \in {"busy", "server", "lost"}
  /\ ~LastAttempt
  /\ req' = NoReq("backoff")
  /\ Note(req.answer)
  /\ UNCHANGED <<now, tok, users, call>>

BackOff ==
  /\ req.at = "served" /\ call.kind # "file"
  /\ req.answer \in {"busy", "server"}
  /\ ~LastAttempt
  /\ req' = NoReq("backoff")
  /\ Note(req.answer)
  /\ UNCHANGED <<now, tok, users, call>>

(* The sleep ends, as long as Retry-After says. *)
Wake ==
  /\ req.at = "backoff"
  /\ call' = [call EXCEPT !.attempt = @ + 1]
  /\ req' = NoReq("ready")
  /\ UNCHANGED <<now, tok, users, log>>

ErrorOf(a) == CASE a = "garbled" -> "value" [] a = "lost" -> "transport" [] OTHER -> "status"

(* A 4xx, a body without JSON, no answer, and the last 429 or 5xx raise.    *)
Raise ==
  /\ req.at = "served" /\ call.kind # "file"
  /\ \/ req.answer \in {"client", "garbled", "lost"}
     \/ req.answer \in {"busy", "server"} /\ LastAttempt
  /\ IF call.kind = "rich" /\ call.part = 1
     THEN /\ call' = [call EXCEPT !.part = 2, !.attempt = 0]
          /\ req' = NoReq("ready")
          /\ Note(req.answer)
     ELSE Fail(ErrorOf(req.answer))
  /\ UNCHANGED <<now, tok, users>>

(* download_file: one request, and its bytes are not looked at: the body of *)
(* a refusal inside a 200 is the file.                                      *)
Download ==
  /\ req.at = "served" /\ call.kind = "file"
  /\ End(CASE req.answer \in {"client", "busy", "server"} -> "status"
           [] req.answer = "lost" -> "transport"
           [] OTHER -> "returned")
  /\ UNCHANGED <<now, tok, users>>

-----------------------------------------------------------------------------
(* DeepSeekClient.chat: everything that is an HTTPError, KeyError or        *)
(* ValueError is tried again; a message that is not where it is looked for  *)
(* (IndexError, AttributeError) escapes.                                    *)

ChatDone(o) ==
  /\ req.at = "ready" /\ call.kind = "chat"
  /\ o \in {"returned", "escaped"}
  /\ End(o)
  /\ UNCHANGED <<now, tok, users>>

ChatFails ==
  /\ req.at = "ready" /\ call.kind = "chat"
  /\ IF call.attempt + 1 < Tries
     THEN req' = NoReq("backoff") /\ UNCHANGED <<call, log>>
     ELSE End("terminal")
  /\ UNCHANGED <<now, tok, users>>

-----------------------------------------------------------------------------
Tick ==
  /\ now < MaxNow
  /\ req.at \in {"exchange", "issued", "sent", "served"} => now < req.by
  /\ req.at # "ready"
  /\ now' = now + 1
  /\ UNCHANGED <<tok, users, call, req, log>>

Progress ==
  \/ GetCached \/ Exchange \/ Store
  \/ \E l \in Lifetimes : Issue(l)
  \/ \E e \in {"status", "transport", "value", "runtime"} : ExchangeFails(e)
  \/ \E a \in Answers, acts \in BOOLEAN : Serve(a, acts)
  \/ Return \/ Expired \/ BackOff \/ Wake \/ Raise \/ Download
  \/ \E o \in {"returned", "escaped"} : ChatDone(o)
  \/ ChatFails

Next ==
  \/ \E k \in Kinds, p \in People : Begin(k, p)
  \/ Progress
  \/ Tick

(* A request is answered or times out, a sleep ends. *)
Spec == Init /\ [][Next]_vars /\ WF_vars(Progress)

-----------------------------------------------------------------------------
(* While a request of the client is on its way, its token is within its     *)
(* life, and is not one Lark has just called expired: the margin of         *)
(* TenantTokenCache.get covers the time an exchange and a request take, and *)
(* invalidate empties the cache before the next attempt.                    *)
TokenAlive == req.at = "sent" => now < req.token.dies /\ ~log.rejected

(* Lark does once what one call asks for, and once more for each 5xx, or    *)
(* each rich post that went wrong in any other way: no request is repeated  *)
(* when nothing came back (_request_with_retry, _emit_next_finding).        *)
EffectsExplained == log.effects <= 1 + log.unclear

(* What a call returns tells what Lark did, over retries and parts.  One    *)
(* that returns what it was asked for was carried out, create_doc as far as *)
(* the document goes; but download_file returns the body of a refusal that  *)
(* came with status 200 as the file.  Behind an empty id nothing was done   *)
(* but for what an unclear answer before may hide.                          *)
ResultIsTrue ==
  req.at = "idle" /\ call.kind # "chat" =>
    /\ log.outcome = "returned" =>
         log.effects >= 1 \/ (call.kind = "file" /\ log.last \in {"refused", "expired"})
    /\ log.outcome = "blank" => log.effects <= log.unclear

(* What get_user would answer from its cache is not older than the ten      *)
(* minutes its docstring gives, however long the requests took.             *)
UserFresh == \A p \in People : Fresh(p) => now < users[p].readAt + UserTTL

(* Every call comes to an end (_MAX_ATTEMPTS, max_retries). *)
CallEnds == req.at # "idle" ~> req.at = "idle"
-----------------------------------------------------------------------------
(* The inductive invariant behind them: when things happen at the latest,   *)
(* and what the counts are at each phase.                                   *)

TokenTimes ==
  /\ tok.exp <= tok.dies + ExchangeTime
  /\ req.at = "exchange" => now <= req.by /\ req.by <= now + ExchangeTime
  /\ req.at = "issued" => /\ now <= req.by
                          /\ req.life \in Lifetimes
                          /\ req.by + req.life <= req.token.dies + ExchangeTime
  /\ req.at = "sent" => now <= req.by /\ req.by < req.token.dies
  /\ log.rejected => tok = NoToken /\ req.at \in {"idle", "ready", "exchange", "backoff"}

EffectCounts ==
  /\ EffectsExplained
  /\ Counts /\ req.at \notin {"idle", "served"} => log.effects <= log.unclear
  /\ Counts /\ req.at = "served" /\ req.answer \notin MayAct => log.effects <= log.unclear

Done ==
  /\ ResultIsTrue
  /\ call.part = 2 => call.kind \in {"rich", "doc"}
  /\ call.part = 2 /\ call.kind = "doc" => log.effects >= 1
  /\ req.at = "served" /\ req.answer = "ok" => log.effects >= 1
  /\ req.at = "served" /\ call.kind = "file" => req.answer # "garbled"
  /\ req.at = "served" => log.last = req.answer

UserTimes ==
  /\ \A p \in People : users[p].until <= users[p].readAt + UserTTL
  /\ call.asked <= now
  /\ req.at = "served" => call.asked <= req.readAt

IInv == TypeOK /\ TokenTimes /\ EffectCounts /\ Done /\ UserTimes
============================================================================
