-------------------------------- MODULE Inbox --------------------------------
(***************************************************************************)
(* What the worker of the process owes to the messages of its requesters,  *)
(* and what a handler takes for granted: the messages of a requester are   *)
(* handled one at a time, in the order in which they came, and none is     *)
(* gone before its handler has come to its end.  A stop of the process or  *)
(* of the worker leaves the message where it was: it is handled again.     *)
(***************************************************************************)
EXTENDS Sequences

CONSTANTS Requester, Message

VARIABLES
  unread,    \* messages of each requester that are not handled to the end
  serving    \* the requester whose first message is being handled: {} or {r}

vars == <<unread, serving>>

Init ==
  /\ unread = [r \in Requester |-> <<>>]
  /\ serving = {}

Arrive(r, m) ==
  /\ unread' = [unread EXCEPT ![r] = Append(@, m)]
  /\ UNCHANGED serving

(* The first message of r is dispatched, for the first time or again. *)
Begin(r) ==
  /\ serving = {}
  /\ unread[r] # <<>>
  /\ serving' = {r}
  /\ UNCHANGED unread

(* Its handler has returned or raised. *)
End(r) ==
  /\ serving = {r}
  /\ unread' = [unread EXCEPT ![r] = Tail(@)]
  /\ serving' = {}

(* The process or the worker stops in between. *)
Break ==
  /\ serving # {}
  /\ serving' = {}
  /\ UNCHANGED unread

Next ==
  \/ \E r \in Requester : Begin(r) \/ End(r) \/ \E m \in Message : Arrive(r, m)
  \/ Break

Spec == Init /\ [][Next]_vars
=============================================================================
