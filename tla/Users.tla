------------------------------- MODULE Users -------------------------------
(***************************************************************************)
(* The users table (core/storage.py) between the worker, which registers   *)
(* unknown senders and opens sessions for requesters (_handle_incoming,    *)
(* _maybe_auto_register, _handle_requester_no_session of                   *)
(* core/dispatcher.py), and the operator's commands (cli.py), which run in *)
(* a process of their own and take effect between any two statements of    *)
(* the worker.  A statement is a step.  What a session does with its       *)
(* messages is in ReviewSession; here it only needs its people.            *)
(***************************************************************************)
EXTENDS Naturals

CONSTANTS
  People,        \* open_ids
  None,          \* no row, no pairing, no session
  AutoRegister,  \* review.auto_register_requesters
  MaxEdits       \* bound: commands of the operator

Role == {"admin", "responder", "requester"}
Row  == [roles : SUBSET Role, pair : People \cup {None}]

ASSUME UsersAssumption ==
  /\ None \notin People \cup Row /\ AutoRegister \in BOOLEAN /\ MaxEdits \in Nat

VARIABLES
  users,     \* the table
  active,    \* of each requester, the responder of the active session
  pc,        \* the next statement of the worker
  sender,    \* whose message it handles
  found,     \* the User it holds
  edits,     \* commands so far
  entered,   \* the row the operator gave a person, as far as it stands
  named,     \* whom the operator has named as admin, responder, or --responder
  gap,       \* people the operator entered while the worker was about to
  regs, welcomes, removals,  \* how often, of each person
  hurt,      \* a user was removed during the handling of this message
  end        \* how the last handling ended: orphaned is for want of a responder

table    == <<users, active>>
handler  == <<pc, sender, found>>
operator == <<edits, entered, named, gap, removals>>
counts   == <<regs, welcomes>>
vars     == <<table, handler, operator, counts, hurt, end>>

Pcs  == {"idle", "register", "responder", "name", "welcome", "notify", "session", "open",
         "create", "inside"}
Ends == {"done", "failed", "orphaned"}

TypeOK ==
  /\ users \in [People -> Row \cup {None}]
  /\ active \in [People -> People \cup {None}]
  /\ pc \in Pcs
  /\ sender \in People \cup {None}
  /\ pc # "idle" => sender \in People
  /\ found \in Row
  /\ edits \in 0..MaxEdits
  /\ entered \in [People -> Row \cup {None}]
  /\ named \subseteq People /\ gap \subseteq People
  /\ regs \in [People -> Nat] /\ welcomes \in [People -> Nat] /\ removals \in [People -> Nat]
  /\ hurt \in BOOLEAN
  /\ end \in Ends

Known(p)   == users[p] # None
With(role) == {p \in People : Known(p) /\ role \in users[p].roles}
Nobody     == [p \in People |-> None]
Never      == [p \in People |-> 0]
NoOne      == [roles |-> {}, pair |-> None]

Requester(r) == [roles |-> {"requester"}, pair |-> r]

Init ==
  /\ users = Nobody /\ active = Nobody
  /\ pc = "idle" /\ sender = None /\ found = NoOne
  /\ edits = 0 /\ entered = Nobody /\ named = {} /\ gap = {}
  /\ regs = Never /\ welcomes = Never /\ removals = Never
  /\ hurt = FALSE /\ end = "done"

-----------------------------------------------------------------------------
(* The worker *)

Goto(l) == pc' = l /\ UNCHANGED <<sender, found>>

(* The handler is over: what it held is gone. *)
End(how) ==
  /\ pc' = "idle" /\ sender' = None /\ found' = NoOne
  /\ end' = how

(* Mutant: whoever is not a requester yet is registered. *)
LookForRequester(p) ==
  /\ pc = "idle"
  /\ sender' = p
  /\ hurt' = FALSE
  /\ end' = "done"
  /\ IF Known(p) /\ "requester" \in users[p].roles
     THEN pc' = "session" /\ found' = users[p]
     ELSE pc' = "register" /\ found' = NoOne
  /\ UNCHANGED <<table, operator, counts>>

(* A message of p is dispatched, for the first time or again after a stop.  *)
Look(p) ==
  /\ pc = "idle"
  /\ sender' = p
  /\ hurt' = FALSE
  /\ end' = "done"
  /\ IF Known(p)
     THEN pc' = "session" /\ found' = users[p]
     ELSE pc' = "register" /\ found' = NoOne
  /\ UNCHANGED <<table, operator, counts>>

(* The flag is off, or there is no admin: a polite refusal. *)
Refuse ==
  /\ pc = "register"
  /\ ~AutoRegister \/ With("admin") = {}
  /\ End("done")
  /\ UNCHANGED <<table, operator, counts, hurt>>

Hold(row) == found' = row /\ UNCHANGED <<sender, table, operator, counts, hurt, end>>

(* Mutant: the first user, whatever the role, is the responder. *)
PairAnyone(a) ==
  /\ pc = "register"
  /\ AutoRegister
  /\ Known(a)
  /\ pc' = "name"
  /\ Hold(Requester(a))

(* The first admin of the list is taken, in an order the query does not     *)
(* fix, and is the responder if the role says so, ...                       *)
PairWithAdmin(a) ==
  /\ pc = "register"
  /\ AutoRegister
  /\ a \in With("admin")
  /\ pc' = IF a \in With("responder") THEN "name" ELSE "responder"
  /\ Hold(Requester(a))

(* ... or else the first responder of a second query, or still the admin.   *)
PairWithResponder(r) ==
  /\ pc = "responder"
  /\ r \in IF With("responder") = {} THEN {found.pair} ELSE With("responder")
  /\ pc' = "name"
  /\ Hold(Requester(r))

(* Mutant: the welcome goes out before the row is there. *)
UpsertLate ==
  /\ pc \in {"name", "welcome"}
  /\ \/ /\ pc = "name"
        /\ welcomes' = [welcomes EXCEPT ![sender] = @ + 1]
        /\ Goto("welcome")
        /\ UNCHANGED <<users, regs, end>>
     \/ /\ pc = "welcome" /\ (found.pair = sender \/ Known(found.pair))
        /\ users' = [users EXCEPT ![sender] = found]
        /\ regs' = [regs EXCEPT ![sender] = @ + 1]
        /\ Goto("notify")
        /\ UNCHANGED <<welcomes, end>>
     \/ /\ pc = "welcome" /\ found.pair # sender /\ ~Known(found.pair)
        /\ End("failed")
        /\ UNCHANGED <<users, counts>>
  /\ UNCHANGED <<active, operator, hurt>>

(* The display name has come, or not: upsert_user.  The pairing must be a   *)
(* row of the table, or the very row that is written (FOREIGN KEY).         *)
Upsert ==
  /\ pc = "name"
  /\ IF found.pair = sender \/ Known(found.pair)
     THEN /\ users' = [users EXCEPT ![sender] = found]
          /\ regs' = [regs EXCEPT ![sender] = @ + 1]
          /\ Goto("welcome")
          /\ UNCHANGED end
     ELSE /\ End("failed")
          /\ UNCHANGED <<users, regs>>
  /\ UNCHANGED <<active, operator, welcomes, hurt>>

Welcome ==
  /\ pc = "welcome"
  /\ welcomes' = [welcomes EXCEPT ![sender] = @ + 1]
  /\ Goto("notify")
  /\ UNCHANGED <<table, operator, regs, hurt, end>>

NotifyAdmin ==
  /\ pc = "notify"
  /\ Goto("session")
  /\ UNCHANGED <<table, operator, counts, hurt, end>>

(* get_active_session_for, and the roles as they were read. *)
FindSession ==
  /\ pc = "session"
  /\ "requester" \in found.roles
  /\ Goto(IF active[sender] = None THEN "open" ELSE "inside")
  /\ UNCHANGED <<table, operator, counts, hurt, end>>

(* A pure admin or responder is pointed to the command line. *)
PointToCli ==
  /\ pc = "session"
  /\ "requester" \notin found.roles
  /\ End("done")
  /\ UNCHANGED <<table, operator, counts, hurt>>

(* Mutant: the pairing is not looked at. *)
OpenUnchecked ==
  /\ pc = "open"
  /\ Goto("create") /\ UNCHANGED end
  /\ UNCHANGED <<table, operator, counts, hurt>>

(* _handle_requester_no_session looks for the paired responder. *)
Open ==
  /\ pc = "open"
  /\ IF found.pair # None /\ Known(found.pair)
     THEN Goto("create") /\ UNCHANGED end
     ELSE End("done")
  /\ UNCHANGED <<table, operator, counts, hurt>>

(* create_session: both must be rows of the table (FOREIGN KEY). *)
Create ==
  /\ pc = "create"
  /\ IF Known(sender) /\ found.pair # None /\ Known(found.pair)
     THEN active' = [active EXCEPT ![sender] = found.pair] /\ End("done")
     ELSE UNCHANGED active /\ End("failed")
  /\ UNCHANGED <<users, operator, counts, hurt>>

(* A message in the session.  The stages with an LLM ask for the responder  *)
(* and raise without one; others, as cancel, go on and may end the session. *)
InSession ==
  /\ pc = "inside"
  /\ \/ End("done") /\ active' \in {active, [active EXCEPT ![sender] = None]}
     \/ ~Known(active[sender]) /\ End("orphaned") /\ UNCHANGED active
  /\ UNCHANGED <<users, operator, counts, hurt>>

(* The process stops; the message will be dispatched again. *)
Crash ==
  /\ pc # "idle"
  /\ End("done")
  /\ UNCHANGED <<table, operator, counts, hurt>>

Worker ==
  \/ \E p \in People : Look(p)
  \/ Refuse
  \/ \E p \in People : PairWithAdmin(p) \/ PairWithResponder(p)
  \/ Upsert \/ Welcome \/ NotifyAdmin
  \/ FindSession \/ PointToCli \/ Open \/ Create \/ InSession

-----------------------------------------------------------------------------
(* The operator *)

Command == edits < MaxEdits /\ edits' = edits + 1

(* The worker is past its look at p, and has not written yet.               *)
AboutToRegister(p) == pc \in {"register", "responder", "name"} /\ sender = p

Enter(p, row) ==
  /\ Command
  /\ users' = [users EXCEPT ![p] = row]
  /\ entered' = [entered EXCEPT ![p] = row]
  /\ gap' = IF AboutToRegister(p) THEN gap \cup {p} ELSE gap \ {p}
  /\ UNCHANGED <<active, handler, removals, counts, hurt, end>>

(* setup, and add-user with the role responder, which setup does as well    *)
(* for a responder of its own.                                              *)
Setup(p) ==
  /\ Enter(p, [roles |-> {"admin", "responder"}, pair |-> None])
  /\ named' = named \cup {p}

AddOfficer(p, role) ==
  /\ Enter(p, [roles |-> {role}, pair |-> None])
  /\ named' = named \cup {p}

(* add-user with the role requester; --responder may be left out, and must  *)
(* be in the table or the very row that is written (FOREIGN KEY).           *)
AddRequester(p, r) ==
  /\ r \notin {None, p} => Known(r)
  /\ Enter(p, Requester(r))
  /\ named' = named \cup ({r} \ {None})

(* delete_user, with the foreign keys off. *)
Remove(p) ==
  /\ Known(p)
  /\ Command
  /\ users' = [users EXCEPT ![p] = None]
  /\ entered' = [entered EXCEPT ![p] = None]
  /\ removals' = [removals EXCEPT ![p] = @ + 1]
  /\ hurt' = (hurt \/ pc # "idle")
  /\ UNCHANGED <<active, handler, named, gap, counts, end>>

Operator ==
  \/ \E p \in People : Setup(p) \/ Remove(p)
  \/ \E p \in People, role \in {"admin", "responder"} : AddOfficer(p, role)
  \/ \E p \in People, r \in People \cup {None} : AddRequester(p, r)

Next == Worker \/ Operator \/ Crash

Spec == Init /\ [][Next]_vars

-----------------------------------------------------------------------------
(* dispatcher.py:138, "refuse to avoid open-relay": whoever writes first,   *)
(* and however commands and registrations interleave, a requester is paired *)
(* with, and a session runs under, someone the operator has named, never a  *)
(* stranger who registered.                                                 *)
PairedWithNamed ==
  \A p \in People :
    /\ Known(p) /\ users[p].pair # None => users[p].pair \in named
    /\ active[p] # None => active[p] \in named

(* A stranger is registered once, and once more after each removal, and is  *)
(* welcomed no more often, whatever is dispatched again after a stop.       *)
WelcomedOnce ==
  \A p \in People : regs[p] <= 1 + removals[p] /\ welcomes[p] <= regs[p]

(* What the operator entered stands until the operator changes it, unless   *)
(* it was entered while the worker, which had found nobody, waited for the  *)
(* display name: then the registration goes over it.                        *)
EnteredStays ==
  \A p \in People : entered[p] # None /\ p \notin gap => users[p] = entered[p]

(* A message ends in an exception, without a word to its sender, only if    *)
(* somebody was removed while it was handled, or the responder of its       *)
(* session has been removed since: nothing else runs into a foreign key.    *)
SilenceExplained ==
  /\ end = "failed" => hurt
  /\ \A p \in People : active[p] # None /\ ~Known(active[p]) => removals[active[p]] > 0
============================================================================
