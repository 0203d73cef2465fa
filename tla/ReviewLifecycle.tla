-------------------------- MODULE ReviewLifecycle --------------------------
(***************************************************************************)
(* What a review promises to the requester who brings material and to the  *)
(* responder who gets the brief: the material is gathered, then reviewed,  *)
(* and only then closed; closing ends in a delivery, under a verdict that  *)
(* is not FAIL, or in more review, and not for ever.                       *)
(*                                                                         *)
(* Stages, findings, prompts and the process are those of ReviewSession,   *)
(* which implements this module.                                           *)
(***************************************************************************)
EXTENDS Naturals

CONSTANT MaxFailCount   \* review.final_gate_max_fail_count

VARIABLES
  phase,     \* of the newest session of the requester
  verdict,   \* of its final gate
  fails      \* times the gate has failed

vars == <<phase, verdict, fails>>

Init == phase = "none" /\ verdict = "none" /\ fails = 0

Begin ==
  /\ phase \in {"none", "over"}
  /\ phase' = "gathering" /\ verdict' = "none" /\ fails' = 0

Abandon ==
  /\ phase = "gathering"
  /\ phase' = "over"
  /\ UNCHANGED <<verdict, fails>>

Review ==
  /\ phase = "gathering"
  /\ phase' = "reviewing"
  /\ UNCHANGED <<verdict, fails>>

Close ==
  /\ phase = "reviewing"
  /\ phase' = "closing"
  /\ UNCHANGED <<verdict, fails>>

Accept ==
  /\ phase = "closing"
  /\ verdict' \in {"READY", "FORCED_PARTIAL"}
  /\ UNCHANGED <<phase, fails>>

Refuse ==
  /\ phase = "closing"
  /\ fails < MaxFailCount \/ fails = 0
  /\ verdict' = "FAIL" /\ fails' = fails + 1
  /\ UNCHANGED phase

Reopen ==
  /\ phase = "closing"
  /\ verdict = "FAIL"
  /\ fails < MaxFailCount
  /\ phase' = "reviewing"
  /\ UNCHANGED <<verdict, fails>>

Deliver ==
  /\ phase = "closing"
  /\ verdict \in {"READY", "FORCED_PARTIAL"}
  /\ phase' = "over"
  /\ UNCHANGED <<verdict, fails>>

Next == Begin \/ Abandon \/ Review \/ Close \/ Accept \/ Refuse \/ Reopen \/ Deliver

Spec == Init /\ [][Next]_vars

(* A review that is closing is delivered or reopened. *)
ClosingEnds == (phase = "closing") ~> (phase # "closing")

FairSpec == Spec /\ ClosingEnds
=============================================================================
