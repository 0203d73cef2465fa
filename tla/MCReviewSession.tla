-------------------------- MODULE MCReviewSession --------------------------
EXTENDS ReviewSession

F(sev, pillar, priority, name) ==
  [sev |-> sev, pillar |-> pillar, priority |-> priority, name |-> name]

(* Nothing found; an improvement; an improvement and a blocker, which the   *)
(* severity puts first.                                                     *)
SmallScans == {<<>>, <<F("IMPROVEMENT", "other", 0, 1)>>,
               <<F("IMPROVEMENT", "Intent", 1, 1), F("BLOCKER", "other", 0, 2)>>}

(* Two blockers and a remark: the pillar puts the last first.               *)
WideScans  == SmallScans \cup
              {<<F("NICE_TO_HAVE", "Intent", 1, 1), F("BLOCKER", "other", 1, 2),
                 F("BLOCKER", "Intent", 0, 3)>>}
=============================================================================
