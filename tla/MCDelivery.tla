----------------------------- MODULE MCDelivery -----------------------------
EXTENDS Delivery

To(b, who, p) == [backend |-> b, to |-> who, payload |-> p]

(* The default of load_targets. *)
DefaultTargets ==
  << To("lark_doc", "responder", {"summary", "final"}),
     To("lark_dm", "responder", {"summary"}),
     To("lark_dm", "requester", {"summary"}),
     To("local_path", "archive", {"summary", "final"}) >>

(* A delivery_targets.json: the document is not listed first, one target    *)
(* gets the link only, two are the same, and there is Slack and an archive. *)
CustomTargets ==
  << To("lark_dm", "responder", {"summary"}),
     To("lark_doc", "responder", {"summary", "final"}),
     To("lark_dm", "responder", {}),
     To("lark_dm", "responder", {"summary"}),
     To("slack_dm", "requester", {"summary"}),
     To("slack_dm", "watcher", {}),
     To("local_path", "archive", {"summary", "final"}) >>

TargetFiles         == {DefaultTargets, CustomTargets}
WithAndWithoutSlack == {Backend, Backend \ {"slack_dm"}}
=============================================================================
