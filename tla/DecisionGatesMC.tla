-------------------------- MODULE DecisionGatesMC --------------------------
(* DecisionGates on a small instance: two subjects of different kinds, a   *)
(* policy with a gate before and one after the decision and no catch-all,  *)
(* and two adapters that share a label but not what they support.          *)
EXTENDS DecisionGates, TLC

CONSTANTS s1, s2

MCKindOf == [s \in {s1, s2} |-> IF s = s1 THEN "prompt_draft" ELSE "report"]

DecideRule ==
  [id |-> "decide", completed |-> {"Prompt Revision", "Review Record"},
   missing |-> {"Human Decision"}, action |-> "implement"]
VerifyRule ==
  [id |-> "verify", completed |-> {"Dispatch Record"}, missing |-> {}, action |-> "verify"]

(* The second one tries the rules in the other order.                      *)
MCPolicies == {<<DecideRule, VerifyRule>>, <<VerifyRule, DecideRule>>}

(* No rule is satisfied with the first, both are with the second, so that  *)
(* the policy's order decides.                                             *)
MCPresentations ==
  {{"Prompt Revision"}, {"Prompt Revision", "Review Record", "Dispatch Record"}}

(* A caller's own code, in the form of the policy's.  No call of the       *)
(* engineering kernel gives it for the type that the caller enters.        *)
MCCallerReasons == {<< <<"verify", "MATCHED">> >>}

Adapter(types, kinds) ==
  [label |-> "shell", types |-> types, kinds |-> kinds, modes |-> {"dry_run"}]

Narrow == Adapter({"implement"}, {"prompt_draft"})
Wide   == Adapter({"implement", "verify", NoMatch}, {"prompt_draft", "report"})

MCCapabilitySets == {{Narrow, Wide}}

===========================================================================
