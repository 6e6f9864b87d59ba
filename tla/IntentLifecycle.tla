------------------------- MODULE IntentLifecycle -------------------------
(***************************************************************************)
(* What the inbox and the dispatcher promise about one intent, without the *)
(* ledger, the projections, the claims, the call frames or the failures:   *)
(* a status that moves along ALLOWED_INTENT_TRANSITIONS and then never     *)
(* moves again.  IntentDispatch implements it, with the status of an       *)
(* intent read from the ledger the way get_intent_status reads it.         *)
(***************************************************************************)

CONSTANT Intents    \* the ids that submit_intent may hand out

VARIABLE status     \* status[i]: "NONE" until i is submitted

(* The keys of INTENT_STATUS_BY_EVENT_TYPE's range, plus "NONE" for the    *)
(* None that get_intent_status returns for an id nobody submitted.         *)
Terminal == {"REJECTED", "COMPLETED", "FAILED"}
Statuses == {"NONE", "PENDING", "RUNNING"} \union Terminal

(* ALLOWED_INTENT_TRANSITIONS, read as a relation between statuses: the    *)
(* event types of the table are the statuses they establish.               *)
AllowedNext ==
  [s \in Statuses |->
     CASE s = "NONE"    -> {"PENDING", "REJECTED"}
       [] s = "PENDING" -> {"RUNNING"}
       [] s = "RUNNING" -> {"COMPLETED", "FAILED"}
       [] s \in Terminal -> {}]

Init == status = [i \in Intents |-> "NONE"]

Advance(i, s) ==
  /\ s \in AllowedNext[status[i]]
  /\ status' = [status EXCEPT ![i] = s]

Next == \E i \in Intents, s \in Statuses : Advance(i, s)

Spec == Init /\ [][Next]_status

===========================================================================
