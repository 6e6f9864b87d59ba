----------------------------- MODULE Sessions -----------------------------
(***************************************************************************)
(* Sessions: intents grouped, in the order they were added.  The ledger    *)
(* says who is in; session_projection and session_membership_projection    *)
(* repeat it.  Their writes are not best-effort: a write that fails raises *)
(* out of create_session or add_intent_to_session, behind an event that    *)
(* stays.  The order of a new member is counted from the table.            *)
(***************************************************************************)
EXTENDS RecordLedger

VARIABLES
  sessionTable,  \* rows of session_projection
  memberTable    \* rows of session_membership_projection

sessionVars == <<sessionTable, memberTable>>

SessionEvent(t, s, i) == [EventAbout(t, i) EXCEPT !.id = s]

(* create_session.                                                         *)
CreateSession ==
  /\ CanCall("sessions")
  /\ \/ /\ Append1(SessionEvent("session_created", Here, NoIntent))
        /\ TableWrite("sessions",
             sessionTable' = sessionTable \union {[session |-> Here, count |-> 0, event |-> Here]},
             UNCHANGED sessionTable)
     \/ AppendFails /\ UNCHANGED sessionTable
  /\ UNCHANGED memberTable

(* The checks of add_intent_to_session read the ledger.                    *)
SessionExists(s) == \E k \in OfType(ledger, {"session_created"}) : ledger[k].id = s

KnownIntent(i) == \E k \in OfType(ledger, IntentTypes) : Mentions(ledger[k], i)

MemberRow(s, i) == \E row \in memberTable : row.session = s /\ row.intent = i      \* mutant: asks the table

MembershipExists(s, i) ==
  \E k \in OfType(ledger, {"session_intent_added"}) :
    ledger[k].id = s /\ Mentions(ledger[k], i)

MembersOf(s) == {row \in memberTable : row.session = s}

NextOrderOfAll(s) == Cardinality(memberTable) + 1      \* mutant: counts every session's members

NextOrder(s) == Cardinality(MembersOf(s)) + 1

(* The member and its session's row, in one transaction; an UPDATE of a    *)
(* row that is not there changes nothing.                                  *)
InsertMember(s, i) ==
  /\ memberTable' = memberTable \union
       {[session |-> s, intent |-> i, order |-> NextOrder(s), event |-> Here]}
  /\ sessionTable' =
       {IF row.session = s THEN [row EXCEPT !.count = NextOrder(s), !.event = Here] ELSE row :
          row \in sessionTable}

AddIntentToSession(s, i) ==
  /\ CanCall("sessions")
  /\ \/ /\ ~SessionExists(s) \/ ~KnownIntent(i) \/ MembershipExists(s, i)
        /\ Record(SessionEvent("session_intent_rejected", s, i))
        /\ UNCHANGED sessionVars
     \/ /\ SessionExists(s) /\ KnownIntent(i) /\ ~MembershipExists(s, i)
        /\ \/ /\ Append1(SessionEvent("session_intent_added", s, i))
              /\ TableWrite("sessions", InsertMember(s, i), UNCHANGED sessionVars)
           \/ AppendFails /\ UNCHANGED sessionVars

---------------------------------------------------------------------------
(* rebuild_session_projection: memberships of a known session, the first   *)
(* of each intent, numbered as they come.                                  *)

Members(L, s) ==
  {k \in OfType(L, {"session_intent_added"}) :
     /\ L[k].id = s
     /\ \A m \in OfType(L, {"session_intent_added"}) :
          m < k => L[m].id # s \/ L[m].intent # L[k].intent}

RebuiltMemberTable(L) ==
  {[session |-> L[k].id, intent |-> L[k].intent, event |-> k,
    order |-> Cardinality({m \in Members(L, L[k].id) : m <= k})] :
     k \in UNION {Members(L, s) : s \in OfType(L, {"session_created"})}}

RebuiltSessionTable(L) ==
  {[session |-> s, count |-> Cardinality(Members(L, s)), event |-> LastOf(Members(L, s) \union {s})] :
     s \in OfType(L, {"session_created"})}

RebuildSessionProjection ==
  /\ "sessions" \in scope.parts
  /\ Rebuild("sessions")
  /\ sessionTable' = RebuiltSessionTable(ledger)
  /\ memberTable' = RebuiltMemberTable(ledger)

SessionInit ==
  /\ sessionTable = {}
  /\ memberTable = {}

SessionStep ==
  \/ CreateSession
  \/ \E s \in OfType(ledger, {"session_created"}) \union {NoId}, i \in Intents :
       AddIntentToSession(s, i)
  \/ RebuildSessionProjection

SessionTypeOK ==
  /\ \A row \in sessionTable : row \in [session : Nat, count : Nat, event : Nat]
  /\ \A row \in memberTable :
       row \in [session : Nat, intent : Intents, order : Nat, event : Nat]

===========================================================================
