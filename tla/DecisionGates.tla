--------------------------- MODULE DecisionGates ---------------------------
(***************************************************************************)
(* From evidence to a request an execution adapter may pick up.  Every     *)
(* stage is a pure function of frozen objects which its caller hands over, *)
(* and nothing is looked up or remembered: the caller chooses the policy   *)
(* and which evidence the kernel sees, may hold a draft for as long as it  *)
(* likes, may commit two drafts of one subject, may use a dispatch id      *)
(* twice, and may make an object itself where a kernel would have made it. *)
(* The objects made so far are the state; a step makes one.                *)
(*                                                                         *)
(* A caller can build any of these classes by hand.  Decisions, records,   *)
(* selections and requests have actions for it.  The others need none: a   *)
(* draft built by hand and then committed is a decision or a record built  *)
(* by hand, and a plan built by hand is the plan of a record built by hand *)
(* (if its type, kind, mode or target is blank, no adapter declares it).   *)
(*                                                                         *)
(* A subject is an id with its kind, which callers always give together.   *)
(* Summaries, labels of sources and ids that no check compares are left    *)
(* out, and so is the markdown.  Bounds: MaxPresented calls of the         *)
(* engineering kernel that differ, MaxDecisions, MaxRecords, MaxSelections *)
(* and MaxRequests objects of those kinds.                                 *)
(***************************************************************************)
EXTENDS Naturals, Sequences, FiniteSets

CONSTANTS
  Subjects,       \* what decisions are about
  KindOf,         \* subject_kind of each
  Presentations,  \* the sets of labels that a caller may present evidence for
  Policies,       \* FlowPolicies: sequences of rules, with sets of labels
  CallerTypes,    \* decision and dispatch types a caller may enter itself
  CallerReasons,  \* reason codes a caller may enter itself
  DispatchIds,    \* ids a caller gives to dispatch records
  Targets, Modes, \* target labels and execution modes a caller may enter
  Blank,          \* an entry of white space only
  CapabilitySets, \* what the declared capabilities may be
  MaxPresented, MaxDecisions, MaxRecords, MaxSelections, MaxRequests

EvidenceLabels ==
  <<"Prompt Draft", "Knowledge Gap", "Review Question", "Review Record",
    "Prompt Revision", "Human Decision", "Dispatch Record",
    "Implementation Report", "Verification Record">>

Labels == {EvidenceLabels[k] : k \in DOMAIN EvidenceLabels}

NoMatch == "NO_MATCH"
NoRule  == "None"
Pending == "PENDING_HUMAN_INPUT"

ASSUME PresentationsAssumption == Presentations \subseteq SUBSET Labels
ASSUME PoliciesAssumption ==
  \A policy \in Policies :
    policy \in Seq([id : STRING, completed : SUBSET STRING, missing : SUBSET STRING,
                    action : STRING])
ASSUME BoundsAssumption ==
  {MaxPresented, MaxDecisions, MaxRecords, MaxSelections, MaxRequests} \subseteq Nat

VARIABLES
  drafts,         \* HumanDecisionDrafts
  decisions,      \* HumanDecisions
  dispatchDrafts, \* DispatchDrafts
  records,        \* DispatchRecords
  plans,          \* DispatchPlans
  selections,     \* AdapterSelections
  requests,       \* ExecutionRequests and ExecutionManifests
  results         \* ExecutionRequestResults and ExecutionManifestResults

(* History, which no guard reads but for the bound on presented.           *)
VARIABLES
  presented,      \* what the engineering kernel was called with
  entered,        \* what callers entered themselves into decisions and records
  selected,       \* the selections that select_execution_adapters made
  built           \* the requests and manifests that the build functions made

objects  == <<drafts, decisions, dispatchDrafts, records, plans>>
adapting == <<selections, requests, results, selected, built>>
vars == <<objects, adapting, presented, entered>>

---------------------------------------------------------------------------
(* The engineering kernel: four projections of the evidence it is given.   *)
(* Labels are compared with `in`, so a tuple of them is the set of them.   *)

LifecycleProjection(supplied) ==
  [completed |-> Labels \intersect supplied, missing |-> Labels \ supplied]

RuleMatchesAny(rule, projection) ==      \* mutant: any() for all()
  /\ rule.completed = {} \/ rule.completed \intersect projection.completed # {}
  /\ rule.missing \subseteq projection.missing

RuleMatches(rule, projection) ==
  /\ rule.completed \subseteq projection.completed
  /\ rule.missing \subseteq projection.missing

First(S) == CHOOSE k \in S : \A m \in S : k <= m

Entry(rule, verdict) == <<rule.id, verdict>>

(* evaluate_flow_policy tries the rules in order and breaks at a match.    *)
Matched(policy, matching) ==
  LET n == First(matching)
  IN  [matched |-> policy[n].id, action |-> policy[n].action,
       trace |-> [k \in 1 .. n |-> Entry(policy[k], IF k = n THEN "MATCHED" ELSE "SKIPPED")]]

EvaluateFlowPolicy(policy, projection) ==
  LET matching == {k \in DOMAIN policy : RuleMatches(policy[k], projection)}
  IN  IF matching # {} THEN Matched(policy, matching)
      ELSE [matched |-> NoRule, action |-> NoMatch,
            trace |-> [k \in DOMAIN policy |-> Entry(policy[k], "SKIPPED")]]

DraftOfRule(s, policy, supplied) ==      \* mutant: takes the rule for the action
  LET projection == EvaluateFlowPolicy(policy, LifecycleProjection(supplied))
  IN  [subject |-> s, type |-> projection.matched, reasons |-> projection.trace]

(* Of the result of run_engineering_kernel a draft takes the policy's part.*)
BuildHumanDecisionDraft(s, policy, supplied) ==
  LET projection == EvaluateFlowPolicy(policy, LifecycleProjection(supplied))
  IN  [subject |-> s, type |-> projection.action, reasons |-> projection.trace]

---------------------------------------------------------------------------
(* The gates.                                                              *)

(* What an object says of the work it is about.                            *)
Says(x) == [subject |-> x.subject, type |-> x.type, reasons |-> x.reasons]

(* The caller says what there is evidence for; nobody looks whether it is  *)
(* there (an argument is present if it is not None).                       *)
DraftDecision(s, policy, supplied) ==
  /\ presented' = presented \union {[subject |-> s, policy |-> policy, labels |-> supplied]}
  /\ Cardinality(presented') <= MaxPresented
  /\ drafts' = drafts \union {BuildHumanDecisionDraft(s, policy, supplied)}
  /\ UNCHANGED <<decisions, dispatchDrafts, records, plans, adapting, entered>>

(* create_human_decision, which copies what it is given.                   *)
AddDecision(work) ==
  /\ Cardinality(decisions) < MaxDecisions
  /\ decisions' = decisions \union {Says(work)}
  /\ UNCHANGED <<drafts, dispatchDrafts, records, plans, adapting, presented>>

(* A human commits a draft, as it was built.                               *)
CommitHumanDecision(draft) == AddDecision(draft) /\ UNCHANGED entered

(* A caller makes a decision of its own.                                   *)
CreateHumanDecision(work) == AddDecision(work) /\ entered' = entered \union {work}

BuildDispatchDraft(decision) ==
  [subject |-> decision.subject, type |-> decision.type, reasons |-> decision.reasons,
   target |-> Pending, mode |-> Pending]

DraftDispatch ==
  /\ \E decision \in decisions :
       dispatchDrafts' = dispatchDrafts \union {BuildDispatchDraft(decision)}
  /\ UNCHANGED <<drafts, decisions, records, plans, adapting, presented, entered>>

(* create_dispatch_record, which copies what it is given.                  *)
AddRecord(work, id, target, mode) ==
  /\ Cardinality(records) < MaxRecords
  /\ records' = records \union {[id |-> id, subject |-> work.subject, type |-> work.type,
                                 target |-> target, mode |-> mode, reasons |-> work.reasons]}
  /\ UNCHANGED <<drafts, decisions, dispatchDrafts, plans, adapting, presented>>

(* A human commits a draft with a target and a mode; the draft's own       *)
(* placeholders are not looked at.                                         *)
CommitDispatch(draft, id, target, mode) ==
  AddRecord(draft, id, target, mode) /\ UNCHANGED entered

(* A caller makes a record of its own, whether anybody decided or not.     *)
CreateDispatchRecord(work, id, target, mode) ==
  AddRecord(work, id, target, mode) /\ entered' = entered \union {work}

(* run_dispatcher_kernel refuses blank fields; the plan is the record.     *)
BuildDispatchPlan(record) == record

RunDispatcherKernel(record) ==
  /\ Blank \notin {record.target, record.mode}
  /\ plans' = plans \union {BuildDispatchPlan(record)}
  /\ UNCHANGED <<drafts, decisions, dispatchDrafts, records, adapting, presented, entered>>

---------------------------------------------------------------------------
(* Execution adapters.  A capability declares a label and what it supports.*)

ReasonCodes(plan, capability) ==
  {code \in {"unsupported_dispatch_type", "unsupported_subject_kind",
             "unsupported_execution_mode", "target_label_mismatch"} :
     CASE code = "unsupported_dispatch_type"  -> plan.type \notin capability.types
       [] code = "unsupported_subject_kind"   -> KindOf[plan.subject] \notin capability.kinds
       [] code = "unsupported_execution_mode" -> plan.mode \notin capability.modes
       [] code = "target_label_mismatch"      -> plan.target # capability.label}

Compatible(plan, capability) == ReasonCodes(plan, capability) = {}

(* The incompatible ones and the reasons are for the reader only.          *)
SelectExecutionAdapters(plan, capabilities) ==
  [plan |-> plan, compatible |-> {c \in capabilities : Compatible(plan, c)}]

AddSelection(selection) ==
  /\ Cardinality(selections) < MaxSelections
  /\ selections' = selections \union {selection}
  /\ UNCHANGED <<objects, requests, results, built, presented, entered>>

Select(plan, capabilities) ==
  LET selection == SelectExecutionAdapters(plan, capabilities)
  IN  AddSelection(selection) /\ selected' = selected \union {selection}

(* A caller makes an AdapterSelection: only the types of its fields are    *)
(* checked.                                                                *)
MakeSelection(plan, compatible) ==
  AddSelection([plan |-> plan, compatible |-> compatible]) /\ UNCHANGED selected

(* A request, or a manifest: the same code under other names.              *)
Request(plan, capability) == [plan |-> plan, capability |-> capability]

AddRequest(request) ==
  /\ Cardinality(requests) < MaxRequests
  /\ requests' = requests \union {request}
  /\ UNCHANGED <<objects, selections, results, selected, presented, entered>>

BuildRequest(plan, capability) ==
  /\ Compatible(plan, capability)
  /\ AddRequest(Request(plan, capability))
  /\ built' = built \union {Request(plan, capability)}

(* A caller makes an ExecutionRequest or ExecutionManifest: its dispatch   *)
(* id and its label must be those of the plan and of the capability, and   *)
(* nobody asks whether the two go together.                                *)
MakeRequest(plan, capability) ==
  AddRequest(Request(plan, capability)) /\ UNCHANGED built

FitsById(selection, request) ==      \* mutant: compares dispatch ids, not plans
  /\ request.plan.id = selection.plan.id
  /\ request.capability \in selection.compatible

(* __post_init__ of both results.                                          *)
Fits(selection, request) ==
  /\ request.plan = selection.plan
  /\ request.capability \in selection.compatible

BuildResult(selection, request) ==
  /\ Fits(selection, request)
  /\ results' = results \union {[selection |-> selection, request |-> request]}
  /\ UNCHANGED <<objects, selections, requests, selected, built, presented, entered>>

---------------------------------------------------------------------------

Init ==
  /\ drafts = {} /\ decisions = {} /\ dispatchDrafts = {} /\ records = {} /\ plans = {}
  /\ selections = {} /\ requests = {} /\ results = {}
  /\ presented = {} /\ entered = {} /\ selected = {} /\ built = {}

Declared == UNION CapabilitySets

OwnWork == [subject : Subjects, type : CallerTypes, reasons : CallerReasons]

Decide ==
  \/ \E s \in Subjects, policy \in Policies, supplied \in Presentations :
       DraftDecision(s, policy, supplied)
  \/ \E draft \in drafts : CommitHumanDecision(draft)
  \/ \E work \in OwnWork : CreateHumanDecision(work)

DispatchWork ==
  \/ DraftDispatch
  \/ \E id \in DispatchIds, target \in Targets, mode \in Modes :
       \/ \E draft \in dispatchDrafts : CommitDispatch(draft, id, target, mode)
       \/ \E work \in OwnWork : CreateDispatchRecord(work, id, target, mode)
  \/ \E record \in records : RunDispatcherKernel(record)

Adapt ==
  \/ \E plan \in plans, capabilities \in CapabilitySets : Select(plan, capabilities)
  \/ \E plan \in plans, compatible \in SUBSET Declared : MakeSelection(plan, compatible)
  \/ \E plan \in plans, capability \in Declared :
       \/ BuildRequest(plan, capability)
       \/ MakeRequest(plan, capability)
  \/ \E selection \in selections, request \in requests : BuildResult(selection, request)

Next == Decide \/ DispatchWork \/ Adapt

Spec == Init /\ [][Next]_vars

---------------------------------------------------------------------------
(*                              Properties                                 *)

Rules   == UNION {{policy[k] : k \in DOMAIN policy} : policy \in Policies}
Traces  == {<<rule.id, verdict>> : rule \in Rules, verdict \in {"MATCHED", "SKIPPED"}}
Actions == {rule.action : rule \in Rules} \union {NoMatch}

(* The possible values of every variable.                                  *)
TypeOK ==
  /\ presented \subseteq [subject : Subjects, policy : Policies, labels : Presentations]
  /\ entered \subseteq OwnWork
  /\ \A x \in drafts \union decisions \union dispatchDrafts \union records \union plans :
       /\ x.subject \in Subjects
       /\ x.type \in Actions \union CallerTypes
       /\ x.reasons \in Seq(Traces) \union CallerReasons
  /\ \A x \in records \union plans : x.id \in DispatchIds /\ x.target \in Targets /\ x.mode \in Modes
  /\ \A x \in selections : x.plan \in plans /\ x.compatible \subseteq Declared
  /\ \A x \in requests : x.plan \in plans /\ x.capability \in Declared
  /\ \A x \in results : x.selection \in selections /\ x.request \in requests
  /\ selected \subseteq selections /\ built \subseteq requests

(* One call of the engineering kernel explains what x says: its reason     *)
(* codes name the rules of that call's policy in order, up to the first    *)
(* one that the evidence presented in that call satisfies, whose action is *)
(* the type, or all of them when it satisfies none.                        *)
Explains(call, x) ==
  LET n == Len(x.reasons)
      policy == call.policy
      satisfied(k) == /\ policy[k].completed \subseteq call.labels
                      /\ policy[k].missing \subseteq Labels \ call.labels
  IN  /\ call.subject = x.subject
      /\ n <= Len(policy)
      /\ \A k \in 1 .. n :
           x.reasons[k] = <<policy[k].id, IF satisfied(k) THEN "MATCHED" ELSE "SKIPPED">>
      /\ \A k \in 1 .. n : satisfied(k) => k = n /\ x.type = policy[k].action
      /\ \/ \E k \in 1 .. n : satisfied(k)
         \/ n = Len(policy) /\ x.type = NoMatch

(* What decisions, records and plans say is never of unknown origin: a     *)
(* caller entered it, word for word, or one call of the engineering kernel *)
(* explains it, however old its draft was when it was committed and        *)
(* whatever other evidence was presented, drafted or committed meanwhile.  *)
WorkIsExplained ==
  \A x \in decisions \union records \union plans :
    Says(x) \in entered \/ \E call \in presented : Explains(call, x)

(* Two separate functions check a plan against a capability, and a result  *)
(* joins what they made with what callers made.  It is enough that either  *)
(* part was checked: what the adapter is asked to do is addressed to it    *)
(* and covered by its declaration, even when a dispatch id was used for    *)
(* two plans and the checked part was made for the other one.              *)
RequestsAreCovered ==
  \A x \in results :
    x.selection \in selected \/ x.request \in built =>
      LET plan == x.request.plan
          capability == x.request.capability
      IN  /\ plan.target = capability.label
          /\ plan.type \in capability.types
          /\ KindOf[plan.subject] \in capability.kinds
          /\ plan.mode \in capability.modes

===========================================================================
