------------------------ MODULE DecisionGatesProofs ------------------------
(***************************************************************************)
(* Proofs about DecisionGates, for all policies, subjects, presentations,  *)
(* declared capabilities and entries of callers, and any number of objects.*)
(***************************************************************************)
EXTENDS DecisionGates, SequenceTheorems, WellFoundedInduction, TLAPS

(* What says the same as an object that is accounted for is, too.          *)
Explained(x) == \E call \in presented : Explains(call, x)

Accounted(x) == Says(x) \in entered \/ Explained(x)

(* The inductive invariant of WorkIsExplained.                             *)
Chain ==
  /\ \A x \in drafts : Explained(x)
  /\ \A x \in decisions \union dispatchDrafts \union records : Accounted(x)
  /\ plans \subseteq records

(* The inductive invariant of RequestsAreCovered: what the kernels made is *)
(* compatible, and a result's two parts are about one plan and the adapter *)
(* is one the selection lists.                                             *)
Coverage ==
  /\ \A x \in selected : \A c \in x.compatible : Compatible(x.plan, c)
  /\ \A x \in built : Compatible(x.plan, x.capability)
  /\ \A x \in results : Fits(x.selection, x.request)

---------------------------------------------------------------------------
(* The first of a set of positions is one of them, and none is before it.  *)
LEMMA FirstIsLeast ==
  ASSUME NEW S, S \subseteq Nat, S # {}
  PROVE  First(S) \in S /\ \A m \in S : First(S) <= m
<1>1. PICK n \in S : \A m \in S : ~(<<m, n>> \in OpToRel(<, Nat))
  BY WFMin, NatLessThanWellFounded
<1>2. \A m \in S : n <= m
  <2> TAKE m \in S
  <2>1. m \in Nat /\ n \in Nat
    OBVIOUS
  <2>2. ~(m < n)
    BY <1>1, <2>1 DEF OpToRel
  <2> QED
    BY <2>1, <2>2
<1> QED
  BY <1>2 DEF First

LEMMA LenOfMap ==
  ASSUME NEW n \in Nat, NEW T, NEW f \in [1 .. n -> T]
  PROVE  Len(f) = n
<1>1. f \in Seq(T)
  BY SeqDef
<1>2. DOMAIN f = 1 .. Len(f) /\ Len(f) \in Nat
  BY <1>1, LenProperties
<1>3. 1 .. Len(f) = 1 .. n
  BY <1>2
<1> QED
  BY <1>2, <1>3

(* A map of 1 .. n into S is a sequence of members of S.                   *)
LEMMA MapIsSeq ==
  ASSUME NEW S, NEW n \in Nat, NEW F(_), \A k \in 1 .. n : F(k) \in S
  PROVE  [k \in 1 .. n |-> F(k)] \in Seq(S)
<1> DEFINE map == [k \in 1 .. n |-> F(k)]
<1>1. map \in [1 .. n -> S]
  OBVIOUS
<1> HIDE DEF map
<1>2. map \in Seq(S)
  BY <1>1, SeqDef
<1> QED
  BY <1>2 DEF map

---------------------------------------------------------------------------
(* The engineering kernel.                                                 *)

LEMMA PolicyDomain ==
  ASSUME NEW policy \in Policies
  PROVE  DOMAIN policy = 1 .. Len(policy) /\ Len(policy) \in Nat
BY PoliciesAssumption

(* What the walk of evaluate_flow_policy over the rules returns: the trace *)
(* has the verdict of each rule up to the first match, or of all rules.    *)
Verdict(rule, projection) ==
  Entry(rule, IF RuleMatches(rule, projection) THEN "MATCHED" ELSE "SKIPPED")

WalkTo(policy, projection, n) ==
  LET p == EvaluateFlowPolicy(policy, projection)
  IN  /\ p.trace = [k \in 1 .. n |-> Verdict(policy[k], projection)]
      /\ \A k \in 1 .. n : RuleMatches(policy[k], projection) => k = n /\ p.action = policy[k].action
      /\ \/ n > 0 /\ RuleMatches(policy[n], projection)
         \/ n = Len(policy) /\ p.action = NoMatch

LEMMA WalkOfThePolicy ==
  ASSUME NEW policy \in Policies, NEW projection
  PROVE  \E n \in 0 .. Len(policy) : WalkTo(policy, projection, n)
<1> DEFINE matching == {k \in DOMAIN policy : RuleMatches(policy[k], projection)}
           p == EvaluateFlowPolicy(policy, projection)
<1>1. DOMAIN policy = 1 .. Len(policy) /\ Len(policy) \in Nat
  BY PolicyDomain
<1>2. CASE matching # {}
  <2> DEFINE n == First(matching)
  <2>1. n \in matching /\ \A m \in matching : n <= m
    <3>1. matching \subseteq Nat
      BY <1>1
    <3> QED
      BY <1>2, <3>1, FirstIsLeast
  <2>2. n \in 1 .. Len(policy) /\ RuleMatches(policy[n], projection)
    BY <1>1, <2>1
  <2>3. \A k \in 1 .. n : RuleMatches(policy[k], projection) <=> k = n
    <3> SUFFICES ASSUME NEW k \in 1 .. n, RuleMatches(policy[k], projection) PROVE k = n
      BY <2>2
    <3>1. k \in matching
      BY <1>1, <2>2
    <3>2. n <= k
      BY <2>1, <3>1
    <3> HIDE DEF n
    <3> QED
      BY <1>1, <2>2, <3>2
  <2>4. p.action = policy[n].action
        /\ p.trace = [k \in 1 .. n |-> Entry(policy[k], IF k = n THEN "MATCHED" ELSE "SKIPPED")]
    BY <1>2 DEF EvaluateFlowPolicy, Matched
  <2> HIDE DEF n, p, matching
  <2>5. \A k \in 1 .. n : Entry(policy[k], IF k = n THEN "MATCHED" ELSE "SKIPPED")
                         = Verdict(policy[k], projection)
    BY <2>3 DEF Verdict
  <2>6. p.trace = [k \in 1 .. n |-> Verdict(policy[k], projection)]
    BY <2>4, <2>5
  <2>7. WalkTo(policy, projection, n)
    BY <2>2, <2>3, <2>4, <2>6 DEF WalkTo, p
  <2> QED
    BY <1>1, <2>2, <2>7
<1>3. CASE matching = {}
  <2> DEFINE n == Len(policy)
  <2>1. \A k \in 1 .. n : ~RuleMatches(policy[k], projection)
    BY <1>1, <1>3
  <2>2. p.action = NoMatch /\ p.trace = [k \in DOMAIN policy |-> Entry(policy[k], "SKIPPED")]
    BY <1>3 DEF EvaluateFlowPolicy
  <2> HIDE DEF p, matching
  <2>3. \A k \in 1 .. n : Entry(policy[k], "SKIPPED") = Verdict(policy[k], projection)
    BY <2>1 DEF Verdict
  <2>4. p.trace = [k \in 1 .. n |-> Verdict(policy[k], projection)]
    BY <1>1, <2>2, <2>3
  <2>5. WalkTo(policy, projection, n)
    BY <2>1, <2>2, <2>4 DEF WalkTo, p
  <2> QED
    BY <1>1, <2>5
<1> QED
  BY <1>2, <1>3

(* For evidence that has a label, a rule matches iff what it wants to be   *)
(* there was presented and what it wants to be missing was not.            *)
LEMMA MatchesIfSatisfied ==
  ASSUME NEW supplied \in Presentations, NEW rule
  PROVE  RuleMatches(rule, LifecycleProjection(supplied))
           <=> rule.completed \subseteq supplied /\ rule.missing \subseteq Labels \ supplied
<1>1. Labels \intersect supplied = supplied
  BY PresentationsAssumption
<1> QED
  BY <1>1 DEF RuleMatches, LifecycleProjection

(* The call that makes a draft explains it.                                *)
LEMMA DraftIsExplained ==
  ASSUME NEW s, NEW policy \in Policies, NEW supplied \in Presentations
  PROVE  Explains([subject |-> s, policy |-> policy, labels |-> supplied],
                  BuildHumanDecisionDraft(s, policy, supplied))
<1> DEFINE projection == LifecycleProjection(supplied)
           draft == BuildHumanDecisionDraft(s, policy, supplied)
           p == EvaluateFlowPolicy(policy, projection)
           call == [subject |-> s, policy |-> policy, labels |-> supplied]
<1>1. draft.subject = s /\ draft.type = p.action /\ draft.reasons = p.trace
  BY DEF BuildHumanDecisionDraft
<1>2. PICK n \in 0 .. Len(policy) : WalkTo(policy, projection, n)
  BY WalkOfThePolicy
<1>3. n \in Nat /\ n <= Len(policy) /\ Len(policy) \in Nat
  BY PolicyDomain
<1>4. p.trace = [k \in 1 .. n |-> Verdict(policy[k], projection)]
  BY <1>2 DEF WalkTo
<1>5. Len(p.trace) = n
  <2>1. p.trace \in [1 .. n -> {Verdict(policy[k], projection) : k \in 1 .. n}]
    BY <1>4
  <2> QED
    BY <1>3, <2>1, LenOfMap
<1>6. \A k \in 1 .. n : p.trace[k] = <<policy[k].id,
         IF RuleMatches(policy[k], projection) THEN "MATCHED" ELSE "SKIPPED">>
  BY <1>4 DEF Verdict, Entry
<1>7. \A k \in 1 .. n : RuleMatches(policy[k], projection)
         <=> /\ policy[k].completed \subseteq supplied
             /\ policy[k].missing \subseteq Labels \ supplied
  BY MatchesIfSatisfied
<1>8. call.subject = s /\ call.policy = policy /\ call.labels = supplied
  OBVIOUS
<1>9. /\ \A k \in 1 .. n : RuleMatches(policy[k], projection) => k = n /\ p.action = policy[k].action
      /\ \/ \E k \in 1 .. n : RuleMatches(policy[k], projection)
         \/ n = Len(policy) /\ p.action = NoMatch
  <2>1. ASSUME n > 0, RuleMatches(policy[n], projection)
        PROVE  \E k \in 1 .. n : RuleMatches(policy[k], projection)
    BY <1>3, <2>1
  <2> QED
    BY <1>2, <2>1 DEF WalkTo
<1> HIDE DEF projection, p, draft, call
<1> QED
  BY <1>1, <1>3, <1>5, <1>6, <1>7, <1>8, <1>9 DEF Explains, draft, call

(* The parts of a draft are of their types.                                *)
LEMMA DraftIsTyped ==
  ASSUME NEW s, NEW policy \in Policies, NEW supplied
  PROVE  /\ BuildHumanDecisionDraft(s, policy, supplied).type \in Actions
         /\ BuildHumanDecisionDraft(s, policy, supplied).reasons \in Seq(Traces)
<1> DEFINE projection == LifecycleProjection(supplied)
           p == EvaluateFlowPolicy(policy, projection)
<1>1. PICK n \in 0 .. Len(policy) : WalkTo(policy, projection, n)
  BY WalkOfThePolicy
<1>2. DOMAIN policy = 1 .. Len(policy) /\ Len(policy) \in Nat /\ n \in Nat
  BY PolicyDomain
<1>3. \A k \in 1 .. n : policy[k] \in Rules
  <2>1. \A k \in 1 .. n : policy[k] \in {policy[m] : m \in DOMAIN policy}
    BY <1>2
  <2> QED
    BY <2>1 DEF Rules
<1>4. p.action \in Actions
  <2>1. CASE n > 0 /\ RuleMatches(policy[n], projection)
    <3>1. n \in 1 .. n
      BY <1>2, <2>1
    <3>2. p.action = policy[n].action
      BY <1>1, <2>1, <3>1 DEF WalkTo
    <3> HIDE DEF p
    <3> QED
      BY <1>3, <3>1, <3>2 DEF Actions
  <2>2. CASE n = Len(policy) /\ p.action = NoMatch
    BY <2>2 DEF Actions
  <2> QED
    BY <1>1, <2>1, <2>2 DEF WalkTo
<1>5. p.trace \in Seq(Traces)
  <2>1. \A k \in 1 .. n : Verdict(policy[k], projection) \in Traces
    BY <1>3 DEF Verdict, Entry, Traces
  <2>2. [k \in 1 .. n |-> Verdict(policy[k], projection)] \in Seq(Traces)
    BY <1>2, <2>1, MapIsSeq
  <2> QED
    BY <1>1, <2>2 DEF WalkTo
<1> QED
  BY <1>4, <1>5 DEF BuildHumanDecisionDraft

---------------------------------------------------------------------------
(* Types.                                                                  *)

Typed(x) ==
  /\ x.subject \in Subjects
  /\ x.type \in Actions \union CallerTypes
  /\ x.reasons \in Seq(Traces) \union CallerReasons

Addressed(x) == x.id \in DispatchIds /\ x.target \in Targets /\ x.mode \in Modes

Record(work, id, target, mode) ==
  [id |-> id, subject |-> work.subject, type |-> work.type,
   target |-> target, mode |-> mode, reasons |-> work.reasons]

LEMMA OwnWorkIsTyped ==
  ASSUME NEW work \in OwnWork PROVE Typed(work) /\ Says(work) = work
BY DEF OwnWork, Typed, Says

LEMMA TypeDecide ==
  ASSUME TypeOK, Decide PROVE TypeOK'
<1>1. ASSUME NEW s \in Subjects, NEW policy \in Policies, NEW supplied \in Presentations,
             DraftDecision(s, policy, supplied)
      PROVE  TypeOK'
  <2>1. Typed(BuildHumanDecisionDraft(s, policy, supplied))
    BY DraftIsTyped DEF Typed, BuildHumanDecisionDraft
  <2>2. drafts' = drafts \union {BuildHumanDecisionDraft(s, policy, supplied)}
    BY <1>1 DEF DraftDecision
  <2>3. presented' \subseteq [subject : Subjects, policy : Policies, labels : Presentations]
    BY <1>1 DEF DraftDecision, TypeOK
  <2> QED
    BY <1>1, <2>1, <2>2, <2>3 DEF DraftDecision, TypeOK, Typed, adapting
<1>2. ASSUME NEW work, Typed(work), AddDecision(work), entered' \subseteq OwnWork
      PROVE  TypeOK'
  <2>1. Typed(Says(work))
    BY <1>2 DEF Typed, Says
  <2> QED
    BY <1>2, <2>1 DEF AddDecision, TypeOK, Typed, adapting
<1>3. ASSUME NEW draft \in drafts, CommitHumanDecision(draft) PROVE TypeOK'
  BY <1>2, <1>3 DEF CommitHumanDecision, TypeOK, Typed
<1>4. ASSUME NEW work \in OwnWork, CreateHumanDecision(work) PROVE TypeOK'
  <2>1. entered' \subseteq OwnWork
    BY <1>4 DEF CreateHumanDecision, TypeOK
  <2> QED
    BY <1>2, <1>4, <2>1, OwnWorkIsTyped DEF CreateHumanDecision
<1> QED
  BY <1>1, <1>3, <1>4 DEF Decide

LEMMA TypeDispatch ==
  ASSUME TypeOK, DispatchWork PROVE TypeOK'
<1>1. CASE DraftDispatch
  <2>1. PICK decision \in decisions :
          dispatchDrafts' = dispatchDrafts \union {BuildDispatchDraft(decision)}
    BY <1>1 DEF DraftDispatch
  <2>2. Typed(BuildDispatchDraft(decision))
    BY DEF TypeOK, Typed, BuildDispatchDraft
  <2> QED
    BY <1>1, <2>1, <2>2 DEF DraftDispatch, TypeOK, Typed, adapting
<1>2. ASSUME NEW work, Typed(work), NEW id \in DispatchIds, NEW target \in Targets,
             NEW mode \in Modes, AddRecord(work, id, target, mode), entered' \subseteq OwnWork
      PROVE  TypeOK'
  <2>1. records' = records \union {Record(work, id, target, mode)}
    BY <1>2 DEF AddRecord, Record
  <2>2. Typed(Record(work, id, target, mode)) /\ Addressed(Record(work, id, target, mode))
    BY <1>2 DEF Typed, Addressed, Record
  <2> QED
    BY <1>2, <2>1, <2>2 DEF AddRecord, TypeOK, Typed, Addressed, adapting
<1>3. ASSUME NEW id \in DispatchIds, NEW target \in Targets, NEW mode \in Modes,
             NEW draft \in dispatchDrafts, CommitDispatch(draft, id, target, mode)
      PROVE  TypeOK'
  BY <1>2, <1>3 DEF CommitDispatch, TypeOK, Typed
<1>4. ASSUME NEW id \in DispatchIds, NEW target \in Targets, NEW mode \in Modes,
             NEW work \in OwnWork, CreateDispatchRecord(work, id, target, mode)
      PROVE  TypeOK'
  <2>1. entered' \subseteq OwnWork
    BY <1>4 DEF CreateDispatchRecord, TypeOK
  <2> QED
    BY <1>2, <1>4, <2>1, OwnWorkIsTyped DEF CreateDispatchRecord
<1>5. ASSUME NEW record \in records, RunDispatcherKernel(record) PROVE TypeOK'
  BY <1>5 DEF RunDispatcherKernel, BuildDispatchPlan, TypeOK, adapting
<1> QED
  BY <1>1, <1>3, <1>4, <1>5 DEF DispatchWork

LEMMA TypeAdapt ==
  ASSUME TypeOK, Adapt PROVE TypeOK'
<1>1. ASSUME NEW plan \in plans, NEW compatible \in SUBSET Declared,
             AddSelection([plan |-> plan, compatible |-> compatible]),
             selected' \subseteq selected \union {[plan |-> plan, compatible |-> compatible]}
      PROVE  TypeOK'
  BY <1>1 DEF AddSelection, TypeOK, objects
<1>2. ASSUME NEW plan \in plans, NEW capability \in Declared,
             AddRequest(Request(plan, capability)),
             built' \subseteq built \union {Request(plan, capability)}
      PROVE  TypeOK'
  BY <1>2 DEF AddRequest, Request, TypeOK, objects
<1>3. ASSUME NEW plan \in plans, NEW capabilities \in CapabilitySets, Select(plan, capabilities)
      PROVE  TypeOK'
  <2> DEFINE compatible == {c \in capabilities : Compatible(plan, c)}
  <2>1. compatible \in SUBSET Declared
    BY DEF Declared
  <2>2. AddSelection([plan |-> plan, compatible |-> compatible])
        /\ selected' = selected \union {[plan |-> plan, compatible |-> compatible]}
    BY <1>3 DEF Select, SelectExecutionAdapters
  <2> HIDE DEF compatible
  <2> QED
    BY <1>1, <2>1, <2>2
<1>4. ASSUME NEW plan \in plans, NEW compatible \in SUBSET Declared, MakeSelection(plan, compatible)
      PROVE  TypeOK'
  BY <1>1, <1>4 DEF MakeSelection
<1>5. ASSUME NEW plan \in plans, NEW capability \in Declared,
             BuildRequest(plan, capability) \/ MakeRequest(plan, capability)
      PROVE  TypeOK'
  BY <1>2, <1>5 DEF BuildRequest, MakeRequest
<1>6. ASSUME NEW selection \in selections, NEW request \in requests,
             BuildResult(selection, request)
      PROVE  TypeOK'
  BY <1>6 DEF BuildResult, TypeOK, objects
<1> QED
  BY <1>3, <1>4, <1>5, <1>6 DEF Adapt

(* The fields of every object stay in their ranges, those that callers     *)
(* enter included, and selections, requests and results name plans,        *)
(* selections and requests that exist (TypeOK).                            *)
THEOREM TypeCorrect == Spec => []TypeOK
<1>1. Init => TypeOK
  BY DEF Init, TypeOK
<1>2. TypeOK /\ UNCHANGED vars => TypeOK'
  BY DEF TypeOK, vars, objects, adapting
<1>3. TypeOK /\ [Next]_vars => TypeOK'
  BY <1>2, TypeDecide, TypeDispatch, TypeAdapt DEF Next
<1> QED
  BY <1>1, <1>3, PTL DEF Spec

---------------------------------------------------------------------------
(* Where the work comes from.                                              *)

(* Being accounted for is a matter of what an object says, and history     *)
(* only grows.                                                             *)
LEMMA SaysTheSame ==
  ASSUME NEW x, NEW y, Accounted(x), Says(y) = Says(x) PROVE Accounted(y)
<1>1. y.subject = x.subject /\ y.type = x.type /\ y.reasons = x.reasons
  BY DEF Says
<1> QED
  BY <1>1 DEF Accounted, Explained, Explains

LEMMA HistoryGrows ==
  ASSUME [Next]_vars PROVE presented \subseteq presented' /\ entered \subseteq entered'
<1>1. CASE Decide
  BY <1>1 DEF Decide, DraftDecision, CommitHumanDecision, CreateHumanDecision, AddDecision
<1>2. CASE DispatchWork
  BY <1>2 DEF DispatchWork, DraftDispatch, CommitDispatch, CreateDispatchRecord, AddRecord,
              RunDispatcherKernel
<1>3. CASE Adapt
  BY <1>3 DEF Adapt, Select, MakeSelection, AddSelection, BuildRequest, MakeRequest, AddRequest,
              BuildResult
<1>4. CASE UNCHANGED vars
  BY <1>4 DEF vars
<1> QED
  BY <1>1, <1>2, <1>3, <1>4 DEF Next

LEMMA ChainDecide ==
  ASSUME Chain, Decide, \A x : Explained(x) => Explained(x)',
         \A x : Accounted(x) => Accounted(x)'
  PROVE  Chain'
<1>1. ASSUME NEW s \in Subjects, NEW policy \in Policies, NEW supplied \in Presentations,
             DraftDecision(s, policy, supplied)
      PROVE  Chain'
  <2>1. Explained(BuildHumanDecisionDraft(s, policy, supplied))'
    BY <1>1, DraftIsExplained DEF DraftDecision, Explained
  <2> QED
    BY <1>1, <2>1 DEF DraftDecision, Chain
<1>2. ASSUME NEW work, Accounted(work)', AddDecision(work) PROVE Chain'
  <2>1. Says(Says(work)) = Says(work)
    BY DEF Says
  <2>2. Accounted(Says(work))'
    BY <1>2, <2>1 DEF Accounted, Explained, Explains, Says
  <2> QED
    BY <1>2, <2>2 DEF AddDecision, Chain
<1>3. ASSUME NEW draft \in drafts, CommitHumanDecision(draft) PROVE Chain'
  BY <1>2, <1>3 DEF CommitHumanDecision, Chain, Accounted
<1>4. ASSUME NEW work \in OwnWork, CreateHumanDecision(work) PROVE Chain'
  <2>1. Accounted(work)'
    BY <1>4, OwnWorkIsTyped DEF CreateHumanDecision, Accounted, Says
  <2> QED
    BY <1>2, <1>4, <2>1 DEF CreateHumanDecision
<1> QED
  BY <1>1, <1>3, <1>4 DEF Decide

LEMMA ChainDispatch ==
  ASSUME Chain, DispatchWork, \A x : Explained(x) => Explained(x)',
         \A x : Accounted(x) => Accounted(x)'
  PROVE  Chain'
<1>1. CASE DraftDispatch
  <2>1. PICK decision \in decisions :
          dispatchDrafts' = dispatchDrafts \union {BuildDispatchDraft(decision)}
    BY <1>1 DEF DraftDispatch
  <2>2. Accounted(BuildDispatchDraft(decision))
    <3>1. Says(BuildDispatchDraft(decision)) = Says(decision)
      BY DEF Says, BuildDispatchDraft
    <3> QED
      BY <3>1, SaysTheSame DEF Chain
  <2> QED
    BY <1>1, <2>1, <2>2 DEF DraftDispatch, Chain
<1>2. ASSUME NEW work, Accounted(work)', NEW id, NEW target, NEW mode,
             AddRecord(work, id, target, mode)
      PROVE  Chain'
  <2>1. records' = records \union {Record(work, id, target, mode)}
    BY <1>2 DEF AddRecord, Record
  <2>2. Accounted(Record(work, id, target, mode))'
    BY <1>2 DEF Accounted, Explained, Explains, Says, Record
  <2> QED
    BY <1>2, <2>1, <2>2 DEF AddRecord, Chain
<1>3. ASSUME NEW id, NEW target, NEW mode,
             NEW draft \in dispatchDrafts, CommitDispatch(draft, id, target, mode)
      PROVE  Chain'
  <2>1. Accounted(draft)'
    BY DEF Chain
  <2> QED
    BY <1>2, <1>3, <2>1 DEF CommitDispatch
<1>4. ASSUME NEW id, NEW target, NEW mode,
             NEW work \in OwnWork, CreateDispatchRecord(work, id, target, mode)
      PROVE  Chain'
  <2>1. Accounted(work)'
    BY <1>4, OwnWorkIsTyped DEF CreateDispatchRecord, Accounted, Says
  <2> QED
    BY <1>2, <1>4, <2>1 DEF CreateDispatchRecord
<1>5. ASSUME NEW record \in records, RunDispatcherKernel(record) PROVE Chain'
  BY <1>5 DEF RunDispatcherKernel, BuildDispatchPlan, Chain
<1> QED
  BY <1>1, <1>3, <1>4, <1>5 DEF DispatchWork

LEMMA ChainNext == Chain /\ [Next]_vars => Chain'
<1> SUFFICES ASSUME Chain, [Next]_vars PROVE Chain'
  OBVIOUS
<1>1. \A x : Explained(x) => Explained(x)'
  BY HistoryGrows DEF Explained, Explains
<1>2. \A x : Accounted(x) => Accounted(x)'
  BY <1>1, HistoryGrows DEF Accounted, Says
<1>3. CASE UNCHANGED <<objects, presented, entered>>
  BY <1>1, <1>2, <1>3 DEF Chain, objects
<1>4. CASE Adapt
  BY <1>3, <1>4 DEF Adapt, Select, MakeSelection, AddSelection, BuildRequest, MakeRequest,
                    AddRequest, BuildResult
<1>5. CASE UNCHANGED vars
  BY <1>3, <1>5 DEF vars
<1> QED
  BY <1>1, <1>2, <1>4, <1>5, ChainDecide, ChainDispatch DEF Next

(* Whatever is decided, dispatched or planned, a caller entered it as it   *)
(* stands, or one call of the engineering kernel explains it: for all      *)
(* policies and evidence, any number of stale drafts and any entries of    *)
(* callers in between (WorkIsExplained).                                   *)
THEOREM ExplainedWork == Spec => []WorkIsExplained
<1>1. Init => Chain
  BY DEF Init, Chain
<1>2. Chain => WorkIsExplained
  BY DEF Chain, WorkIsExplained, Accounted, Explained
<1> QED
  BY <1>1, <1>2, ChainNext, PTL DEF Spec

---------------------------------------------------------------------------
(* What reaches an adapter.                                                *)

LEMMA CoverageNext == Coverage /\ [Next]_vars => Coverage'
<1> SUFFICES ASSUME Coverage, [Next]_vars PROVE Coverage'
  OBVIOUS
<1>1. CASE UNCHANGED <<selected, built, results>>
  BY <1>1 DEF Coverage, Fits, Compatible, ReasonCodes
<1>2. CASE Decide
  BY <1>1, <1>2 DEF Decide, DraftDecision, CommitHumanDecision, CreateHumanDecision,
                    AddDecision, adapting
<1>3. CASE DispatchWork
  BY <1>1, <1>3 DEF DispatchWork, DraftDispatch, CommitDispatch, CreateDispatchRecord,
                    AddRecord, RunDispatcherKernel, adapting
<1>4. CASE Adapt
  <2>1. ASSUME NEW plan, NEW capabilities, Select(plan, capabilities) PROVE Coverage'
    <3>1. \A c \in SelectExecutionAdapters(plan, capabilities).compatible :
            Compatible(SelectExecutionAdapters(plan, capabilities).plan, c)
      BY DEF SelectExecutionAdapters
    <3> QED
      BY <2>1, <3>1 DEF Select, AddSelection, Coverage
  <2>2. ASSUME NEW plan, NEW compatible, MakeSelection(plan, compatible) PROVE Coverage'
    BY <1>1, <2>2 DEF MakeSelection, AddSelection
  <2>3. ASSUME NEW plan, NEW capability, BuildRequest(plan, capability) PROVE Coverage'
    <3>1. Request(plan, capability).plan = plan /\ Request(plan, capability).capability = capability
      BY DEF Request
    <3> QED
      BY <2>3, <3>1 DEF BuildRequest, AddRequest, Coverage
  <2>4. ASSUME NEW plan, NEW capability, MakeRequest(plan, capability) PROVE Coverage'
    BY <1>1, <2>4 DEF MakeRequest, AddRequest
  <2>5. ASSUME NEW selection, NEW request, BuildResult(selection, request) PROVE Coverage'
    BY <2>5 DEF BuildResult, Coverage
  <2> QED
    BY <1>4, <2>1, <2>2, <2>3, <2>4, <2>5 DEF Adapt
<1>5. CASE UNCHANGED vars
  BY <1>1, <1>5 DEF vars, adapting
<1> QED
  BY <1>2, <1>3, <1>4, <1>5 DEF Next

(* An adapter is asked only for what it declared and what is addressed to  *)
(* it, if a kernel made the request or the selection it comes with,        *)
(* whatever plan, ids and capabilities the other one was made for          *)
(* (RequestsAreCovered).                                                   *)
THEOREM CoveredRequests == Spec => []RequestsAreCovered
<1>1. Init => Coverage
  BY DEF Init, Coverage
<1>2. Coverage => RequestsAreCovered
  <2> SUFFICES ASSUME Coverage, NEW x \in results, x.selection \in selected \/ x.request \in built
               PROVE  /\ x.request.plan.target = x.request.capability.label
                      /\ x.request.plan.type \in x.request.capability.types
                      /\ KindOf[x.request.plan.subject] \in x.request.capability.kinds
                      /\ x.request.plan.mode \in x.request.capability.modes
    BY DEF RequestsAreCovered
  <2>1. Compatible(x.request.plan, x.request.capability)
    BY DEF Coverage, Fits
  <2>2. ReasonCodes(x.request.plan, x.request.capability) = {}
    BY <2>1 DEF Compatible
  <2> QED
    BY <2>2 DEF ReasonCodes
<1> QED
  BY <1>1, <1>2, CoverageNext, PTL DEF Spec

===========================================================================
