----------------------- MODULE ApprovalWorkflow_proofs -----------------------
(* Theorems about ApprovalWorkflow, for every value of its constants.       *)
EXTENDS ApprovalWorkflow, TLAPS

PC == {"idle"} \cup InFlight \cup Ended

-----------------------------------------------------------------------------
(* How the record of a call changes: the shapes its steps are built from.   *)

LEMMA IdleCallType == IdleCall \in CallType
  BY DEF IdleCall, CallType

LEMMA PcType ==
  ASSUME NEW x \in CallType, NEW pc \in PC
  PROVE  [x EXCEPT !.pc = pc] \in CallType
  BY DEF CallType, PC

LEMMA CallUpdate ==
  ASSUME call \in [Calls -> CallType], NEW c \in Calls, NEW x \in CallType,
         call' = [call EXCEPT ![c] = x]
  PROVE  call' \in [Calls -> CallType]
  OBVIOUS

LEMMA GotoType ==
  ASSUME call \in [Calls -> CallType], NEW c \in Calls, NEW pc \in PC, Goto(c, pc)
  PROVE  call' \in [Calls -> CallType]
<1>1. call[c] \in CallType
  OBVIOUS
<1>2. [call[c] EXCEPT !.pc = pc] \in CallType
  BY <1>1, PcType
<1>3. call' = [call EXCEPT ![c] = [call[c] EXCEPT !.pc = pc]]
  BY DEF Goto
<1> QED
  BY <1>2, <1>3, CallUpdate

LEMMA EndType ==
  ASSUME call \in [Calls -> CallType], NEW c \in Calls, NEW pc \in PC, End(c, pc)
  PROVE  call' \in [Calls -> CallType]
<1>1. [IdleCall EXCEPT !.pc = pc] \in CallType
  BY IdleCallType, PcType
<1> QED
  BY <1>1, CallUpdate DEF End

LEMMA RefusalType ==
  ASSUME NEW x \in CallType, NEW why \in {"denied", "blocked"}
  PROVE  [x EXCEPT !.pc = "auditRefusal", !.refusal = why] \in CallType
  BY DEF CallType, InFlight

LEMMA RefuseType ==
  ASSUME call \in [Calls -> CallType], NEW c \in Calls,
         NEW why \in {"denied", "blocked"}, Refuse(c, why)
  PROVE  call' \in [Calls -> CallType]
<1>1. [call[c] EXCEPT !.pc = "auditRefusal", !.refusal = why] \in CallType
  BY RefusalType
<1>2. call' = [call EXCEPT ![c] = [call[c] EXCEPT !.pc = "auditRefusal", !.refusal = why]]
  BY DEF Refuse
<1> QED
  BY <1>1, <1>2, CallUpdate

LEMMA FactsReadType ==
  ASSUME NEW x \in CallType, NEW f \in FactsSpace \cup {NoFacts}, NEW t \in Nat,
         NEW pc \in PC
  PROVE  [x EXCEPT !.facts = f, !.now = t, !.pc = pc] \in CallType
<1> DEFINE y == [x EXCEPT !.facts = f, !.now = t]
<1>1. y \in CallType
  BY DEF CallType
<1>2. [y EXCEPT !.pc = pc] \in CallType
  <2> HIDE DEF y
  <2> QED
    BY <1>1, PcType
<1> QED
  BY <1>2

LEMMA RoleReadType ==
  ASSUME NEW x \in CallType, NEW role \in DOMAIN TierOf \cup {Null}, NEW pc \in PC
  PROVE  [x EXCEPT !.role = role, !.pc = pc] \in CallType
<1> DEFINE y == [x EXCEPT !.role = role]
<1>1. y \in CallType
  BY DEF CallType
<1>2. [y EXCEPT !.pc = pc] \in CallType
  <2> HIDE DEF y
  <2> QED
    BY <1>1, PcType
<1> QED
  BY <1>2

LEMMA RoleRefusedType ==
  ASSUME NEW x \in CallType, NEW role \in DOMAIN TierOf \cup {Null}
  PROVE  [x EXCEPT !.role = role, !.pc = "auditRefusal", !.refusal = "denied"] \in CallType
<1> DEFINE y == [x EXCEPT !.role = role]
<1>1. y \in CallType
  BY DEF CallType
<1>2. [y EXCEPT !.pc = "auditRefusal", !.refusal = "denied"] \in CallType
  <2> HIDE DEF y
  <2> QED
    BY <1>1, RefusalType
<1> QED
  BY <1>2

LEMMA ProvenType ==
  ASSUME NEW x \in CallType, NEW b \in BOOLEAN
  PROVE  [x EXCEPT !.proven = b] \in CallType
  BY DEF CallType

LEMMA CountedType ==
  ASSUME NEW x \in CallType, NEW s \in SUBSET Twins
  PROVE  [x EXCEPT !.counted = s] \in CallType
  BY DEF CallType

-----------------------------------------------------------------------------
(* Type correctness.                                                        *)

LEMMA InitType == Init => TypeOK
<1> SUFFICES ASSUME Init PROVE TypeOK
  OBVIOUS
<1>1. call \in [Calls -> CallType]
  BY IdleCallType DEF Init
<1>2. /\ review \in [Reviews -> ReviewType]
      /\ assignment \in [AssignmentCodes -> AssignmentType]
      /\ decision \in [DecisionCodes -> DecisionType]
  BY DEF Init, ReviewType, AssignmentType, DecisionType, NoReview, NoAssignment,
         NoDecision
<1>3. audit \in [Calls -> Seq(Decided \cup {"denied", "blocked"})]
  BY DEF Init
<1> QED
  BY <1>1, <1>2, <1>3 DEF Init, TypeOK, Catalogue!Init, Catalogue!Standings

LEMMA EnvironmentType == TypeOK /\ Environment => TypeOK'
<1> SUFFICES ASSUME TypeOK, Environment PROVE TypeOK'
  OBVIOUS
<1>1. CASE Tick
  BY <1>1, ConstantsAssumption DEF Tick, TypeOK, authVars, auditVars
<1>2. ASSUME NEW t \in Twins, ChangeTwin(t) PROVE TypeOK'
  <2>1. snapshot' \in [Twins -> Catalogue!Standings] /\ Counted' \in SUBSET Twins
    BY <1>2 DEF ChangeTwin, Catalogue!Change, Catalogue!Publish, Catalogue!Supersede,
       Catalogue!Revalidate, Catalogue!Standings, TypeOK, Counted
  <2>2. ASSUME NEW c \in Calls
        PROVE  [call[c] EXCEPT !.counted = IF call[c].pc \in InFlight THEN @ \cup Counted'
                                           ELSE @] \in CallType
    <3>1. call[c] \in CallType /\ call[c].counted \in SUBSET Twins
      BY DEF TypeOK, CallType
    <3> QED
      BY <2>1, <3>1, CountedType
  <2>3. call' \in [Calls -> CallType]
    BY <1>2, <2>2 DEF ChangeTwin
  <2> QED
    BY <1>2, <2>1, <2>3 DEF ChangeTwin, TypeOK, authVars, auditVars
<1>3. ASSUME NEW u \in Users, ChangeOwnership(u) PROVE TypeOK'
  <2>1. owners' \in SUBSET Users
    BY <1>3 DEF ChangeOwnership, TypeOK
  <2>2. ASSUME NEW c \in Calls
        PROVE  [call[c] EXCEPT !.proven = @ \/ call[c].user \in owners'] \in CallType
    <3>1. call[c] \in CallType /\ (call[c].proven \/ call[c].user \in owners') \in BOOLEAN
      BY DEF TypeOK
    <3> QED
      BY <3>1, ProvenType
  <2>3. call' \in [Calls -> CallType]
    BY <1>3, <2>2 DEF ChangeOwnership
  <2> QED
    BY <1>3, <2>1, <2>3 DEF ChangeOwnership, TypeOK, auditVars
<1> QED
  BY <1>1, <1>2, <1>3 DEF Environment

LEMMA ReviewingType == TypeOK /\ Reviewing => TypeOK'
<1> SUFFICES ASSUME TypeOK, NEW r \in Reviews,
                    CreateReviewPackage(r) \/ CreateReviewVersion(r) \/ StartReview(r)
             PROVE  TypeOK'
  BY DEF Reviewing
<1>1. review' \in [Reviews -> ReviewType]
  <2>1. review \in [Reviews -> ReviewType]
    BY DEF TypeOK
  <2>2. CASE CreateReviewPackage(r)
    BY <2>1, <2>2 DEF CreateReviewPackage, ReviewType
  <2>3. CASE CreateReviewVersion(r)
    BY <2>1, <2>3 DEF CreateReviewVersion, ReviewType
  <2>4. CASE StartReview(r)
    BY <2>1, <2>4 DEF StartReview, ReviewType
  <2> QED
    BY <2>2, <2>3, <2>4
<1> QED
  BY <1>1 DEF CreateReviewPackage, CreateReviewVersion, StartReview, TypeOK,
              authVars, auditVars

LEMMA GrantType ==
  ASSUME TypeOK, NEW k \in AssignmentCodes, NEW u \in Users,
         NEW role \in DOMAIN TierOf, NEW source \in {"manual-admin", "onboarding"},
         GrantActiveAssignment(k, u, role, source)
  PROVE  assignment' \in [AssignmentCodes -> AssignmentType]
  BY DEF TypeOK, GrantActiveAssignment, AssignmentType

LEMMA AdministrationType == TypeOK /\ Administration => TypeOK'
<1> SUFFICES ASSUME TypeOK, Administration PROVE TypeOK'
  OBVIOUS
<1>1. ASSUME NEW k \in AssignmentCodes, NEW u \in Users, NEW role \in GrantRoles,
             GrantApproverAuthority(k, u, role)
      PROVE  TypeOK'
  <2>1. role \in DOMAIN TierOf
    BY ConstantsAssumption
  <2>2. assignment' \in [AssignmentCodes -> AssignmentType]
    BY <1>1, <2>1, GrantType DEF GrantApproverAuthority
  <2> QED
    BY <1>1, <2>2 DEF GrantApproverAuthority, TypeOK, auditVars
<1>2. ASSUME NEW k \in AssignmentCodes, RevokeApproverAuthority(k) PROVE TypeOK'
  BY <1>2 DEF RevokeApproverAuthority, TypeOK, AssignmentType, auditVars
<1>3. ASSUME NEW u \in Users, BootstrapRead(u) PROVE TypeOK'
  BY <1>3 DEF BootstrapRead, TypeOK, auditVars
<1>4. ASSUME NEW u \in Users, BootstrapGrant(u) PROVE TypeOK'
  <2>1. "business-owner" \in DOMAIN TierOf /\ OwnerCode \in AssignmentCodes
    BY ConstantsAssumption DEF TierOf
  <2>2. assignment' \in [AssignmentCodes -> AssignmentType]
    BY <1>4, <2>1, GrantType DEF BootstrapGrant, TypeOK
  <2> QED
    BY <1>4, <2>2 DEF BootstrapGrant, TypeOK, auditVars
<1> QED
  BY <1>1, <1>2, <1>3, <1>4 DEF Administration

LEMMA BeginType ==
  ASSUME TypeOK, NEW c \in Calls, NEW u \in Users, NEW k \in AssignmentCodes,
         NEW o \in RequestedOutcomes, NEW r \in Reviews, NEW d \in DecisionCodes,
         BeginSubmit(c, u, k, o, r, d)
  PROVE  TypeOK'
<1> DEFINE begun == [now |-> clock, revoked |-> RevokedCodes, published |-> Published]
           rec(pc, why) == [IdleCall EXCEPT
              !.pc = pc, !.user = u, !.code = k, !.outcome = o, !.review = r,
              !.dcode = d, !.refusal = why, !.begun = begun, !.counted = Counted,
              !.proven = u \in owners]
<1>1. begun \in [now : Nat, revoked : SUBSET AssignmentCodes, published : SUBSET Twins]
  BY DEF TypeOK, RevokedCodes, Published
<1>2. Counted \in SUBSET Twins /\ (u \in owners) \in BOOLEAN /\ o \in Outcomes
  BY ConstantsAssumption DEF Counted
<1>3. ASSUME NEW pc \in {"findActiveForUser", "auditRefusal"}, NEW why \in {"denied", Null}
      PROVE  rec(pc, why) \in CallType
  <2> HIDE DEF begun
  <2>1. pc \in PC /\ why \in {"denied", "blocked", Null}
    BY DEF PC, InFlight
  <2> QED
    BY <1>1, <1>2, <2>1 DEF IdleCall, CallType, PC
<1>4. PICK pc \in {"findActiveForUser", "auditRefusal"} :
        call' = [call EXCEPT ![c] =
                   rec(pc, IF pc = "auditRefusal" THEN "denied" ELSE Null)]
  BY DEF BeginSubmit
<1>5. rec(pc, IF pc = "auditRefusal" THEN "denied" ELSE Null) \in CallType
  BY <1>3
<1>6. call' \in [Calls -> CallType]
  <2> HIDE DEF rec
  <2> QED
    BY <1>4, <1>5, CallUpdate DEF TypeOK
<1> QED
  BY <1>6 DEF BeginSubmit, ReadOnly, TypeOK, authVars, auditVars

LEMMA StatusType ==
  ASSUME TypeOK, NEW c \in Calls, NEW r \in Reviews, BeginStatus(c, r)
  PROVE  TypeOK'
<1>1. [IdleCall EXCEPT !.pc = "getLatestVersion", !.review = r] \in CallType
  BY DEF IdleCall, CallType, InFlight
<1>2. call' \in [Calls -> CallType]
  BY <1>1, CallUpdate DEF BeginStatus, TypeOK
<1> QED
  BY <1>2 DEF BeginStatus, ReadOnly, TypeOK, authVars, auditVars

\* A call that has begun names a review, and one that submits a decision also
\* names its assignment and its decision code.
InputsOf(x) ==
    /\ x.pc \in InFlight \cup {"returned"} => x.review \in Reviews
    /\ x.outcome # Null => x.code \in AssignmentCodes /\ x.dcode \in DecisionCodes
    /\ x.pc \in {"findActiveForUser", "assertOwner", "getRole", "gate",
                 "createDecision", "decide"} => x.outcome # Null
    /\ x.pc = "auditRefusal" => x.refusal # Null

CallInputs == \A c \in Calls : InputsOf(call[c])

LEMMA AfterFactsPC ==
  ASSUME NEW c \in Calls PROVE AfterFacts(c) \in PC
  BY DEF AfterFacts, PC, InFlight, Ended

LEMMA AuditType ==
  ASSUME audit \in [Calls -> Seq(Decided \cup {"denied", "blocked"})],
         NEW c \in Calls, NEW e \in Decided \cup {"denied", "blocked"}
  PROVE  [audit EXCEPT ![c] = Append(@, e)]
           \in [Calls -> Seq(Decided \cup {"denied", "blocked"})]
<1> DEFINE S == Decided \cup {"denied", "blocked"}
<1>1. audit[c] \in Seq(S) /\ e \in S
  OBVIOUS
<1>2. Append(audit[c], e) \in Seq(S)
  <2> HIDE DEF S
  <2> QED
    BY <1>1
<1> QED
  BY <1>2

LEMMA AdvanceType ==
  ASSUME TypeOK, CallInputs, NEW c \in Calls, Advance(c) PROVE TypeOK'
<1>0. call \in [Calls -> CallType] /\ call[c] \in CallType
  BY DEF TypeOK
<1>1. CASE FindActiveForUser(c)
  <2>1. call' \in [Calls -> CallType]
    BY <1>0, <1>1, GotoType, RefuseType DEF FindActiveForUser, PC, InFlight
  <2> QED
    BY <1>1, <2>1 DEF FindActiveForUser, ReadOnly, TypeOK, authVars, auditVars
<1>2. CASE AssertOwnerAuthorityStillProven(c)
  <2>1. call' \in [Calls -> CallType]
    BY <1>0, <1>2, GotoType, RefuseType DEF AssertOwnerAuthorityStillProven, PC, InFlight
  <2> QED
    BY <1>2, <2>1 DEF AssertOwnerAuthorityStillProven, ReadOnly, TypeOK, authVars,
                      auditVars
<1>3. CASE GetLatestVersionWithClock(c)
  <2> DEFINE f == review[call[c].review].facts
             pc == IF Expired(f, clock) THEN "noteExpiry" ELSE AfterFacts(c)
             x == [call[c] EXCEPT !.facts = f, !.now = clock, !.pc = pc]
  <2>1. f \in FactsSpace \cup {NoFacts}
    <3>1. call[c].review \in Reviews
      BY <1>3 DEF GetLatestVersionWithClock, At, CallInputs, InputsOf, InFlight
    <3> QED
      BY <3>1 DEF TypeOK, ReviewType
  <2>2. pc \in PC
    BY AfterFactsPC DEF PC, InFlight
  <2>3. x \in CallType
    <3> HIDE DEF f, pc
    <3> QED
      BY <1>0, <2>1, <2>2, FactsReadType DEF TypeOK
  <2>4. call' = [call EXCEPT ![c] = x]
    BY <1>3 DEF GetLatestVersionWithClock
  <2>5. call' \in [Calls -> CallType]
    <3> HIDE DEF x
    <3> QED
      BY <1>0, <2>3, <2>4, CallUpdate
  <2> QED
    BY <1>3, <2>5 DEF GetLatestVersionWithClock, ReadOnly, TypeOK, authVars, auditVars
<1>4. CASE NoteExpiry(c)
  <2>1. call' \in [Calls -> CallType]
    BY <1>0, <1>4, GotoType, AfterFactsPC DEF NoteExpiry, PC, InFlight
  <2>2. expiryLock' \in [Reviews -> Calls \cup {Null}]
    BY <1>4 DEF NoteExpiry, TypeOK
  <2> QED
    BY <1>4, <2>1, <2>2 DEF NoteExpiry, TypeOK, authVars
<1>5. CASE RecordExpiry(c)
  <2>1. call' \in [Calls -> CallType]
    BY <1>0, <1>5, GotoType, AfterFactsPC DEF RecordExpiry
  <2>2. /\ expiryLock' \in [Reviews -> Calls \cup {Null}]
        /\ expiryEvents' \in [Reviews -> Nat]
    <3>1. call[c].review \in Reviews
      BY <1>5 DEF RecordExpiry, At, CallInputs, InputsOf, InFlight
    <3>2. expiryEvents[call[c].review] + 1 \in Nat
      BY <3>1 DEF TypeOK
    <3> QED
      BY <1>5, <3>1, <3>2 DEF RecordExpiry, TypeOK
  <2> QED
    BY <1>5, <2>1, <2>2 DEF RecordExpiry, TypeOK, authVars
<1>6. CASE GetRoleAndEvaluate(c)
  <2> DEFINE role == assignment[call[c].code].role
             pc == IF call[c].outcome = "reject" THEN "createDecision" ELSE "gate"
             x == [call[c] EXCEPT !.role = role, !.pc = pc]
             y == [call[c] EXCEPT !.role = role, !.pc = "auditRefusal",
                                  !.refusal = "denied"]
  <2>1. role \in DOMAIN TierOf \cup {Null}
    <3>1. call[c].code \in AssignmentCodes
      BY <1>6 DEF GetRoleAndEvaluate, At, CallInputs, InputsOf
    <3> QED
      BY <3>1 DEF TypeOK, AssignmentType
  <2>2. pc \in PC
    BY DEF PC, InFlight
  <2>3. x \in CallType /\ y \in CallType
    <3> HIDE DEF role, pc
    <3> QED
      BY <1>0, <2>1, <2>2, RoleReadType, RoleRefusedType
  <2>4. call' = [call EXCEPT ![c] = x] \/ call' = [call EXCEPT ![c] = y]
    BY <1>6 DEF GetRoleAndEvaluate
  <2>5. call' \in [Calls -> CallType]
    <3> HIDE DEF x, y
    <3> QED
      BY <1>0, <2>3, <2>4, CallUpdate
  <2> QED
    BY <1>6, <2>5 DEF GetRoleAndEvaluate, ReadOnly, TypeOK, authVars, auditVars
<1>7. CASE AssessGate(c)
  <2>1. call' \in [Calls -> CallType]
    BY <1>0, <1>7, GotoType, RefuseType DEF AssessGate, PC, InFlight
  <2> QED
    BY <1>7, <2>1 DEF AssessGate, ReadOnly, TypeOK, authVars, auditVars
<1>8. CASE CreateDecision(c)
  <2>1. call' \in [Calls -> CallType]
    BY <1>0, <1>8, GotoType, EndType DEF CreateDecision, PC, InFlight, Ended
  <2>2. decision' \in [DecisionCodes -> DecisionType]
    <3>1. [status |-> "draft", call |-> c] \in DecisionType
      BY DEF DecisionType
    <3>2. \/ decision' = decision
          \/ decision' = [decision EXCEPT ![call[c].dcode] =
                            [status |-> "draft", call |-> c]]
      BY <1>8 DEF CreateDecision
    <3> QED
      BY <3>1, <3>2 DEF TypeOK
  <2> QED
    BY <1>8, <2>1, <2>2 DEF CreateDecision, TypeOK, authVars, auditVars
<1>9. CASE Decide(c)
  <2>1. call' \in [Calls -> CallType]
    BY <1>0, <1>9, GotoType DEF Decide, PC, Ended
  <2>2. DecidedStatus(call[c].outcome) \in Decided
    <3>1. call[c].outcome \in Outcomes
      BY <1>0, <1>9 DEF Decide, At, CallInputs, InputsOf, CallType
    <3> QED
      BY <3>1 DEF Outcomes, DecidedStatus, Decided, Approving
  <2>3. decision' \in [DecisionCodes -> DecisionType]
    BY <1>9, <2>2 DEF Decide, TypeOK, DecisionType
  <2>4. audit' \in [Calls -> Seq(Decided \cup {"denied", "blocked"})]
    BY <1>9, <2>2 DEF Decide, AuditWithDecision, EventFor, TypeOK
  <2> QED
    BY <1>9, <2>1, <2>3, <2>4 DEF Decide, TypeOK, authVars, auditVars
<1>10. CASE AuditRefusal(c)
  <2>1. call' \in [Calls -> CallType]
    BY <1>0, <1>10, EndType DEF AuditRefusal, PC, Ended
  <2>2. audit' \in [Calls -> Seq(Decided \cup {"denied", "blocked"})]
    <3>1. call[c].refusal \in {"denied", "blocked"}
      BY <1>0, <1>10 DEF AuditRefusal, At, CallInputs, InputsOf, CallType
    <3>2. [audit EXCEPT ![c] = Append(@, call[c].refusal)]
            \in [Calls -> Seq(Decided \cup {"denied", "blocked"})]
      BY <3>1, AuditType DEF TypeOK
    <3> QED
      BY <1>10, <3>2 DEF AuditRefusal, TypeOK
  <2> QED
    BY <1>10, <2>1, <2>2 DEF AuditRefusal, TypeOK, authVars, auditVars
<1> QED
  BY <1>1, <1>2, <1>3, <1>4, <1>5, <1>6, <1>7, <1>8, <1>9, <1>10 DEF Advance

LEMMA FailureType ==
  ASSUME TypeOK, NEW c \in Calls, NoteExpiryFails(c) \/ Throw(c) PROVE TypeOK'
<1>1. call' \in [Calls -> CallType]
  BY GotoType, EndType, AfterFactsPC DEF NoteExpiryFails, Throw, TypeOK, PC, Ended
<1>2. CASE NoteExpiryFails(c)
  <2> DEFINE r == call[c].review
             h == IF expiryLock[r] = c THEN Null ELSE expiryLock[r]
  <2>1. expiryLock' = [expiryLock EXCEPT ![r] = h]
    BY <1>2 DEF NoteExpiryFails
  <2>2. r \in Reviews => h \in Calls \cup {Null}
    BY DEF TypeOK
  <2>3. expiryLock' \in [Reviews -> Calls \cup {Null}]
    <3> HIDE DEF r, h
    <3> QED
      BY <2>1, <2>2 DEF TypeOK
  <2> QED
    BY <1>1, <1>2, <2>3 DEF NoteExpiryFails, TypeOK, authVars
<1>3. CASE Throw(c)
  <2>1. expiryLock' \in [Reviews -> Calls \cup {Null}]
    BY <1>3 DEF Throw, ReleaseLocks, TypeOK
  <2> QED
    BY <1>1, <1>3, <2>1 DEF Throw, TypeOK, authVars
<1> QED
  BY <1>2, <1>3

LEMMA NextType == TypeOK /\ CallInputs /\ [Next]_vars => TypeOK'
<1> SUFFICES ASSUME TypeOK, CallInputs, [Next]_vars PROVE TypeOK'
  OBVIOUS
<1>1. CASE Serving
  <2>1. PICK c \in Calls : \/ Submit(c)
                          \/ (\E r \in Reviews : BeginStatus(c, r))
                          \/ Advance(c)
                          \/ NoteExpiryFails(c)
                          \/ Throw(c)
    BY <1>1 DEF Serving
  <2> QED
    BY <2>1, BeginType, StatusType, AdvanceType, FailureType DEF Submit
<1>2. CASE UNCHANGED vars
  BY <1>2 DEF vars, TypeOK, authVars, auditVars
<1> QED
  BY <1>1, <1>2, EnvironmentType, ReviewingType, AdministrationType DEF Next

-----------------------------------------------------------------------------
(* How a step changes the calls.                                            *)

SameInputs(x, y) ==
    /\ y.user = x.user /\ y.code = x.code /\ y.outcome = x.outcome
    /\ y.review = x.review /\ y.dcode = x.dcode
    /\ y.begun = x.begun /\ y.counted = x.counted /\ y.proven = x.proven

Gone(x) == x.pc \in {"refused", "thrown"} /\ x = [IdleCall EXCEPT !.pc = x.pc]

LEMMA GotoShape ==
  ASSUME call \in [Calls -> CallType], NEW c \in Calls, NEW pc, Goto(c, pc)
  PROVE  /\ call'[c] = [call[c] EXCEPT !.pc = pc]
         /\ SameInputs(call[c], call'[c])
         /\ call'[c].pc = pc /\ call'[c].facts = call[c].facts
         /\ call'[c].now = call[c].now
         /\ \A b \in Calls \ {c} : call'[b] = call[b]
  BY DEF Goto, SameInputs, CallType

LEMMA EndShape ==
  ASSUME call \in [Calls -> CallType], NEW c \in Calls, NEW pc \in {"refused", "thrown"},
         End(c, pc)
  PROVE  /\ Gone(call'[c])
         /\ \A b \in Calls \ {c} : call'[b] = call[b]
  BY DEF End, Gone, IdleCall

LEMMA RefuseShape ==
  ASSUME call \in [Calls -> CallType], NEW c \in Calls, NEW why, Refuse(c, why)
  PROVE  /\ SameInputs(call[c], call'[c])
         /\ call'[c].pc = "auditRefusal" /\ call'[c].facts = call[c].facts
         /\ call'[c].refusal = why
         /\ \A b \in Calls \ {c} : call'[b] = call[b]
  BY DEF Refuse, SameInputs, CallType

\* Where a step leaves the program counter of its call.
LEMMA PcShape ==
  ASSUME call \in [Calls -> CallType], NEW c \in Calls
  PROVE  /\ \A pc : Goto(c, pc) => call'[c].pc = pc
         /\ \A why : Refuse(c, why) => call'[c].pc = "auditRefusal"
         /\ \A pc \in {"refused", "thrown"} : End(c, pc) => call'[c].pc = pc
<1>1. ASSUME NEW pc, Goto(c, pc) PROVE call'[c].pc = pc
  BY <1>1, GotoShape
<1>2. ASSUME NEW why, Refuse(c, why) PROVE call'[c].pc = "auditRefusal"
  BY <1>2, RefuseShape
<1>3. ASSUME NEW pc \in {"refused", "thrown"}, End(c, pc) PROVE call'[c].pc = pc
  BY <1>3 DEF End, IdleCall
<1> QED
  BY <1>1, <1>2, <1>3

LEMMA AfterFactsShape ==
  ASSUME call \in [Calls -> CallType], NEW c \in Calls, Goto(c, AfterFacts(c))
  PROVE  /\ call'[c].pc = IF call[c].outcome = Null THEN "returned" ELSE "getRole"
         /\ SameInputs(call[c], call'[c])
         /\ \A b \in Calls \ {c} : call'[b] = call[b]
<1>1. PICK pc : pc = AfterFacts(c)
  OBVIOUS
<1>2. Goto(c, pc)
  BY <1>1
<1> QED
  BY <1>1, <1>2, GotoShape DEF AfterFacts

\* A step of a call leaves every other call alone and its own inputs too.
LEMMA StepShape ==
  ASSUME call \in [Calls -> CallType], NEW c \in Calls, Advance(c) \/ NoteExpiryFails(c)
  PROVE  /\ \A b \in Calls \ {c} : call'[b] = call[b]
         /\ Gone(call'[c]) \/ SameInputs(call[c], call'[c])
<1>1. CASE FindActiveForUser(c) \/ AssertOwnerAuthorityStillProven(c) \/ AssessGate(c)
  BY <1>1, GotoShape, RefuseShape
     DEF FindActiveForUser, AssertOwnerAuthorityStillProven, AssessGate
<1>2. CASE NoteExpiry(c) \/ RecordExpiry(c) \/ NoteExpiryFails(c) \/ Decide(c)
  BY <1>2, GotoShape DEF NoteExpiry, RecordExpiry, NoteExpiryFails, Decide
<1>3. CASE CreateDecision(c) \/ AuditRefusal(c)
  BY <1>3, GotoShape, EndShape DEF CreateDecision, AuditRefusal
<1>4. CASE GetLatestVersionWithClock(c)
  BY <1>4 DEF GetLatestVersionWithClock, SameInputs, CallType
<1>5. CASE GetRoleAndEvaluate(c)
  BY <1>5 DEF GetRoleAndEvaluate, SameInputs, CallType
<1> QED
  BY <1>1, <1>2, <1>3, <1>4, <1>5 DEF Advance

-----------------------------------------------------------------------------
(* The inductive invariant: what a call has established by the time its     *)
(* program counter has reached a point.  The transactions of a call are     *)
(* separate, so each part has to survive whatever runs in between.          *)

PastFindActive == {"assertOwner", "getLatestVersion", "noteExpiry", "expiryInsert",
                   "getRole", "gate", "createDecision", "decide", "returned"}
PastRole       == {"gate", "createDecision", "decide", "returned"}
PastGate       == {"createDecision", "decide", "returned"}
Approves(x)    == x.outcome \in {"approve", "approve_with_modifications"}

\* The facts a call has read are still those of the review's version.
FactsRead(x, rev) ==
    x.facts # NoFacts => x.review \in Reviews /\ rev[x.review].facts = x.facts

\* The assignment a call has found is still its user's; it was not revoked
\* when the call began, and an onboarding grant has met a proven owner.
AuthorityRead(x, asg) ==
    x.outcome # Null /\ x.pc \in PastFindActive =>
        /\ asg[x.code].status # "none" /\ asg[x.code].user = x.user
        /\ x.code \notin x.begun.revoked
        /\ x.pc # "assertOwner" /\ x.code = OwnerCode
             /\ asg[x.code].source = "onboarding" => x.proven

RevocationsStand(x, asg) == \A k \in x.begun.revoked : asg[k].status = "revoked"

OwnerSeen(x, own) == x.user \in own => x.proven

\* A call that approves holds a role of the tier its facts ask for, and has
\* facts once it is past the gate.
RoleRead(x, asg) ==
    Approves(x) /\ x.pc \in PastRole =>
        ApproverTier(asg[x.code].role) >= RequiredTier(RiskOf(x.facts))

FactsChecked(x) == Approves(x) /\ x.pc \in PastGate => x.facts # NoFacts

Established(x, rev, asg, own) ==
    /\ InputsOf(x)
    /\ FactsRead(x, rev)
    /\ AuthorityRead(x, asg)
    /\ RevocationsStand(x, asg)
    /\ OwnerSeen(x, own)
    /\ RoleRead(x, asg)
    /\ FactsChecked(x)

CallsEstablished == \A c \in Calls : Established(call[c], review, assignment, owners)

\* A decision row belongs to the call that wrote it, and is decided only as that
\* call's result.
DecisionsTied ==
    /\ \A d \in DecisionCodes :
         /\ decision[d].status # "none" => decision[d].call \in Calls
         /\ decision[d].status \in Decided =>
              /\ CallOf(d).pc = "returned"
              /\ CallOf(d).outcome # Null
              /\ decision[d].status = DecidedStatus(CallOf(d).outcome)
    /\ \A c \in Calls : call[c].pc = "decide" =>
         /\ decision[call[c].dcode].status # "none"
         /\ decision[call[c].dcode].call = c

IInv == TypeOK /\ CallsEstablished /\ DecisionsTied

-----------------------------------------------------------------------------
(* What the other actors may do between two steps of a call.                *)

AuthorityKept(asg, asg2) ==
    \A k \in AssignmentCodes : asg[k].status # "none" =>
      /\ asg2[k] = [asg[k] EXCEPT !.status = asg2[k].status]
      /\ asg2[k].status \in {asg[k].status, "revoked"}

FactsKept(rev, rev2) ==
    \A r \in Reviews : rev[r].facts # NoFacts => rev2[r].facts = rev[r].facts

\* A service call changes neither an assignment nor a review.
LEMMA ServingLeaves == Serving => UNCHANGED <<assignment, review>>
<1> SUFFICES ASSUME NEW c \in Calls,
                    \/ Submit(c)
                    \/ \E r \in Reviews : BeginStatus(c, r)
                    \/ Advance(c) \/ NoteExpiryFails(c) \/ Throw(c)
             PROVE  UNCHANGED <<assignment, review>>
  BY DEF Serving
<1>1. CASE Submit(c) \/ \E r \in Reviews : BeginStatus(c, r)
  BY <1>1 DEF Submit, BeginSubmit, BeginStatus, ReadOnly, authVars
<1>2. CASE NoteExpiryFails(c) \/ Throw(c)
  BY <1>2 DEF NoteExpiryFails, Throw, authVars
<1>3. CASE Advance(c)
  <2>1. CASE FindActiveForUser(c) \/ AssertOwnerAuthorityStillProven(c)
               \/ GetLatestVersionWithClock(c) \/ GetRoleAndEvaluate(c) \/ AssessGate(c)
    BY <2>1 DEF FindActiveForUser, AssertOwnerAuthorityStillProven,
       GetLatestVersionWithClock, GetRoleAndEvaluate, AssessGate, ReadOnly, authVars
  <2>2. CASE NoteExpiry(c) \/ RecordExpiry(c) \/ AuditRefusal(c)
    BY <2>2 DEF NoteExpiry, RecordExpiry, AuditRefusal, authVars
  <2>3. CASE CreateDecision(c) \/ Decide(c)
    BY <2>3 DEF CreateDecision, Decide, authVars
  <2> QED
    BY <1>3, <2>1, <2>2, <2>3 DEF Advance
<1> QED
  BY <1>1, <1>2, <1>3

LEMMA NextAuthority == TypeOK /\ [Next]_vars => AuthorityKept(assignment, assignment')
<1> SUFFICES ASSUME TypeOK, [Next]_vars PROVE AuthorityKept(assignment, assignment')
  OBVIOUS
<1>0. ASSUME UNCHANGED assignment PROVE AuthorityKept(assignment, assignment')
  BY <1>0 DEF AuthorityKept, TypeOK, AssignmentType
<1>1. ASSUME NEW k \in AssignmentCodes, NEW u, NEW role, NEW source, CodeIsFree(k),
             GrantActiveAssignment(k, u, role, source)
      PROVE  AuthorityKept(assignment, assignment')
  BY <1>1 DEF AuthorityKept, TypeOK, AssignmentType, CodeIsFree, GrantActiveAssignment
<1>2. CASE Administration
  <2>1. ASSUME NEW k \in AssignmentCodes, NEW u \in Users, NEW role \in GrantRoles,
               GrantApproverAuthority(k, u, role)
        PROVE  AuthorityKept(assignment, assignment')
    BY <1>1, <2>1 DEF GrantApproverAuthority
  <2>2. ASSUME NEW k \in AssignmentCodes, RevokeApproverAuthority(k)
        PROVE  AuthorityKept(assignment, assignment')
    BY <2>2 DEF RevokeApproverAuthority, AuthorityKept, TypeOK, AssignmentType
  <2>3. ASSUME NEW u \in Users, BootstrapRead(u)
        PROVE  AuthorityKept(assignment, assignment')
    BY <1>0, <2>3 DEF BootstrapRead
  <2>4. ASSUME NEW u \in Users, BootstrapGrant(u)
        PROVE  AuthorityKept(assignment, assignment')
    BY <1>0, <1>1, <2>4, ConstantsAssumption DEF BootstrapGrant
  <2> QED
    BY <1>2, <2>1, <2>2, <2>3, <2>4 DEF Administration
<1>3. CASE Environment \/ Reviewing \/ Serving \/ UNCHANGED vars
  <2>1. CASE Environment
    BY <1>0, <2>1 DEF Environment, Tick, ChangeTwin, ChangeOwnership, authVars
  <2>2. CASE Reviewing
    BY <1>0, <2>2 DEF Reviewing, CreateReviewPackage, CreateReviewVersion, StartReview,
       authVars
  <2>3. CASE Serving
    BY <1>0, <2>3, ServingLeaves
  <2> QED
    BY <1>0, <1>3, <2>1, <2>2, <2>3 DEF vars
<1> QED
  BY <1>2, <1>3 DEF Next

LEMMA NextFacts == TypeOK /\ [Next]_vars => FactsKept(review, review')
<1> SUFFICES ASSUME TypeOK, [Next]_vars PROVE FactsKept(review, review')
  OBVIOUS
<1>1. CASE Reviewing
  <2>1. PICK r \in Reviews :
          CreateReviewPackage(r) \/ CreateReviewVersion(r) \/ StartReview(r)
    BY <1>1 DEF Reviewing
  <2>2. ASSUME NEW s \in Reviews, review[s].facts # NoFacts
        PROVE  review'[s].facts = review[s].facts
    <3>1. review[r] \in ReviewType /\ review[s] \in ReviewType
      BY DEF TypeOK
    <3>2. ASSUME NEW st, review' = [review EXCEPT ![r].status = st]
          PROVE  review'[s].facts = review[s].facts
      BY <3>1, <3>2 DEF TypeOK, ReviewType
    <3>3. CASE CreateReviewVersion(r)
      <4>1. r # s
        BY <2>2, <3>3 DEF CreateReviewVersion
      <4> QED
        BY <3>3, <4>1 DEF CreateReviewVersion, TypeOK
    <3> QED
      BY <2>1, <3>2, <3>3 DEF CreateReviewPackage, StartReview
  <2> QED
    BY <2>2 DEF FactsKept
<1>2. CASE UNCHANGED review
  BY <1>2 DEF FactsKept
<1>3. CASE Environment \/ Administration \/ Serving \/ UNCHANGED vars
  <2>1. CASE Environment
    BY <1>2, <2>1 DEF Environment, Tick, ChangeTwin, ChangeOwnership
  <2>2. CASE Administration
    BY <1>2, <2>2 DEF Administration, GrantApproverAuthority, RevokeApproverAuthority,
       BootstrapRead, BootstrapGrant
  <2>3. CASE Serving
    BY <1>2, <2>3, ServingLeaves
  <2> QED
    BY <1>2, <1>3, <2>1, <2>2, <2>3 DEF vars
<1> QED
  BY <1>1, <1>3 DEF Next

-----------------------------------------------------------------------------
(* A record that stands still stays established while the others move.      *)

LEMMA TierKept ==
  ASSUME NEW asg, NEW asg2, AuthorityKept(asg, asg2), NEW k \in AssignmentCodes,
         asg \in [AssignmentCodes -> AssignmentType],
         asg[k].status # "none"
  PROVE  /\ asg2[k].user = asg[k].user /\ asg2[k].role = asg[k].role
         /\ asg2[k].source = asg[k].source /\ asg2[k].status # "none"
         /\ asg[k].status = "revoked" => asg2[k].status = "revoked"
<1>1. asg2[k] = [asg[k] EXCEPT !.status = asg2[k].status]
  BY DEF AuthorityKept
<1>2. asg2[k].status \in {asg[k].status, "revoked"}
  BY DEF AuthorityKept
<1>3. asg[k] \in AssignmentType
  OBVIOUS
<1>4. /\ asg2[k].user = asg[k].user
      /\ asg2[k].role = asg[k].role
      /\ asg2[k].source = asg[k].source
  <2> DEFINE st == asg2[k].status
  <2>1. asg2[k] = [asg[k] EXCEPT !.status = st]
    BY <1>1
  <2> HIDE DEF st
  <2> QED
    BY <1>3, <2>1 DEF AssignmentType
<1> QED
  BY <1>2, <1>4

LEMMA StandsStill ==
  ASSUME NEW x \in CallType, NEW rev, NEW rev2, NEW asg, NEW asg2, NEW own,
         asg \in [AssignmentCodes -> AssignmentType],
         FactsKept(rev, rev2), AuthorityKept(asg, asg2),
         Established(x, rev, asg, own)
  PROVE  Established(x, rev2, asg2, own)
<1>1. FactsRead(x, rev2)
  BY DEF Established, FactsRead, FactsKept
<1>2. AuthorityRead(x, asg2)
  BY TierKept DEF Established, AuthorityRead, InputsOf
<1>3. RevocationsStand(x, asg2)
  BY TierKept DEF Established, RevocationsStand, CallType
<1>4. RoleRead(x, asg2)
  <2> SUFFICES ASSUME Approves(x), x.pc \in PastRole PROVE asg2[x.code].role = asg[x.code].role
    BY DEF RoleRead, Established
  <2>1. x.outcome # Null /\ x.pc \in PastFindActive
    BY NullAssumption DEF Approves, Outcomes, PastRole, PastFindActive
  <2> QED
    BY <2>1, TierKept DEF Established, AuthorityRead, InputsOf
<1> QED
  BY <1>1, <1>2, <1>3, <1>4 DEF Established

LEMMA OwnershipChanges ==
  ASSUME NEW x \in CallType, NEW rev, NEW asg, NEW own, NEW own2,
         Established(x, rev, asg, own), NEW y,
         y = [x EXCEPT !.proven = @ \/ x.user \in own2]
  PROVE  Established(y, rev, asg, own2)
  BY DEF Established, InputsOf, FactsRead, AuthorityRead, RevocationsStand, OwnerSeen,
         RoleRead, FactsChecked, Approves, CallType

LEMMA TwinsChange ==
  ASSUME NEW x \in CallType, NEW rev, NEW asg, NEW own,
         Established(x, rev, asg, own), NEW s, NEW y, y = [x EXCEPT !.counted = s]
  PROVE  Established(y, rev, asg, own)
  BY DEF Established, InputsOf, FactsRead, AuthorityRead, RevocationsStand, OwnerSeen,
         RoleRead, FactsChecked, Approves, CallType

LEMMA IdleEstablished ==
  ASSUME NEW x, x.pc \in {"idle", "refused", "thrown"}, x = [IdleCall EXCEPT !.pc = x.pc],
         NEW rev, NEW asg, NEW own \in SUBSET Users
  PROVE  Established(x, rev, asg, own)
<1>1. /\ x.outcome = Null /\ x.facts = NoFacts /\ x.user = Null
      /\ x.begun.revoked = {} /\ x.proven = FALSE
  BY DEF IdleCall
<1>2. ~Approves(x) /\ x.user \notin own
  BY <1>1, NullAssumption DEF Approves, Outcomes
<1> QED
  BY <1>1, <1>2 DEF Established, InputsOf, FactsRead, AuthorityRead, RevocationsStand,
     OwnerSeen, RoleRead, FactsChecked, InFlight

\* A call that is refused keeps what it has established.
LEMMA RefusedEstablished ==
  ASSUME NEW x, NEW y, NEW rev, NEW asg, NEW own,
         Established(x, rev, asg, own), x.pc \in InFlight, SameInputs(x, y),
         y.facts = x.facts, y.pc = "auditRefusal", y.refusal \in Refusals
  PROVE  Established(y, rev, asg, own)
<1>1. y.refusal # Null
  BY NullAssumption
<1> QED
  BY <1>1 DEF Established, InputsOf, FactsRead, AuthorityRead, RevocationsStand,
     OwnerSeen, RoleRead, FactsChecked, SameInputs, PastFindActive, PastRole, PastGate,
     InFlight

\* So does one that goes on to a point before the role is read.
LEMMA OnwardEstablished ==
  ASSUME NEW x, NEW y, NEW rev, NEW asg, NEW own,
         Established(x, rev, asg, own), SameInputs(x, y), FactsRead(y, rev),
         x.pc \in {"getLatestVersion", "noteExpiry", "expiryInsert"},
         y.pc \in {"noteExpiry", "expiryInsert"}
           \/ y.pc = IF x.outcome = Null THEN "returned" ELSE "getRole"
  PROVE  Established(y, rev, asg, own)
<1>1. InputsOf(y) /\ AuthorityRead(y, asg)
  BY DEF Established, InputsOf, AuthorityRead, SameInputs, PastFindActive, InFlight
<1>2. RevocationsStand(y, asg) /\ OwnerSeen(y, own)
  BY DEF Established, RevocationsStand, OwnerSeen, SameInputs
<1>3. Approves(y) => y.pc \notin PastRole \cup PastGate
  BY NullAssumption DEF Approves, Outcomes, SameInputs, PastRole, PastGate
<1> QED
  BY <1>1, <1>2, <1>3 DEF Established, RoleRead, FactsChecked

LEMMA StepEstablished ==
  ASSUME TypeOK, CallsEstablished, NEW c \in Calls, Advance(c) \/ NoteExpiryFails(c)
  PROVE  Established(call'[c], review, assignment, owners)
<1> DEFINE x == call[c]
           y == call'[c]
           E(z) == Established(z, review, assignment, owners)
<1>0. call \in [Calls -> CallType] /\ x \in CallType /\ E(x)
  BY DEF TypeOK, CallsEstablished
<1>1. CASE FindActiveForUser(c)
  <2>1. x.pc = "findActiveForUser"
    BY <1>1 DEF FindActiveForUser, At
  <2>2. CASE HoldsActive(x.code, x.user)
    <3>1. y.pc = "assertOwner" /\ SameInputs(x, y) /\ y.facts = x.facts
      BY <1>0, <1>1, <2>2, GotoShape DEF FindActiveForUser
    <3> QED
      BY <1>0, <2>1, <2>2, <3>1
         DEF Established, InputsOf, FactsRead, AuthorityRead, RevocationsStand,
             OwnerSeen, RoleRead, FactsChecked, SameInputs, HoldsActive,
             PastFindActive, PastRole, PastGate, InFlight
  <2>3. CASE ~HoldsActive(x.code, x.user)
    <3>1. /\ y.pc = "auditRefusal" /\ y.refusal = "denied" /\ SameInputs(x, y)
          /\ y.facts = x.facts
      BY <1>0, <1>1, <2>3, RefuseShape DEF FindActiveForUser
    <3> QED
      BY <1>0, <2>1, <3>1, RefusedEstablished DEF Refusals, InFlight
  <2> QED
    BY <2>2, <2>3
<1>2. CASE AssertOwnerAuthorityStillProven(c)
  <2>1. x.pc = "assertOwner"
    BY <1>2 DEF AssertOwnerAuthorityStillProven, At
  <2>2. CASE OwnerStillProven(x.code, x.user)
    <3>1. y.pc = "getLatestVersion" /\ SameInputs(x, y) /\ y.facts = x.facts
      BY <1>0, <1>2, <2>2, GotoShape DEF AssertOwnerAuthorityStillProven
    <3>2. x.code = OwnerCode /\ assignment[x.code].source = "onboarding" => x.proven
      BY <1>0, <2>2 DEF OwnerStillProven, Established, OwnerSeen
    <3> QED
      BY <1>0, <2>1, <3>1, <3>2
         DEF Established, InputsOf, FactsRead, AuthorityRead, RevocationsStand,
             OwnerSeen, RoleRead, FactsChecked, SameInputs, PastFindActive, PastRole,
             PastGate, InFlight
  <2>3. CASE ~OwnerStillProven(x.code, x.user)
    <3>1. /\ y.pc = "auditRefusal" /\ y.refusal = "denied" /\ SameInputs(x, y)
          /\ y.facts = x.facts
      BY <1>0, <1>2, <2>3, RefuseShape DEF AssertOwnerAuthorityStillProven
    <3> QED
      BY <1>0, <2>1, <3>1, RefusedEstablished DEF Refusals, InFlight
  <2> QED
    BY <2>2, <2>3
<1>3. CASE GetLatestVersionWithClock(c)
  <2>1. x.pc = "getLatestVersion"
    BY <1>3 DEF GetLatestVersionWithClock, At
  <2>2. /\ SameInputs(x, y) /\ y.facts = review[x.review].facts
        /\ y.pc \in {"noteExpiry", AfterFacts(c)}
    BY <1>0, <1>3 DEF GetLatestVersionWithClock, SameInputs, CallType
  <2>3. FactsRead(y, review)
    BY <1>0, <2>1, <2>2 DEF FactsRead, Established, InputsOf, SameInputs, InFlight
  <2> QED
    BY <1>0, <2>1, <2>2, <2>3, OnwardEstablished DEF AfterFacts
<1>4. CASE NoteExpiry(c) \/ RecordExpiry(c) \/ NoteExpiryFails(c)
  <2>1. x.pc \in {"noteExpiry", "expiryInsert"}
    BY <1>4 DEF NoteExpiry, RecordExpiry, NoteExpiryFails, At
  <2>2. /\ SameInputs(x, y) /\ y.facts = x.facts
        /\ y.pc \in {"expiryInsert", AfterFacts(c)}
    BY <1>0, <1>4, GotoShape DEF NoteExpiry, RecordExpiry, NoteExpiryFails
  <2>3. FactsRead(y, review)
    BY <1>0, <2>2 DEF FactsRead, Established, SameInputs
  <2> QED
    BY <1>0, <2>1, <2>2, <2>3, OnwardEstablished DEF AfterFacts
<1>5. CASE GetRoleAndEvaluate(c)
  <2> DEFINE role == assignment[x.code].role
  <2>1. x.pc = "getRole"
    BY <1>5 DEF GetRoleAndEvaluate, At
  <2>2. SameInputs(x, y) /\ y.facts = x.facts
    BY <1>0, <1>5 DEF GetRoleAndEvaluate, SameInputs, CallType
  <2>3. CASE PolicyAllows(x.facts, role, x.outcome)
    <3>1. y.pc = IF x.outcome = "reject" THEN "createDecision" ELSE "gate"
      BY <1>0, <1>5, <2>3 DEF GetRoleAndEvaluate, CallType
    <3>2. Approves(x) => /\ y.pc = "gate"
                         /\ ApproverTier(role) >= RequiredTier(RiskOf(x.facts))
      BY <2>3, <3>1 DEF Approves, PolicyAllows
    <3> QED
      BY <1>0, <2>1, <2>2, <3>1, <3>2
         DEF Established, InputsOf, FactsRead, AuthorityRead, RevocationsStand,
             OwnerSeen, RoleRead, FactsChecked, SameInputs, Approves, PastFindActive,
             PastRole, PastGate, InFlight
  <2>4. CASE ~PolicyAllows(x.facts, role, x.outcome)
    <3>1. y.pc = "auditRefusal" /\ y.refusal = "denied"
      BY <1>0, <1>5, <2>4 DEF GetRoleAndEvaluate, CallType
    <3> QED
      BY <1>0, <2>1, <2>2, <3>1, RefusedEstablished DEF Refusals, InFlight
  <2> QED
    BY <2>3, <2>4
<1>6. CASE AssessGate(c)
  <2> DEFINE codes == GateCodes(x.facts, x.now, Counted)
  <2>1. x.pc = "gate"
    BY <1>6 DEF AssessGate, At
  <2>2. CASE codes = {}
    <3>1. y.pc = "createDecision" /\ SameInputs(x, y) /\ y.facts = x.facts
      BY <1>0, <1>6, <2>2, GotoShape DEF AssessGate
    <3>2. x.facts # NoFacts
      BY <2>2 DEF GateCodes
    <3> QED
      BY <1>0, <2>1, <3>1, <3>2
         DEF Established, InputsOf, FactsRead, AuthorityRead, RevocationsStand,
             OwnerSeen, RoleRead, FactsChecked, SameInputs, Approves, PastFindActive,
             PastRole, PastGate, InFlight
  <2>3. CASE codes # {}
    <3>1. /\ y.pc = "auditRefusal" /\ y.refusal = "blocked" /\ SameInputs(x, y)
          /\ y.facts = x.facts
      BY <1>0, <1>6, <2>3, RefuseShape DEF AssessGate
    <3> QED
      BY <1>0, <2>1, <3>1, RefusedEstablished DEF Refusals, InFlight
  <2> QED
    BY <2>2, <2>3
<1>7. ASSUME Gone(y) PROVE E(y)
  <2>1. y.pc \in {"idle", "refused", "thrown"} /\ y = [IdleCall EXCEPT !.pc = y.pc]
    BY <1>7 DEF Gone
  <2>2. owners \in SUBSET Users
    BY DEF TypeOK
  <2> HIDE DEF y
  <2> QED
    BY <2>1, <2>2, IdleEstablished
<1>8. CASE CreateDecision(c)
  <2>1. x.pc = "createDecision"
    BY <1>8 DEF CreateDecision, At
  <2>2. CASE DecisionCodeFree(x.dcode)
    <3>1. SameInputs(x, y) /\ y.facts = x.facts /\ y.pc = "decide"
      BY <1>0, <1>8, <2>2, GotoShape DEF CreateDecision
    <3> QED
      BY <1>0, <2>1, <3>1
         DEF Established, InputsOf, FactsRead, AuthorityRead, RevocationsStand,
             OwnerSeen, RoleRead, FactsChecked, SameInputs, Approves, PastFindActive,
             PastRole, PastGate, InFlight
  <2>3. CASE ~DecisionCodeFree(x.dcode)
    <3>1. Gone(y)
      BY <1>0, <1>8, <2>3, EndShape DEF CreateDecision
    <3> QED
      BY <1>7, <3>1
  <2> QED
    BY <2>2, <2>3
<1>9. CASE Decide(c)
  <2>1. x.pc = "decide"
    BY <1>9 DEF Decide, At
  <2>2. SameInputs(x, y) /\ y.facts = x.facts /\ y.pc = "returned"
    BY <1>0, <1>9, GotoShape DEF Decide
  <2> QED
    BY <1>0, <2>1, <2>2
       DEF Established, InputsOf, FactsRead, AuthorityRead, RevocationsStand,
           OwnerSeen, RoleRead, FactsChecked, SameInputs, Approves, PastFindActive,
           PastRole, PastGate, InFlight
<1>10. CASE AuditRefusal(c)
  <2>1. Gone(y)
    BY <1>0, <1>10, EndShape DEF AuditRefusal
  <2> QED
    BY <1>7, <2>1
<1> QED
  BY <1>1, <1>2, <1>3, <1>4, <1>5, <1>6, <1>8, <1>9, <1>10 DEF Advance

LEMMA ServingEstablished ==
  ASSUME TypeOK, CallsEstablished, Serving PROVE CallsEstablished'
<1>0. call \in [Calls -> CallType] /\ \A b \in Calls : call[b] \in CallType
  BY DEF TypeOK
<1>1. PICK c \in Calls : \/ Submit(c)
                         \/ (\E r \in Reviews : BeginStatus(c, r))
                         \/ Advance(c)
                         \/ NoteExpiryFails(c)
                         \/ Throw(c)
  BY DEF Serving
<1>2. /\ \A b \in Calls \ {c} : call'[b] = call[b]
      /\ review' = review /\ assignment' = assignment /\ owners' = owners
  <2>1. CASE Submit(c) \/ (\E r \in Reviews : BeginStatus(c, r))
    BY <1>0, <2>1 DEF Submit, BeginSubmit, BeginStatus, ReadOnly, authVars
  <2>2. CASE Throw(c)
    BY <1>0, <2>2 DEF Throw, End, authVars
  <2>3. CASE Advance(c) \/ NoteExpiryFails(c)
    <3>1. review' = review /\ assignment' = assignment /\ owners' = owners
      BY <2>3 DEF Advance, FindActiveForUser, AssertOwnerAuthorityStillProven,
         GetLatestVersionWithClock, NoteExpiry, RecordExpiry, NoteExpiryFails,
         GetRoleAndEvaluate, AssessGate, CreateDecision, Decide, AuditRefusal,
         ReadOnly, authVars
    <3> QED
      BY <1>0, <2>3, <3>1, StepShape
  <2> QED
    BY <1>1, <2>1, <2>2, <2>3
<1> DEFINE y == call'[c]
           E(z) == Established(z, review, assignment, owners)
<1>3. E(y)
  <2>1. CASE Submit(c)
    <3>1. PICK u \in Users, k \in AssignmentCodes, o \in RequestedOutcomes,
               r \in Reviews, d \in DecisionCodes : BeginSubmit(c, u, k, o, r, d)
      BY <2>1 DEF Submit
    <3>2. /\ y.pc \in {"findActiveForUser", "auditRefusal"}
          /\ y.user = u /\ y.code = k /\ y.outcome = o /\ y.review = r /\ y.dcode = d
          /\ y.pc = "auditRefusal" => y.refusal = "denied"
          /\ y.facts = NoFacts /\ y.begun.revoked = RevokedCodes
          /\ y.proven = (u \in owners)
      BY <1>0, <3>1 DEF BeginSubmit, IdleCall
    <3>3. o # Null /\ "denied" # Null
      BY ConstantsAssumption, NullAssumption DEF Refusals
    <3> QED
      BY <3>2, <3>3
         DEF Established, InputsOf, FactsRead, AuthorityRead, RevocationsStand,
             OwnerSeen, RoleRead, FactsChecked, RevokedCodes, PastFindActive, PastRole,
             PastGate, InFlight
  <2>2. ASSUME NEW r \in Reviews, BeginStatus(c, r) PROVE E(y)
    <3>1. /\ y.pc = "getLatestVersion" /\ y.review = r /\ y.outcome = Null
          /\ y.user = Null /\ y.facts = NoFacts /\ y.begun.revoked = {}
      BY <1>0, <2>2 DEF BeginStatus, IdleCall
    <3>2. Null \notin owners /\ ~Approves(y)
      BY <3>1, NullAssumption DEF TypeOK, Approves, Outcomes
    <3> QED
      BY <3>1, <3>2
         DEF Established, InputsOf, FactsRead, AuthorityRead, RevocationsStand,
             OwnerSeen, RoleRead, FactsChecked, PastFindActive, PastRole,
             PastGate, InFlight
  <2>3. CASE Throw(c)
    <3>1. y.pc \in {"idle", "refused", "thrown"} /\ y = [IdleCall EXCEPT !.pc = y.pc]
      BY <1>0, <2>3, EndShape DEF Throw, Gone
    <3>2. owners \in SUBSET Users
      BY DEF TypeOK
    <3> HIDE DEF y
    <3> QED
      BY <3>1, <3>2, IdleEstablished
  <2> QED
    BY <1>1, <2>1, <2>2, <2>3, StepEstablished
<1> QED
  BY <1>2, <1>3 DEF CallsEstablished

LEMMA NextEstablished == TypeOK /\ CallsEstablished /\ [Next]_vars => CallsEstablished'
<1> SUFFICES ASSUME TypeOK, CallsEstablished, [Next]_vars PROVE CallsEstablished'
  OBVIOUS
<1>0. /\ call \in [Calls -> CallType] /\ \A c \in Calls : call[c] \in CallType
      /\ assignment \in [AssignmentCodes -> AssignmentType]
  BY DEF TypeOK
<1>1. FactsKept(review, review') /\ AuthorityKept(assignment, assignment')
  BY NextFacts, NextAuthority
<1>2. \A c \in Calls : Established(call[c], review', assignment', owners)
  BY <1>0, <1>1, StandsStill DEF CallsEstablished
<1>3. CASE UNCHANGED <<call, owners>>
  BY <1>2, <1>3 DEF CallsEstablished
<1>4. ASSUME NEW u \in Users, ChangeOwnership(u) PROVE CallsEstablished'
  <2>1. \A c \in Calls : call'[c] = [call[c] EXCEPT !.proven = @ \/ call[c].user \in owners']
    BY <1>4 DEF ChangeOwnership
  <2> QED
    BY <1>0, <1>2, <2>1, OwnershipChanges DEF CallsEstablished
<1>5. ASSUME NEW t \in Twins, ChangeTwin(t) PROVE CallsEstablished'
  <2>1. owners' = owners /\ \A c \in Calls :
          \E s : call'[c] = [call[c] EXCEPT !.counted = s]
    BY <1>5 DEF ChangeTwin, authVars
  <2> QED
    BY <1>0, <1>2, <2>1, TwinsChange DEF CallsEstablished
<1>6. CASE Tick \/ Reviewing \/ Administration \/ UNCHANGED vars
  BY <1>3, <1>6 DEF Tick, Reviewing, CreateReviewPackage,
     CreateReviewVersion, StartReview, Administration, GrantApproverAuthority,
     RevokeApproverAuthority, BootstrapRead, BootstrapGrant, vars, authVars
<1> QED
  BY <1>4, <1>5, <1>6, ServingEstablished DEF Next, Environment

-----------------------------------------------------------------------------
(* Decision rows and the calls that wrote them.                             *)

\* What DecisionsTied reads of a call.
SameResult(x, y) == y.pc = x.pc /\ y.outcome = x.outcome /\ y.dcode = x.dcode

LEMMA TiedStandsStill ==
  ASSUME TypeOK, DecisionsTied, decision' = decision,
         \A c \in Calls : SameResult(call[c], call'[c])
  PROVE  DecisionsTied'
<1>1. ASSUME NEW d \in DecisionCodes, decision[d].status \in Decided
      PROVE  decision[d].call \in Calls
  BY <1>1 DEF DecisionsTied, Decided, Approving
<1> QED
  BY <1>1 DEF DecisionsTied, SameResult, CallOf

\* A step of c that leaves the decisions alone: c was not yet done, so none of
\* them is decided by c.
LEMMA TiedMoves ==
  ASSUME TypeOK, DecisionsTied, decision' = decision, NEW c \in Calls,
         call[c].pc # "returned", call'[c].pc # "decide",
         \A b \in Calls \ {c} : call'[b] = call[b]
  PROVE  DecisionsTied'
<1>1. ASSUME NEW d \in DecisionCodes, decision[d].status \in Decided
      PROVE  decision[d].call \in Calls \ {c}
  BY <1>1 DEF DecisionsTied, CallOf, Decided, Approving
<1> QED
  BY <1>1 DEF DecisionsTied, CallOf

LEMMA TiedCreate ==
  ASSUME TypeOK, CallsEstablished, DecisionsTied, NEW c \in Calls, CreateDecision(c)
  PROVE  DecisionsTied'
<1> DEFINE d == call[c].dcode
<1>0. call \in [Calls -> CallType] /\ call[c].pc = "createDecision" /\ d \in DecisionCodes
  BY DEF TypeOK, CreateDecision, At, CallsEstablished, Established, InputsOf
<1>1. CASE DecisionCodeFree(d)
  <2>1. /\ call'[c].pc = "decide" /\ call'[c].dcode = d
        /\ \A b \in Calls \ {c} : call'[b] = call[b]
    BY <1>0, <1>1, GotoShape DEF CreateDecision, SameInputs
  <2>2. /\ decision'[d].status = "draft" /\ decision'[d].call = c
        /\ \A e \in DecisionCodes \ {d} : decision'[e] = decision[e]
    BY <1>0, <1>1 DEF CreateDecision, TypeOK
  <2>3. ASSUME NEW e \in DecisionCodes \ {d}, decision[e].status \in Decided
        PROVE  decision[e].call \in Calls \ {c}
    BY <1>0, <2>3 DEF DecisionsTied, CallOf, Decided, Approving
  <2>4. ASSUME NEW b \in Calls \ {c}, call[b].pc = "decide"
        PROVE  /\ call[b].dcode \in DecisionCodes \ {d}
               /\ decision[call[b].dcode].status # "none"
               /\ decision[call[b].dcode].call = b
    BY <1>1, <2>4 DEF DecisionCodeFree, DecisionsTied, CallsEstablished, Established,
                      InputsOf
  <2> QED
    BY <2>1, <2>2, <2>3, <2>4 DEF DecisionsTied, CallOf, Decided, Approving
<1>2. CASE ~DecisionCodeFree(d)
  <2>1. /\ decision' = decision /\ Gone(call'[c])
        /\ \A b \in Calls \ {c} : call'[b] = call[b]
    BY <1>0, <1>2, EndShape DEF CreateDecision
  <2> QED
    BY <1>0, <2>1, TiedMoves DEF Gone
<1> QED
  BY <1>1, <1>2

LEMMA TiedDecide ==
  ASSUME TypeOK, CallsEstablished, DecisionsTied, NEW c \in Calls, Decide(c)
  PROVE  DecisionsTied'
<1> DEFINE d == call[c].dcode
<1>0. /\ call \in [Calls -> CallType] /\ call[c].pc = "decide" /\ d \in DecisionCodes
      /\ call[c].outcome # Null /\ decision[d].call = c
  BY DEF TypeOK, Decide, At, CallsEstablished, Established, InputsOf, DecisionsTied
<1>1. /\ call'[c].pc = "returned" /\ call'[c].outcome = call[c].outcome
      /\ \A b \in Calls \ {c} : call'[b] = call[b]
  BY <1>0, GotoShape DEF Decide, SameInputs
<1>2. /\ decision'[d].status = DecidedStatus(call[c].outcome) /\ decision'[d].call = c
      /\ \A e \in DecisionCodes \ {d} : decision'[e] = decision[e]
  BY <1>0 DEF Decide, TypeOK, DecisionType
<1>3. ASSUME NEW e \in DecisionCodes \ {d}, decision[e].status \in Decided
      PROVE  decision[e].call \in Calls \ {c}
  BY <1>0, <1>3 DEF DecisionsTied, CallOf, Decided, Approving
<1>4. ASSUME NEW b \in Calls \ {c}, call[b].pc = "decide"
      PROVE  /\ call[b].dcode \in DecisionCodes \ {d}
             /\ decision[call[b].dcode].status # "none"
             /\ decision[call[b].dcode].call = b
  BY <1>0, <1>4 DEF DecisionsTied, CallsEstablished, Established, InputsOf
<1> QED
  BY <1>0, <1>1, <1>2, <1>3, <1>4 DEF DecisionsTied, CallOf

LEMMA NextTied == TypeOK /\ CallsEstablished /\ DecisionsTied /\ [Next]_vars => DecisionsTied'
<1> SUFFICES ASSUME TypeOK, CallsEstablished, DecisionsTied, [Next]_vars
             PROVE  DecisionsTied'
  OBVIOUS
<1>0. call \in [Calls -> CallType] /\ \A b \in Calls : call[b] \in CallType
  BY DEF TypeOK
<1>1. CASE Environment \/ Reviewing \/ Administration \/ UNCHANGED vars
  <2>1. decision' = decision /\ \A c \in Calls : SameResult(call[c], call'[c])
    BY <1>0, <1>1 DEF Environment, Tick, ChangeTwin, ChangeOwnership, Reviewing,
       CreateReviewPackage, CreateReviewVersion, StartReview, Administration,
       GrantApproverAuthority, RevokeApproverAuthority, BootstrapRead, BootstrapGrant,
       vars, SameResult, CallType
  <2> QED
    BY <2>1, TiedStandsStill
<1>2. ASSUME NEW c \in Calls, Submit(c) \/ (\E r \in Reviews : BeginStatus(c, r))
      PROVE  DecisionsTied'
  <2>1. /\ decision' = decision /\ call[c].pc = "idle" /\ call'[c].pc # "decide"
        /\ \A b \in Calls \ {c} : call'[b] = call[b]
    <3>1. CASE Submit(c)
      BY <1>0, <3>1 DEF Submit, BeginSubmit, ReadOnly, At, IdleCall
    <3>2. CASE \E r \in Reviews : BeginStatus(c, r)
      BY <1>0, <3>2 DEF BeginStatus, ReadOnly, At, IdleCall
    <3> QED
      BY <1>2, <3>1, <3>2
  <2> QED
    BY <2>1, TiedMoves
<1>3. ASSUME NEW c \in Calls, Throw(c) PROVE DecisionsTied'
  <2>1. /\ decision' = decision /\ call[c].pc # "returned" /\ call'[c].pc # "decide"
        /\ \A b \in Calls \ {c} : call'[b] = call[b]
    BY <1>0, <1>3, EndShape DEF Throw, Gone, InFlight
  <2> QED
    BY <2>1, TiedMoves
<1>4. ASSUME NEW c \in Calls, Advance(c) \/ NoteExpiryFails(c), ~CreateDecision(c), ~Decide(c)
      PROVE  DecisionsTied'
  <2>1. decision' = decision /\ call[c].pc # "returned"
    BY <1>4 DEF Advance, FindActiveForUser, AssertOwnerAuthorityStillProven,
       GetLatestVersionWithClock, NoteExpiry, RecordExpiry, NoteExpiryFails,
       GetRoleAndEvaluate, AssessGate, AuditRefusal, ReadOnly, At
  <2>2. call'[c].pc # "decide"
    <3>1. ASSUME NEW pc, pc # "decide", Goto(c, pc) PROVE call'[c].pc # "decide"
      BY <1>0, <3>1, GotoShape
    <3>2. ASSUME NEW why, Refuse(c, why) PROVE call'[c].pc # "decide"
      BY <1>0, <3>2, RefuseShape
    <3>3. CASE FindActiveForUser(c) \/ AssertOwnerAuthorityStillProven(c) \/ AssessGate(c)
      BY <3>1, <3>2, <3>3
         DEF FindActiveForUser, AssertOwnerAuthorityStillProven, AssessGate
    <3>4. CASE NoteExpiry(c) \/ RecordExpiry(c) \/ NoteExpiryFails(c)
      <4>1. AfterFacts(c) # "decide"
        BY DEF AfterFacts
      <4> QED
        BY <3>1, <3>4, <4>1 DEF NoteExpiry, RecordExpiry, NoteExpiryFails
    <3>5. CASE GetLatestVersionWithClock(c) \/ GetRoleAndEvaluate(c)
      BY <1>0, <3>5 DEF GetLatestVersionWithClock, GetRoleAndEvaluate, AfterFacts, CallType
    <3>6. CASE AuditRefusal(c)
      BY <1>0, <3>6, EndShape DEF AuditRefusal, Gone
    <3> QED
      BY <1>4, <3>3, <3>4, <3>5, <3>6 DEF Advance
  <2> QED
    BY <1>0, <1>4, <2>1, <2>2, StepShape, TiedMoves
<1>5. CASE Serving
  BY <1>2, <1>3, <1>4, <1>5, TiedCreate, TiedDecide DEF Serving
<1> QED
  BY <1>1, <1>5 DEF Next

-----------------------------------------------------------------------------
(* The theorems.                                                            *)

LEMMA InitInvariant == Init => IInv
<1> SUFFICES ASSUME Init PROVE IInv
  OBVIOUS
<1>1. CallsEstablished
  <2>1. owners \in SUBSET Users /\ IdleCall.pc = "idle" /\ IdleCall = [IdleCall EXCEPT !.pc = IdleCall.pc]
    BY DEF Init, IdleCall
  <2>2. Established(IdleCall, review, assignment, owners)
    BY <2>1, IdleEstablished
  <2> QED
    BY <2>2 DEF Init, CallsEstablished
<1>2. DecisionsTied
  BY DEF Init, DecisionsTied, NoDecision, IdleCall, Decided, Approving
<1> QED
  BY <1>1, <1>2, InitType DEF IInv

\* IInv is inductive: it holds in every reachable state.
THEOREM Invariance == Spec => []IInv
<1>1. IInv /\ [Next]_vars => IInv'
  <2> SUFFICES ASSUME IInv, [Next]_vars PROVE IInv'
    OBVIOUS
  <2>1. CallInputs
    BY DEF IInv, CallsEstablished, Established, CallInputs
  <2> QED
    BY <2>1, NextType, NextEstablished, NextTied DEF IInv
<1> QED
  BY <1>1, InitInvariant, PTL DEF Spec

\* Every variable keeps its type in every run of the workflow.  (TypeOK)
THEOREM TypeCorrect == Spec => []TypeOK
<1>1. IInv => TypeOK
  BY DEF IInv
<1> QED
  BY <1>1, Invariance, PTL

\* An assignment code keeps its holder, role and source for ever, and is never
\* active again once revoked, whatever grants, revocations and bootstraps run
\* at once.  (AuthorityIsFinal)
THEOREM AuthorityNeverReturns == Spec => AuthorityIsFinal
<1>1. TypeOK /\ [Next]_vars => AuthorityKept(assignment, assignment')
  BY NextAuthority
<1>2. AuthorityKept(assignment, assignment') =>
        [\A k \in AssignmentCodes : assignment[k].status # "none" =>
          /\ assignment'[k] = [assignment[k] EXCEPT !.status = assignment'[k].status]
          /\ assignment'[k].status \in {assignment[k].status, "revoked"}]_vars
  BY DEF AuthorityKept
<1> QED
  BY <1>1, <1>2, TypeCorrect, PTL DEF Spec, AuthorityIsFinal

\* A decision code stays with the call that created it, and what was decided
\* under it never changes.  (DecisionIsFinal)
THEOREM DecisionNeverChanges == Spec => DecisionIsFinal
<1>1. TypeOK /\ [Next]_vars =>
        [\A d \in DecisionCodes : decision[d].status # "none" =>
          /\ decision'[d].call = decision[d].call
          /\ decision[d].status \in Decided => decision'[d] = decision[d]]_vars
  <2> SUFFICES ASSUME TypeOK, [Next]_vars, NEW d \in DecisionCodes,
                      decision[d].status # "none"
               PROVE  /\ decision'[d].call = decision[d].call
                      /\ decision[d].status \in Decided => decision'[d] = decision[d]
    OBVIOUS
  <2>1. ASSUME NEW c \in Calls, CreateDecision(c) \/ Decide(c)
        PROVE  /\ decision'[d].call = decision[d].call
               /\ decision[d].status \in Decided => decision'[d] = decision[d]
    <3>1. CASE CreateDecision(c)
      BY <3>1 DEF CreateDecision, DecisionCodeFree, TypeOK
    <3>2. CASE Decide(c)
      <4>1. decision[d] \in DecisionType
        BY DEF TypeOK
      <4>2. CASE d = call[c].dcode
        BY <3>2, <4>1, <4>2 DEF Decide, TypeOK, DecisionType
      <4>3. CASE d # call[c].dcode
        BY <3>2, <4>3 DEF Decide, TypeOK
      <4> QED
        BY <4>2, <4>3
    <3> QED
      BY <2>1, <3>1, <3>2
  <2>2. CASE ~(\E c \in Calls : CreateDecision(c) \/ Decide(c))
    <3>1. CASE Environment \/ Reviewing
      BY <3>1 DEF Environment, Tick, ChangeTwin, ChangeOwnership, Reviewing,
         CreateReviewPackage, CreateReviewVersion, StartReview
    <3>2. CASE Administration
      BY <3>2 DEF Administration, GrantApproverAuthority, RevokeApproverAuthority,
         BootstrapRead, BootstrapGrant
    <3>3. ASSUME NEW c \in Calls, Submit(c) \/ \E r \in Reviews : BeginStatus(c, r)
          PROVE  decision' = decision
      BY <3>3 DEF Submit, BeginSubmit, BeginStatus, ReadOnly
    <3>4. ASSUME NEW c \in Calls, NoteExpiryFails(c) \/ Throw(c)
          PROVE  decision' = decision
      BY <3>4 DEF NoteExpiryFails, Throw
    <3>5. ASSUME NEW c \in Calls, Advance(c)
          PROVE  decision' = decision
      <4>1. CASE FindActiveForUser(c) \/ AssertOwnerAuthorityStillProven(c)
                   \/ GetLatestVersionWithClock(c) \/ GetRoleAndEvaluate(c)
                   \/ AssessGate(c)
        BY <4>1 DEF FindActiveForUser, AssertOwnerAuthorityStillProven,
           GetLatestVersionWithClock, GetRoleAndEvaluate, AssessGate, ReadOnly
      <4>2. CASE NoteExpiry(c) \/ RecordExpiry(c) \/ AuditRefusal(c)
        BY <4>2 DEF NoteExpiry, RecordExpiry, AuditRefusal
      <4> QED
        BY <2>2, <3>5, <4>1, <4>2 DEF Advance
    <3>6. CASE UNCHANGED vars
      BY <3>6 DEF vars
    <3>7. CASE Serving
      <4>1. PICK c \in Calls :
              \/ Submit(c) \/ \E r \in Reviews : BeginStatus(c, r)
              \/ Advance(c) \/ NoteExpiryFails(c) \/ Throw(c)
        BY <3>7 DEF Serving
      <4> QED
        BY <4>1, <3>3, <3>4, <3>5
    <3> QED
      BY <3>1, <3>2, <3>6, <3>7 DEF Next
  <2> QED
    BY <2>1, <2>2
<1> QED
  BY <1>1, TypeCorrect, PTL DEF Spec, DecisionIsFinal

\* The tiers are the ladder of roles: whoever reaches the tier a risk asks for
\* has a role that may approve it.
LEMMA LadderSound ==
  ASSUME NEW role, NEW risk \in RiskClasses \cup {Null},
         ApproverTier(role) >= RequiredTier(risk)
  PROVE  role \in RolesFor(risk)
<1>1. /\ TierOf["cashier"] = 1 /\ TierOf["manager"] = 2 /\ TierOf["approver"] = 2
      /\ DOMAIN TierOf = {"cashier", "manager", "approver", "business-owner"}
  BY DEF TierOf
<1>2. /\ MinimumTier["low"] = 1 /\ MinimumTier["medium"] = 2
      /\ MinimumTier["high"] = 3 /\ MinimumTier["critical"] = 3
  BY DEF MinimumTier, RiskClasses
<1>3. RequiredTier(risk) = IF risk = "low" THEN 1 ELSE IF risk = "medium" THEN 2 ELSE 3
  BY <1>2 DEF RequiredTier, RiskClasses
<1> QED
  BY <1>1, <1>3 DEF ApproverTier, RolesFor

LEMMA ApprovedCall ==
  ASSUME IInv, NEW d \in DecisionCodes, decision[d].status \in Decided
  PROVE  /\ decision[d].call \in Calls
         /\ CallOf(d).pc = "returned" /\ CallOf(d).outcome \in Outcomes
         /\ decision[d].status = DecidedStatus(CallOf(d).outcome)
         /\ Established(CallOf(d), review, assignment, owners)
<1>1. decision[d].status # "none"
  BY DEF Decided, Approving
<1> QED
  BY <1>1 DEF IInv, DecisionsTied, TypeOK, CallType, CallsEstablished, CallOf

\* Whatever runs between the transactions of a call, an approval that stands is
\* for persisted facts, by a role of the tier their risk asks for.
\* (ApprovalRespectsRisk)
THEOREM ApprovalSafe == Spec => []ApprovalRespectsRisk
<1>1. IInv => ApprovalRespectsRisk
  <2> SUFFICES ASSUME IInv, NEW d \in DecisionCodes, decision[d].status \in Approving
               PROVE  /\ FactsOf(d) # NoFacts
                      /\ assignment[CallOf(d).code].role \in RolesFor(FactsOf(d).risk)
    BY DEF ApprovalRespectsRisk
  <2> DEFINE x == CallOf(d)
  <2>1. /\ x.pc = "returned" /\ x.outcome \in Outcomes
        /\ DecidedStatus(x.outcome) \in Approving
        /\ Established(x, review, assignment, owners)
    BY ApprovedCall DEF Decided
  <2>2. Approves(x)
    BY <2>1 DEF Approves, Outcomes, DecidedStatus, Approving
  <2>3. x.facts # NoFacts /\ FactsOf(d) = x.facts
    BY <2>1, <2>2 DEF Established, FactsChecked, FactsRead, FactsOf, PastGate
  <2>4. ApproverTier(assignment[x.code].role) >= RequiredTier(RiskOf(x.facts))
    BY <2>1, <2>2 DEF Established, RoleRead, PastRole
  <2>5. x.facts.risk \in RiskClasses \cup {Null}
    BY <2>1, <2>3, ConstantsAssumption DEF IInv, TypeOK, FactsType, FactsOf, ReviewType,
       Established, FactsRead
  <2> QED
    BY <2>3, <2>4, <2>5, LadderSound DEF RiskOf
<1> QED
  BY <1>1, Invariance, PTL

\* Nobody decides by another user's assignment, by one revoked before the call
\* began, or by an onboarding grant without being a proven owner during it.
\* (DecisionRestsOnAuthority)
THEOREM DecisionAuthorized == Spec => []DecisionRestsOnAuthority
<1>1. IInv => DecisionRestsOnAuthority
  <2> SUFFICES ASSUME IInv, NEW d \in DecisionCodes, decision[d].status \in Decided
               PROVE  /\ assignment[CallOf(d).code].user = CallOf(d).user
                      /\ CallOf(d).code \notin CallOf(d).begun.revoked
                      /\ CallOf(d).code = OwnerCode
                           /\ assignment[CallOf(d).code].source = "onboarding"
                           => CallOf(d).proven
    BY DEF DecisionRestsOnAuthority
  <2> DEFINE x == CallOf(d)
  <2>1. /\ x.pc = "returned" /\ x.outcome \in Outcomes
        /\ AuthorityRead(x, assignment)
    BY ApprovedCall DEF Established
  <2>2. x.outcome # Null
    BY <2>1, NullAssumption
  <2> QED
    BY <2>1, <2>2 DEF AuthorityRead, PastFindActive
<1> QED
  BY <1>1, Invariance, PTL

-----------------------------------------------------------------------------
(* Approvals rest on valid facts.  The gate judges on the clock read with   *)
(* the facts, which is later than the beginning of the call, and on the     *)
(* snapshots that count when it is evaluated: what was published when the   *)
(* call began still counts then, and what counts then has counted since.    *)

ValidFacts(f, b, counted) ==
    /\ f # NoFacts
    /\ f.timeSensitive # "unknown"
    /\ f.timeSensitive = "yes" => f.validUntil # Null
    /\ ~Expired(f, b.now)
    /\ f.twin # Null => f.twin \in counted /\ ~NewerIn(f.twin, b.published)

\* What a call knows of time t, when the snapshots pub are published and the
\* snapshots cnt count.
Evidence(x, t, pub, cnt) ==
    /\ x.begun.now <= t /\ x.begun.published \subseteq pub
    /\ Approves(x) /\ x.pc \in InFlight => cnt \subseteq x.counted
    /\ x.pc \in {"noteExpiry", "expiryInsert", "getRole", "gate"} => x.begun.now <= x.now
    /\ Approves(x) /\ x.pc \in PastGate => ValidFacts(x.facts, x.begun, x.counted)

Evident == \A c \in Calls : Evidence(call[c], clock, Published, Counted)

LEMMA EvidenceKept ==
  ASSUME NEW x, NEW t \in Nat, NEW u \in Nat, NEW pub, NEW qub, NEW cnt,
         x.begun.now \in Nat, t <= u, pub \subseteq qub, Evidence(x, t, pub, cnt)
  PROVE  Evidence(x, u, qub, cnt)
<1>1. x.begun.now <= u /\ x.begun.published \subseteq qub
  BY DEF Evidence
<1> QED
  BY <1>1 DEF Evidence

\* What counts changes: the calls in flight take note of it.
LEMMA EvidenceExtended ==
  ASSUME NEW x, NEW y, NEW t, NEW pub, NEW cnt, NEW dnt, Evidence(x, t, pub, cnt),
         y.begun = x.begun, y.outcome = x.outcome, y.facts = x.facts, y.now = x.now,
         y.pc = x.pc, x.counted \subseteq y.counted,
         x.pc \in InFlight => dnt \subseteq y.counted
  PROVE  Evidence(y, t, pub, dnt)
<1>1. ASSUME NEW f, NEW b, ValidFacts(f, b, x.counted) PROVE ValidFacts(f, b, y.counted)
  BY <1>1 DEF ValidFacts
<1> QED
  BY <1>1 DEF Evidence, Approves

\* The gate, when it finds nothing, has validated the facts as of the beginning.
LEMMA GateValidates ==
  ASSUME NEW f \in FactsSpace \cup {NoFacts}, NEW now \in Nat, NEW cnt, NEW b,
         b.now \in Nat, b.now <= now, b.published \subseteq cnt,
         NEW counted, cnt \subseteq counted, GateCodes(f, now, cnt) = {}
  PROVE  ValidFacts(f, b, counted)
<1>1. f # NoFacts
  BY DEF GateCodes
<1>2. f \in FactsType
  BY <1>1, ConstantsAssumption
<1>3. /\ ~Expired(f, now)
      /\ f.timeSensitive # "unknown"
      /\ ~(f.timeSensitive = "yes" /\ f.validUntil = Null)
      /\ ~(f.twin # Null /\ ~Usable(f.twin, cnt))
      /\ ~(f.twin # Null /\ Usable(f.twin, cnt) /\ NewerIn(f.twin, cnt))
  BY <1>1 DEF GateCodes
<1>4. ~Expired(f, b.now)
  BY <1>1, <1>2, <1>3 DEF Expired, FactsType
<1>5. ~NewerIn(f.twin, cnt) => ~NewerIn(f.twin, b.published)
  BY DEF NewerIn
<1>6. Usable(f.twin, cnt) => f.twin \in counted
  BY DEF Usable
<1> QED
  BY <1>1, <1>3, <1>4, <1>5, <1>6 DEF ValidFacts

\* A step of a call that keeps what Evidence reads of it.
LEMMA EvidenceCarried ==
  ASSUME NEW x, NEW y, NEW t, NEW pub, NEW cnt, Evidence(x, t, pub, cnt),
         y.begun = x.begun, y.outcome = x.outcome, y.facts = x.facts, y.now = x.now,
         y.counted = x.counted,
         y.pc \in InFlight => x.pc \in InFlight,
         y.pc \in {"noteExpiry", "expiryInsert", "getRole", "gate"} =>
           x.pc \in {"noteExpiry", "expiryInsert", "getRole", "gate"},
         Approves(x) /\ y.pc \in PastGate => x.pc \in PastGate
  PROVE  Evidence(y, t, pub, cnt)
  BY DEF Evidence, Approves

LEMMA GoneEvident ==
  ASSUME NEW x, Gone(x), NEW t \in Nat, NEW pub, NEW cnt
  PROVE  Evidence(x, t, pub, cnt)
  BY NullAssumption DEF Gone, IdleCall, Evidence, Approves, Outcomes, InFlight

LEMMA StepEvident ==
  ASSUME IInv, Evident, NEW c \in Calls, Advance(c) \/ NoteExpiryFails(c)
  PROVE  Evidence(call'[c], clock, Published, Counted)
<1> DEFINE x == call[c]
           y == call'[c]
           E(z) == Evidence(z, clock, Published, Counted)
<1>0. /\ call \in [Calls -> CallType] /\ x \in CallType /\ E(x)
      /\ InputsOf(x) /\ clock \in Nat /\ Published \subseteq Counted
  BY DEF IInv, TypeOK, Evident, CallsEstablished, Established, Published, Counted
<1>a. x.pc \in InFlight
  BY DEF Advance, FindActiveForUser, AssertOwnerAuthorityStillProven,
     GetLatestVersionWithClock, NoteExpiry, RecordExpiry, NoteExpiryFails,
     GetRoleAndEvaluate, AssessGate, CreateDecision, Decide, AuditRefusal, At, InFlight
<1>1. ASSUME NEW pc, Goto(c, pc),
             pc \in {"noteExpiry", "expiryInsert", "getRole", "gate"} =>
               x.pc \in {"noteExpiry", "expiryInsert", "getRole", "gate"},
             Approves(x) /\ pc \in PastGate => x.pc \in PastGate
      PROVE  E(y)
  <2>1. /\ y.begun = x.begun /\ y.outcome = x.outcome /\ y.facts = x.facts
        /\ y.now = x.now /\ y.pc = pc /\ y.counted = x.counted
    BY <1>0, <1>1, GotoShape DEF SameInputs
  <2> HIDE DEF y
  <2> QED
    BY <1>0, <1>a, <1>1, <2>1, EvidenceCarried
<1>2. ASSUME NEW why, Refuse(c, why) PROVE E(y)
  <2>1. SameInputs(x, y) /\ y.pc = "auditRefusal"
    BY <1>0, <1>2, RefuseShape
  <2> QED
    BY <1>0, <1>a, <2>1 DEF Evidence, SameInputs, PastGate, Approves
<1>3. ASSUME NEW pc \in {"refused", "thrown"}, End(c, pc) PROVE E(y)
  BY <1>0, <1>3, EndShape, GoneEvident
<1>4. Approves(x) => AfterFacts(c) = "getRole"
  BY NullAssumption DEF Approves, Outcomes, AfterFacts
<1>5. AfterFacts(c) \in {"returned", "getRole"}
  BY DEF AfterFacts
<1>6. CASE FindActiveForUser(c) \/ AssertOwnerAuthorityStillProven(c)
  BY <1>1, <1>2, <1>6 DEF FindActiveForUser, AssertOwnerAuthorityStillProven, PastGate
<1>7. CASE GetLatestVersionWithClock(c)
  <2>1. /\ y.begun = x.begun /\ y.now = clock /\ y.outcome = x.outcome
        /\ y.counted = x.counted
        /\ y.pc \in {"noteExpiry", AfterFacts(c)}
    BY <1>0, <1>7 DEF GetLatestVersionWithClock, CallType
  <2>2. Approves(y) => y.pc \notin PastGate
    BY <1>4, <2>1 DEF Approves, PastGate
  <2> QED
    BY <1>0, <1>a, <2>1, <2>2 DEF Evidence, Approves
<1>8. CASE NoteExpiry(c) \/ RecordExpiry(c) \/ NoteExpiryFails(c)
  <2>1. PICK pc \in {"expiryInsert", AfterFacts(c)} : Goto(c, pc)
    BY <1>8 DEF NoteExpiry, RecordExpiry, NoteExpiryFails
  <2>2. x.pc \in {"noteExpiry", "expiryInsert"}
    BY <1>8 DEF NoteExpiry, RecordExpiry, NoteExpiryFails, At
  <2> QED
    BY <1>1, <1>4, <2>1, <2>2 DEF PastGate
<1>9. CASE GetRoleAndEvaluate(c)
  <2>1. /\ y.begun = x.begun /\ y.now = x.now /\ y.outcome = x.outcome /\ y.facts = x.facts
        /\ y.counted = x.counted /\ y.pc \in {"auditRefusal", "createDecision", "gate"}
        /\ y.pc = "createDecision" => x.outcome = "reject"
    BY <1>0, <1>9 DEF GetRoleAndEvaluate, CallType
  <2>2. x.pc = "getRole"
    BY <1>9 DEF GetRoleAndEvaluate, At
  <2>3. Approves(x) => y.pc \notin PastGate
    BY <2>1 DEF Approves, PastGate
  <2> QED
    BY <1>0, <1>a, <2>1, <2>2, <2>3, EvidenceCarried
<1>10. CASE AssessGate(c)
  <2>1. x.pc = "gate"
    BY <1>10 DEF AssessGate, At
  <2>2. CASE GateCodes(x.facts, x.now, Counted) = {}
    <3>1. /\ y.pc = "createDecision" /\ y.begun = x.begun /\ y.facts = x.facts
          /\ y.counted = x.counted /\ y.outcome = x.outcome
      BY <1>0, <1>10, <2>2, GotoShape DEF AssessGate, SameInputs
    <3>2. /\ x.begun.now \in Nat /\ x.now \in Nat /\ x.facts \in FactsSpace \cup {NoFacts}
          /\ x.begun.now <= x.now /\ x.begun.published \subseteq Counted
      BY <1>0, <2>1 DEF CallType, Evidence
    <3>3. ASSUME Approves(x) PROVE ValidFacts(x.facts, x.begun, x.counted)
      <4>1. Counted \subseteq x.counted
        BY <1>0, <1>a, <3>3 DEF Evidence
      <4> QED
        BY <2>2, <3>2, <4>1, GateValidates
    <3> QED
      BY <1>0, <1>a, <3>1, <3>3 DEF Evidence, Approves
  <2> QED
    BY <1>2, <1>10, <2>2 DEF AssessGate
<1>11. CASE CreateDecision(c)
  BY <1>1, <1>3, <1>11 DEF CreateDecision, At, PastGate
<1>12. CASE Decide(c)
  BY <1>1, <1>12 DEF Decide, At, PastGate
<1>13. CASE AuditRefusal(c)
  BY <1>3, <1>13 DEF AuditRefusal
<1> QED
  BY <1>6, <1>7, <1>8, <1>9, <1>10, <1>11, <1>12, <1>13 DEF Advance

\* The clock and the snapshots are moved by the environment only, the clock and
\* the publications forwards.
LEMMA ServingWaits == Serving => UNCHANGED <<clock, snapshot>>
<1> SUFFICES ASSUME NEW c \in Calls,
                    \/ Submit(c)
                    \/ \E r \in Reviews : BeginStatus(c, r)
                    \/ Advance(c) \/ NoteExpiryFails(c) \/ Throw(c)
             PROVE  UNCHANGED <<clock, snapshot>>
  BY DEF Serving
<1>1. CASE Submit(c) \/ (\E r \in Reviews : BeginStatus(c, r)) \/ NoteExpiryFails(c) \/ Throw(c)
  BY <1>1 DEF Submit, BeginSubmit, BeginStatus, ReadOnly, NoteExpiryFails, Throw
<1>2. CASE Advance(c)
  BY <1>2 DEF Advance, FindActiveForUser, AssertOwnerAuthorityStillProven,
     GetLatestVersionWithClock, GetRoleAndEvaluate, AssessGate, ReadOnly, NoteExpiry,
     RecordExpiry, AuditRefusal, CreateDecision, Decide
<1> QED
  BY <1>1, <1>2

LEMMA TimePasses ==
  ASSUME TypeOK, [Next]_vars
  PROVE  clock' \in Nat /\ clock <= clock' /\ Published \subseteq Published'
<1>0. UNCHANGED snapshot => Published' = Published
  BY DEF Published
<1>1. CASE Tick \/ (\E u \in Users : ChangeOwnership(u))
  BY <1>0, <1>1 DEF Tick, ChangeOwnership, TypeOK
<1>4. ASSUME NEW t \in Twins, ChangeTwin(t)
      PROVE  clock' \in Nat /\ clock <= clock' /\ Published \subseteq Published'
  <2>1. clock' = clock
    BY <1>4 DEF ChangeTwin
  <2>2. \A x \in Twins : snapshot[x] = "published" => snapshot'[x] = "published"
    BY <1>4 DEF ChangeTwin, Catalogue!Change, Catalogue!Publish, Catalogue!Supersede,
       Catalogue!Revalidate, TypeOK
  <2> QED
    BY <2>1, <2>2 DEF TypeOK, Published
<1>2. CASE Reviewing \/ Administration \/ UNCHANGED vars
  BY <1>0, <1>2 DEF Reviewing, CreateReviewPackage, CreateReviewVersion, StartReview,
     Administration, GrantApproverAuthority, RevokeApproverAuthority, BootstrapRead,
     BootstrapGrant, vars, TypeOK
<1>3. CASE Serving
  BY <1>0, <1>3, ServingWaits DEF TypeOK
<1> QED
  BY <1>1, <1>2, <1>3, <1>4 DEF Next, Environment

LEMMA ServingEvident ==
  ASSUME IInv, Evident, Serving PROVE Evident'
<1>0. /\ call \in [Calls -> CallType] /\ clock \in Nat
      /\ clock' = clock /\ Published' = Published /\ Counted' = Counted
  BY ServingWaits DEF IInv, TypeOK, Published, Counted
<1>1. PICK c \in Calls : \/ Submit(c)
                         \/ (\E r \in Reviews : BeginStatus(c, r))
                         \/ Advance(c)
                         \/ NoteExpiryFails(c)
                         \/ Throw(c)
  BY DEF Serving
<1>2. \A b \in Calls \ {c} : call'[b] = call[b]
  <2>1. CASE Submit(c) \/ (\E r \in Reviews : BeginStatus(c, r))
    BY <1>0, <2>1 DEF Submit, BeginSubmit, BeginStatus
  <2>2. CASE Throw(c)
    BY <1>0, <2>2 DEF Throw, End
  <2> QED
    BY <1>0, <1>1, <2>1, <2>2, StepShape
<1>3. Evidence(call'[c], clock, Published, Counted)
  <2>1. CASE Submit(c)
    <3>1. /\ call'[c].begun.now = clock /\ call'[c].begun.published = Published
          /\ call'[c].counted = Counted
          /\ call'[c].pc \in {"findActiveForUser", "auditRefusal"}
      BY <1>0, <2>1 DEF Submit, BeginSubmit, IdleCall
    <3> QED
      BY <1>0, <3>1 DEF Evidence, PastGate
  <2>2. CASE \E r \in Reviews : BeginStatus(c, r)
    <3>1. /\ call'[c].begun.now = 0 /\ call'[c].begun.published = {}
          /\ call'[c].pc = "getLatestVersion" /\ ~Approves(call'[c])
      BY <1>0, <2>2, NullAssumption DEF BeginStatus, IdleCall, Approves, Outcomes
    <3> QED
      BY <1>0, <3>1 DEF Evidence, PastGate
  <2>3. CASE Throw(c)
    BY <1>0, <2>3, EndShape, GoneEvident DEF Throw
  <2> QED
    BY <1>1, <2>1, <2>2, <2>3, StepEvident
<1> QED
  BY <1>0, <1>2, <1>3 DEF Evident

LEMMA NextEvident == IInv /\ Evident /\ [Next]_vars => Evident'
<1> SUFFICES ASSUME IInv, Evident, [Next]_vars PROVE Evident'
  OBVIOUS
<1>0. TypeOK /\ clock \in Nat /\ \A c \in Calls : call[c] \in CallType
  BY DEF IInv, TypeOK
<1>1. clock' \in Nat /\ clock <= clock' /\ Published \subseteq Published'
  BY <1>0, TimePasses
<1>2. \A c \in Calls : Evidence(call[c], clock', Published', Counted)
  BY <1>0, <1>1, EvidenceKept DEF Evident, CallType
<1>3. CASE UNCHANGED <<call, snapshot>>
  BY <1>2, <1>3 DEF Evident, Counted
<1>4. ASSUME NEW u \in Users, ChangeOwnership(u) PROVE Evident'
  <2>1. /\ Counted' = Counted
        /\ \A c \in Calls : call'[c] = [call[c] EXCEPT !.proven = @ \/ call[c].user \in owners']
    BY <1>4 DEF ChangeOwnership, Counted
  <2>2. \A c \in Calls : /\ call'[c].begun = call[c].begun /\ call'[c].pc = call[c].pc
                         /\ call'[c].outcome = call[c].outcome
                         /\ call'[c].facts = call[c].facts /\ call'[c].now = call[c].now
                         /\ call'[c].counted = call[c].counted
    BY <1>0, <2>1 DEF CallType
  <2> QED
    BY <1>2, <2>1, <2>2 DEF Evident, Evidence, Approves
<1>5. ASSUME NEW t \in Twins, ChangeTwin(t) PROVE Evident'
  <2>1. \A c \in Calls : call'[c] = [call[c] EXCEPT !.counted =
           IF call[c].pc \in InFlight THEN @ \cup Counted' ELSE @]
    BY <1>5 DEF ChangeTwin
  <2>2. \A c \in Calls : /\ call'[c].begun = call[c].begun /\ call'[c].pc = call[c].pc
                         /\ call'[c].outcome = call[c].outcome
                         /\ call'[c].facts = call[c].facts /\ call'[c].now = call[c].now
                         /\ call[c].counted \subseteq call'[c].counted
                         /\ call[c].pc \in InFlight => Counted' \subseteq call'[c].counted
    <3> SUFFICES ASSUME NEW c \in Calls
                 PROVE  /\ call'[c].begun = call[c].begun /\ call'[c].pc = call[c].pc
                        /\ call'[c].outcome = call[c].outcome
                        /\ call'[c].facts = call[c].facts /\ call'[c].now = call[c].now
                        /\ call[c].counted \subseteq call'[c].counted
                        /\ call[c].pc \in InFlight => Counted' \subseteq call'[c].counted
      OBVIOUS
    <3>1. PICK cnt : cnt = IF call[c].pc \in InFlight THEN call[c].counted \cup Counted'
                           ELSE call[c].counted
      OBVIOUS
    <3>2. call'[c] = [call[c] EXCEPT !.counted = cnt]
      BY <2>1, <3>1
    <3>3. /\ call'[c].begun = call[c].begun /\ call'[c].pc = call[c].pc
          /\ call'[c].outcome = call[c].outcome
          /\ call'[c].facts = call[c].facts /\ call'[c].now = call[c].now
          /\ call'[c].counted = cnt
      BY <1>0, <3>2 DEF CallType
    <3> QED
      BY <3>1, <3>3
  <2>3. \A c \in Calls : Evidence(call'[c], clock', Published', Counted')
    BY <1>2, <2>2, EvidenceExtended
  <2> QED
    BY <2>3 DEF Evident
<1>6. CASE Tick \/ Reviewing \/ Administration \/ UNCHANGED vars
  BY <1>3, <1>6 DEF Tick, Reviewing, CreateReviewPackage,
     CreateReviewVersion, StartReview, Administration, GrantApproverAuthority,
     RevokeApproverAuthority, BootstrapRead, BootstrapGrant, vars
<1> QED
  BY <1>4, <1>5, <1>6, ServingEvident DEF Next, Environment

LEMMA InitEvident == Init => Evident
<1> SUFFICES ASSUME Init, NEW c \in Calls PROVE Evidence(call[c], clock, Published, Counted)
  BY DEF Evident
<1>1. call[c] = IdleCall /\ clock = 0
  BY DEF Init
<1> QED
  BY <1>1, NullAssumption DEF Evidence, IdleCall, Approves, Outcomes

\* An approval that stands rests on facts of a known time-sensitivity, valid when
\* the call began, on a twin snapshot that counted at some moment of the call and
\* that no newer one, published when the call began, had overtaken: clock, facts
\* and snapshots are read by different transactions, and snapshots are published,
\* superseded and validated again between them.  (ApprovalRestsOnValidFacts)
THEOREM ApprovalValid == Spec => []ApprovalRestsOnValidFacts
<1>1. IInv /\ Evident => ApprovalRestsOnValidFacts
  <2> SUFFICES ASSUME IInv, Evident, NEW d \in DecisionCodes, decision[d].status \in Approving
               PROVE  ValidFacts(FactsOf(d), CallOf(d).begun, CallOf(d).counted)
    BY DEF ApprovalRestsOnValidFacts, ValidFacts
  <2> DEFINE x == CallOf(d)
  <2>1. /\ decision[d].call \in Calls
        /\ x.pc = "returned" /\ x.outcome \in Outcomes
        /\ DecidedStatus(x.outcome) \in Approving
        /\ Established(x, review, assignment, owners)
    BY ApprovedCall DEF Decided
  <2>2. Approves(x)
    BY <2>1 DEF Approves, Outcomes, DecidedStatus, Approving
  <2>3. ValidFacts(x.facts, x.begun, x.counted)
    BY <2>1, <2>2 DEF Evident, Evidence, PastGate, CallOf
  <2>4. FactsOf(d) = x.facts
    BY <2>1, <2>3 DEF Established, FactsRead, FactsOf, ValidFacts
  <2> QED
    BY <2>3, <2>4
<1> QED
  BY <1>1, InitEvident, NextEvident, Invariance, PTL DEF Spec

-----------------------------------------------------------------------------
(* The expiry of a version is recorded once: whoever is about to insert the *)
(* event holds the lock of the version, under which nobody has recorded it. *)

LockSound ==
    \A c \in Calls : call[c].pc = "expiryInsert" =>
      LET r == call[c].review
      IN  expiryLock[r] = c /\ expiryEvents[r] = 0 /\ Expired(review[r].facts, clock)

ExpiryInv == LockSound /\ ExpiryRecordedOnce

LEMMA ExpiredKept ==
  ASSUME TypeOK, FactsKept(review, review'), clock' \in Nat, clock <= clock',
         NEW r \in Reviews, Expired(review[r].facts, clock)
  PROVE  Expired(review'[r].facts, clock')
<1>1. review[r].facts \in FactsType /\ review[r].facts # NoFacts /\ clock \in Nat
  BY ConstantsAssumption DEF TypeOK, ReviewType, Expired
<1>2. review'[r].facts = review[r].facts
  BY <1>1 DEF FactsKept
<1> QED
  BY <1>1, <1>2 DEF Expired, FactsType

\* A step that records nothing, takes no lock and lets nobody go to the insert.
LEMMA ExpiryStandsStill ==
  ASSUME IInv, ExpiryInv, [Next]_vars, UNCHANGED <<expiryEvents, expiryLock>>,
         \A c \in Calls : call'[c].pc = "expiryInsert" =>
           call[c].pc = "expiryInsert" /\ call'[c].review = call[c].review
  PROVE  ExpiryInv'
<1>1. /\ TypeOK /\ FactsKept(review, review')
      /\ clock' \in Nat /\ clock <= clock'
  BY NextFacts, TimePasses DEF IInv
<1>2. \A c \in Calls : call[c].pc = "expiryInsert" => call[c].review \in Reviews
  BY DEF IInv, CallsEstablished, Established, InputsOf, InFlight
<1>3. LockSound'
  BY <1>1, <1>2, ExpiredKept DEF ExpiryInv, LockSound
<1>4. ExpiryRecordedOnce'
  BY <1>1, ExpiredKept DEF ExpiryInv, ExpiryRecordedOnce
<1> QED
  BY <1>3, <1>4 DEF ExpiryInv

LEMMA NoteExpiryLocks ==
  ASSUME IInv, ExpiryInv, NEW c \in Calls, NoteExpiry(c) PROVE ExpiryInv'
<1> DEFINE r == call[c].review
<1>0. /\ call \in [Calls -> CallType] /\ r \in Reviews
      /\ expiryLock \in [Reviews -> Calls \cup {Null}]
      /\ expiryEvents \in [Reviews -> Nat]
  BY DEF IInv, TypeOK, CallsEstablished, Established, InputsOf, InFlight, NoteExpiry, At
<1>1. /\ review' = review /\ clock' = clock /\ expiryEvents' = expiryEvents
  BY DEF NoteExpiry
<1>2. ExpiryRecordedOnce'
  BY <1>1 DEF ExpiryInv, ExpiryRecordedOnce
<1>3. \A b \in Calls : call[b].pc = "expiryInsert" => call[b].review # r
  BY <1>0, NullAssumption DEF NoteExpiry, LockFree, ExpiryInv, LockSound
<1>4. CASE expiryEvents[r] > 0 \/ ~Expired(review[r].facts, clock)
  <2>1. /\ expiryLock' = expiryLock /\ call'[c].pc # "expiryInsert"
        /\ \A b \in Calls \ {c} : call'[b] = call[b]
    BY <1>0, <1>4, AfterFactsShape DEF NoteExpiry
  <2> QED
    BY <1>1, <1>2, <2>1 DEF ExpiryInv, LockSound
<1>5. CASE expiryEvents[r] = 0 /\ Expired(review[r].facts, clock)
  <2>1. /\ expiryLock' = [expiryLock EXCEPT ![r] = c] /\ call'[c].review = r
        /\ \A b \in Calls \ {c} : call'[b] = call[b]
    <3>1. Goto(c, "expiryInsert") /\ expiryLock' = [expiryLock EXCEPT ![r] = c]
      BY <1>5 DEF NoteExpiry
    <3> QED
      BY <1>0, <3>1, GotoShape DEF SameInputs
  <2>2. ASSUME NEW b \in Calls, call'[b].pc = "expiryInsert"
        PROVE  /\ expiryLock'[call'[b].review] = b /\ expiryEvents'[call'[b].review] = 0
               /\ Expired(review'[call'[b].review].facts, clock')
    <3>1. CASE b = c
      BY <1>0, <1>1, <1>5, <2>1, <3>1
    <3>2. CASE b # c
      <4>1. /\ call'[b] = call[b] /\ expiryLock[call[b].review] = b
            /\ expiryEvents[call[b].review] = 0 /\ Expired(review[call[b].review].facts, clock)
        BY <2>1, <2>2, <3>2 DEF ExpiryInv, LockSound
      <4>2. expiryLock'[call[b].review] = b
        BY <1>0, <1>3, <2>1, <2>2, <3>2, <4>1
      <4> QED
        BY <1>1, <4>1, <4>2
    <3> QED
      BY <3>1, <3>2
  <2> QED
    BY <1>2, <2>2 DEF ExpiryInv, LockSound
<1> QED
  BY <1>0, <1>4, <1>5

LEMMA RecordExpiryOnce ==
  ASSUME IInv, ExpiryInv, NEW c \in Calls, RecordExpiry(c) PROVE ExpiryInv'
<1> DEFINE r == call[c].review
<1>0. /\ call \in [Calls -> CallType] /\ r \in Reviews
      /\ expiryLock \in [Reviews -> Calls \cup {Null}]
      /\ expiryEvents \in [Reviews -> Nat]
  BY DEF IInv, TypeOK, CallsEstablished, Established, InputsOf, InFlight, RecordExpiry, At
<1>1. expiryLock[r] = c /\ expiryEvents[r] = 0 /\ Expired(review[r].facts, clock)
  BY DEF RecordExpiry, At, ExpiryInv, LockSound
<1>2. /\ review' = review /\ clock' = clock
      /\ expiryLock' = [expiryLock EXCEPT ![r] = Null]
      /\ expiryEvents' = [expiryEvents EXCEPT ![r] = 1]
  BY <1>0, <1>1 DEF RecordExpiry
<1>3. ExpiryRecordedOnce'
  BY <1>0, <1>1, <1>2 DEF ExpiryInv, ExpiryRecordedOnce
<1>4. /\ call'[c].pc # "expiryInsert"
      /\ \A b \in Calls \ {c} : call'[b] = call[b]
  BY <1>0, AfterFactsShape DEF RecordExpiry
<1>5. \A b \in Calls \ {c} : call[b].pc = "expiryInsert" => call[b].review # r
  BY <1>1 DEF ExpiryInv, LockSound
<1>6. LockSound'
  BY <1>0, <1>2, <1>4, <1>5 DEF ExpiryInv, LockSound
<1> QED
  BY <1>3, <1>6 DEF ExpiryInv

\* What a call gives up when its transaction is rolled back is its own lock.
LEMMA ExpiryReleased ==
  ASSUME IInv, ExpiryInv, NEW c \in Calls, NoteExpiryFails(c) \/ Throw(c) PROVE ExpiryInv'
<1>0. /\ call \in [Calls -> CallType] /\ expiryLock \in [Reviews -> Calls \cup {Null}]
      /\ \A b \in Calls : call[b].pc = "expiryInsert" => call[b].review \in Reviews
  BY DEF IInv, TypeOK, CallsEstablished, Established, InputsOf, InFlight
<1>1. review' = review /\ clock' = clock /\ expiryEvents' = expiryEvents
  BY DEF NoteExpiryFails, Throw
<1>2. \A r \in Reviews : expiryLock[r] # c => expiryLock'[r] = expiryLock[r]
  BY <1>0 DEF NoteExpiryFails, Throw, ReleaseLocks
<1>3. /\ call'[c].pc # "expiryInsert"
      /\ \A b \in Calls \ {c} : call'[b] = call[b]
  <2>1. CASE NoteExpiryFails(c)
    BY <1>0, <2>1, AfterFactsShape DEF NoteExpiryFails
  <2>2. CASE Throw(c)
    BY <1>0, <2>2, EndShape DEF Throw, Gone
  <2> QED
    BY <2>1, <2>2
<1>4. LockSound'
  BY <1>0, <1>1, <1>2, <1>3 DEF ExpiryInv, LockSound
<1>5. ExpiryRecordedOnce'
  BY <1>1 DEF ExpiryInv, ExpiryRecordedOnce
<1> QED
  BY <1>4, <1>5 DEF ExpiryInv

LEMMA NextExpiry == IInv /\ ExpiryInv /\ [Next]_vars => ExpiryInv'
<1> SUFFICES ASSUME IInv, ExpiryInv, [Next]_vars PROVE ExpiryInv'
  OBVIOUS
<1>0. call \in [Calls -> CallType] /\ \A b \in Calls : call[b] \in CallType
  BY DEF IInv, TypeOK
<1>1. CASE Environment \/ Reviewing \/ Administration \/ UNCHANGED vars
  <2>1. /\ UNCHANGED <<expiryEvents, expiryLock>>
        /\ \A c \in Calls : call'[c].pc = call[c].pc /\ call'[c].review = call[c].review
    BY <1>0, <1>1 DEF Environment, Tick, ChangeTwin, ChangeOwnership, Reviewing,
       CreateReviewPackage, CreateReviewVersion, StartReview, Administration,
       GrantApproverAuthority, RevokeApproverAuthority, BootstrapRead, BootstrapGrant,
       vars, auditVars, CallType
  <2> QED
    BY <2>1, ExpiryStandsStill
<1>2. ASSUME NEW c \in Calls, UNCHANGED <<expiryEvents, expiryLock>>,
             call'[c].pc # "expiryInsert", \A b \in Calls \ {c} : call'[b] = call[b]
      PROVE  ExpiryInv'
  BY <1>2, ExpiryStandsStill
<1>3. ASSUME NEW c \in Calls, Submit(c) \/ (\E r \in Reviews : BeginStatus(c, r))
      PROVE  ExpiryInv'
  <2>1. /\ UNCHANGED <<expiryEvents, expiryLock>> /\ call'[c].pc # "expiryInsert"
        /\ \A b \in Calls \ {c} : call'[b] = call[b]
    <3>1. CASE Submit(c)
      BY <1>0, <3>1 DEF Submit, BeginSubmit, ReadOnly, auditVars, IdleCall
    <3>2. CASE \E r \in Reviews : BeginStatus(c, r)
      BY <1>0, <3>2 DEF BeginStatus, ReadOnly, auditVars, IdleCall
    <3> QED
      BY <1>3, <3>1, <3>2
  <2> QED
    BY <1>2, <2>1
<1>4. ASSUME NEW c \in Calls, Advance(c), ~NoteExpiry(c), ~RecordExpiry(c)
      PROVE  ExpiryInv'
  <2>1. UNCHANGED <<expiryEvents, expiryLock>>
    BY <1>4 DEF Advance, FindActiveForUser, AssertOwnerAuthorityStillProven,
       GetLatestVersionWithClock, GetRoleAndEvaluate, AssessGate, CreateDecision, Decide,
       AuditRefusal, ReadOnly, auditVars
  <2>2. call'[c].pc # "expiryInsert"
    <3>1. CASE FindActiveForUser(c) \/ AssertOwnerAuthorityStillProven(c) \/ AssessGate(c)
                 \/ CreateDecision(c) \/ Decide(c) \/ AuditRefusal(c)
      <4>1. call'[c].pc \in {"assertOwner", "getLatestVersion", "auditRefusal",
                            "createDecision", "decide", "thrown", "returned", "refused"}
        BY <1>0, <3>1, PcShape, Zenon
           DEF FindActiveForUser, AssertOwnerAuthorityStillProven, AssessGate,
               CreateDecision, Decide, AuditRefusal
      <4> QED
        BY <4>1
    <3>2. CASE GetLatestVersionWithClock(c) \/ GetRoleAndEvaluate(c)
      BY <1>0, <3>2 DEF GetLatestVersionWithClock, GetRoleAndEvaluate, AfterFacts, CallType
    <3> QED
      BY <1>4, <3>1, <3>2 DEF Advance
  <2> QED
    BY <1>0, <1>2, <1>4, <2>1, <2>2, StepShape
<1>5. CASE Serving
  BY <1>3, <1>4, <1>5, NoteExpiryLocks, RecordExpiryOnce, ExpiryReleased DEF Serving
<1> QED
  BY <1>1, <1>5 DEF Next

LEMMA InitExpiry == Init => ExpiryInv
  BY DEF Init, ExpiryInv, LockSound, ExpiryRecordedOnce, IdleCall

\* Whichever calls detect the expiry of a version at once, and whichever of them
\* fail or die under its lock, one approval.expired event is recorded, and only of
\* a version that has expired.  (ExpiryRecordedOnce)
THEOREM ExpiryOnce == Spec => []ExpiryRecordedOnce
<1>1. ExpiryInv => ExpiryRecordedOnce
  BY DEF ExpiryInv
<1> QED
  BY <1>1, InitExpiry, NextExpiry, Invariance, PTL DEF Spec

-----------------------------------------------------------------------------
(* The audit trail.                                                         *)

\* The events of a call follow from where it is.
AuditTold(x, log) ==
    /\ x.pc \notin {"returned", "refused"} => log = <<>>
    /\ x.pc = "refused" => log \in {<<>>, <<"denied">>, <<"blocked">>}
    /\ x.pc = "returned" =>
         log = IF x.outcome = Null THEN <<>> ELSE <<DecidedStatus(x.outcome)>>

\* A row names the call that created it, and a call that returned has decided one.
RowsOwned ==
    /\ \A d \in DecisionCodes :
         /\ decision[d].status = "none" => decision[d].call = Null
         /\ \A c \in Calls : decision[d].call = c =>
              call[c].pc \in {"decide", "returned", "thrown"}
    /\ \A c \in Calls : call[c].pc = "returned" /\ call[c].outcome # Null =>
         \E d \in DecisionCodes : decision[d].call = c /\ decision[d].status \in Decided

AuditInv == (\A c \in Calls : AuditTold(call[c], audit[c])) /\ RowsOwned

LEMMA AuditStandsStill ==
  ASSUME AuditInv, UNCHANGED <<audit, decision>>,
         \A c \in Calls : SameResult(call[c], call'[c])
  PROVE  AuditInv'
  BY DEF AuditInv, AuditTold, RowsOwned, SameResult

\* A step of c that neither decides nor writes an event.
LEMMA TellsNothing ==
  ASSUME AuditInv, UNCHANGED <<audit, decision>>, NEW c \in Calls,
         \A b \in Calls \ {c} : call'[b] = call[b],
         call[c].pc \notin {"returned", "refused", "thrown"},
         call'[c].pc # "refused",
         call'[c].pc = "returned" => call'[c].outcome = Null,
         call[c].pc = "decide" => call'[c].pc = "thrown"
  PROVE  AuditInv'
<1>1. audit[c] = <<>>
  BY DEF AuditInv, AuditTold
<1>2. \A b \in Calls : AuditTold(call[b], audit[b])'
  BY <1>1 DEF AuditInv, AuditTold
<1>3. RowsOwned'
  <2>1. \A d \in DecisionCodes : decision[d].call = c => call'[c].pc = "thrown"
    BY DEF AuditInv, RowsOwned
  <2> QED
    BY <2>1 DEF AuditInv, RowsOwned
<1> QED
  BY <1>2, <1>3 DEF AuditInv

LEMMA CreateTold ==
  ASSUME IInv, AuditInv, NEW c \in Calls, CreateDecision(c) PROVE AuditInv'
<1> DEFINE d == call[c].dcode
<1>0. call \in [Calls -> CallType] /\ call[c].pc = "createDecision" /\ d \in DecisionCodes
  BY DEF IInv, TypeOK, CreateDecision, At, CallsEstablished, Established, InputsOf
<1>1. CASE DecisionCodeFree(d)
  <2>1. call'[c].pc = "decide" /\ \A b \in Calls \ {c} : call'[b] = call[b]
    BY <1>0, <1>1, GotoShape DEF CreateDecision
  <2>2. /\ decision'[d].status = "draft" /\ decision'[d].call = c
        /\ \A e \in DecisionCodes \ {d} : decision'[e] = decision[e]
        /\ audit' = audit
    BY <1>0, <1>1 DEF CreateDecision, IInv, TypeOK
  <2>3. decision[d].call = Null /\ Null \notin Calls
    BY <1>0, <1>1, NullAssumption DEF DecisionCodeFree, AuditInv, RowsOwned
  <2>4. \A b \in Calls : AuditTold(call[b], audit[b])'
    BY <1>0, <2>1, <2>2 DEF AuditInv, AuditTold
  <2>5. RowsOwned'
    <3>1. ASSUME NEW e \in DecisionCodes
          PROVE  /\ decision'[e].status = "none" => decision'[e].call = Null
                 /\ \A b \in Calls : decision'[e].call = b =>
                      call'[b].pc \in {"decide", "returned", "thrown"}
      BY <2>1, <2>2 DEF AuditInv, RowsOwned
    <3>2. ASSUME NEW b \in Calls, call'[b].pc = "returned", call'[b].outcome # Null
          PROVE  \E e \in DecisionCodes : decision'[e].call = b /\ decision'[e].status \in Decided
      <4>1. b # c /\ call'[b] = call[b]
        BY <2>1, <3>2
      <4>2. PICK e \in DecisionCodes : decision[e].call = b /\ decision[e].status \in Decided
        BY <3>2, <4>1 DEF AuditInv, RowsOwned
      <4>3. e # d
        BY <2>3, <4>2
      <4> QED
        BY <2>2, <4>2, <4>3
    <3> QED
      BY <3>1, <3>2 DEF RowsOwned
  <2> QED
    BY <2>4, <2>5 DEF AuditInv
<1>2. CASE ~DecisionCodeFree(d)
  <2>1. /\ call'[c].pc = "thrown" /\ \A b \in Calls \ {c} : call'[b] = call[b]
        /\ UNCHANGED <<audit, decision>>
    BY <1>0, <1>2, PcShape DEF CreateDecision, End
  <2> QED
    BY <1>0, <2>1, TellsNothing
<1> QED
  BY <1>1, <1>2

LEMMA DecideTold ==
  ASSUME IInv, AuditInv, NEW c \in Calls, Decide(c) PROVE AuditInv'
<1> DEFINE d == call[c].dcode
           o == call[c].outcome
<1>0. /\ call \in [Calls -> CallType] /\ call[c].pc = "decide" /\ d \in DecisionCodes
      /\ o \in Outcomes /\ decision[d].call = c /\ audit[c] = <<>>
      /\ audit \in [Calls -> Seq(Decided \cup {"denied", "blocked"})]
  BY DEF IInv, TypeOK, CallType, Decide, At, CallsEstablished, Established, InputsOf,
         DecisionsTied, AuditInv, AuditTold
<1>1. /\ call'[c].pc = "returned" /\ call'[c].outcome = o
      /\ \A b \in Calls \ {c} : call'[b] = call[b]
  BY <1>0, GotoShape DEF Decide, SameInputs
<1>2. o # Null /\ DecidedStatus(o) \in Decided
  BY <1>0, NullAssumption DEF Outcomes, DecidedStatus, Decided, Approving
<1>3. /\ decision'[d].status = DecidedStatus(o) /\ decision'[d].call = c
      /\ \A e \in DecisionCodes \ {d} : decision'[e] = decision[e]
  BY <1>0 DEF Decide, IInv, TypeOK, DecisionType
<1>4. audit' = [audit EXCEPT ![c] = Append(audit[c], DecidedStatus(o))]
  BY DEF Decide, AuditWithDecision, EventFor
<1>5. audit'[c] = <<DecidedStatus(o)>> /\ \A b \in Calls \ {c} : audit'[b] = audit[b]
  <2>1. Append(<<>>, DecidedStatus(o)) = <<DecidedStatus(o)>>
    OBVIOUS
  <2> QED
    BY <1>0, <1>4, <2>1
<1>6. \A b \in Calls : AuditTold(call[b], audit[b])'
  <2>1. AuditTold(call[c], audit[c])'
    BY <1>1, <1>2, <1>5 DEF AuditTold
  <2>2. \A b \in Calls \ {c} : AuditTold(call[b], audit[b])'
    BY <1>1, <1>5 DEF AuditInv, AuditTold
  <2> QED
    BY <2>1, <2>2
<1>7. RowsOwned'
  <2>1. \A e \in DecisionCodes :
          /\ decision'[e].status = "none" => decision'[e].call = Null
          /\ \A b \in Calls : decision'[e].call = b =>
               call'[b].pc \in {"decide", "returned", "thrown"}
    BY <1>1, <1>2, <1>3 DEF AuditInv, RowsOwned, Decided, Approving
  <2>2. ASSUME NEW b \in Calls, call'[b].pc = "returned", call'[b].outcome # Null
        PROVE  \E e \in DecisionCodes : decision'[e].call = b /\ decision'[e].status \in Decided
    <3>1. CASE b = c
      BY <1>0, <1>2, <1>3, <3>1
    <3>2. CASE b # c
      <4>1. PICK e \in DecisionCodes : decision[e].call = b /\ decision[e].status \in Decided
        BY <1>1, <2>2, <3>2 DEF AuditInv, RowsOwned
      <4> QED
        BY <1>0, <1>3, <3>2, <4>1
    <3> QED
      BY <3>1, <3>2
  <2> QED
    BY <2>1, <2>2 DEF RowsOwned
<1> QED
  BY <1>6, <1>7 DEF AuditInv

LEMMA RefusalTold ==
  ASSUME IInv, AuditInv, NEW c \in Calls, AuditRefusal(c) PROVE AuditInv'
<1>0. /\ call \in [Calls -> CallType] /\ call[c].pc = "auditRefusal"
      /\ call[c].refusal \in {"denied", "blocked"} /\ audit[c] = <<>>
      /\ audit \in [Calls -> Seq(Decided \cup {"denied", "blocked"})]
  BY DEF IInv, TypeOK, CallType, AuditRefusal, At, CallsEstablished, Established, InputsOf,
         AuditInv, AuditTold
<1>1. /\ call'[c].pc = "refused" /\ decision' = decision
      /\ \A b \in Calls \ {c} : call'[b] = call[b]
  BY <1>0, PcShape DEF AuditRefusal, End
<1>2. /\ audit'[c] \in {<<>>, <<"denied">>, <<"blocked">>}
      /\ \A b \in Calls \ {c} : audit'[b] = audit[b]
  <2>1. Append(<<>>, "denied") = <<"denied">> /\ Append(<<>>, "blocked") = <<"blocked">>
    OBVIOUS
  <2>2. \/ audit' = audit
        \/ audit' = [audit EXCEPT ![c] = Append(<<>>, call[c].refusal)]
    BY <1>0 DEF AuditRefusal
  <2> QED
    BY <1>0, <2>1, <2>2
<1>3. \A b \in Calls : AuditTold(call[b], audit[b])'
  BY <1>1, <1>2 DEF AuditInv, AuditTold
<1>4. \A d \in DecisionCodes : decision[d].call # c
  BY <1>0 DEF AuditInv, RowsOwned
<1>5. RowsOwned'
  BY <1>1, <1>4 DEF AuditInv, RowsOwned
<1> QED
  BY <1>3, <1>5 DEF AuditInv

\* The other steps of a call.
LEMMA QuietSteps ==
  ASSUME IInv, AuditInv, NEW c \in Calls, Advance(c) \/ NoteExpiryFails(c),
         ~CreateDecision(c), ~Decide(c), ~AuditRefusal(c)
  PROVE  AuditInv'
<1>0. call \in [Calls -> CallType] /\ InputsOf(call[c])
  BY DEF IInv, TypeOK, CallsEstablished, Established
<1>1. \A b \in Calls \ {c} : call'[b] = call[b]
  BY <1>0, StepShape
<1>2. /\ UNCHANGED <<audit, decision>>
      /\ call[c].pc \in {"findActiveForUser", "assertOwner", "getLatestVersion", "noteExpiry",
                         "expiryInsert", "getRole", "gate"}
  BY DEF Advance, FindActiveForUser, AssertOwnerAuthorityStillProven,
     GetLatestVersionWithClock, NoteExpiry, RecordExpiry, NoteExpiryFails,
     GetRoleAndEvaluate, AssessGate, ReadOnly, At
<1>3. /\ call'[c].pc # "refused"
      /\ call'[c].pc = "returned" => call'[c].outcome = Null
  <2>1. CASE FindActiveForUser(c) \/ AssertOwnerAuthorityStillProven(c) \/ AssessGate(c)
    <3>1. call'[c].pc \in {"assertOwner", "getLatestVersion", "auditRefusal", "createDecision"}
      BY <1>0, <2>1, PcShape, Zenon
         DEF FindActiveForUser, AssertOwnerAuthorityStillProven, AssessGate
    <3> QED
      BY <3>1
  <2>2. CASE NoteExpiry(c) \/ RecordExpiry(c) \/ NoteExpiryFails(c)
    <3>1. CASE Goto(c, "expiryInsert")
      <4>1. call'[c].pc = "expiryInsert"
        BY <1>0, <3>1, PcShape
      <4> QED
        BY <4>1
    <3>2. CASE Goto(c, AfterFacts(c))
      <4>1. /\ call'[c].pc = IF call[c].outcome = Null THEN "returned" ELSE "getRole"
            /\ call'[c].outcome = call[c].outcome
        BY <1>0, <3>2, AfterFactsShape DEF SameInputs
      <4> QED
        BY <4>1
    <3> QED
      BY <2>2, <3>1, <3>2 DEF NoteExpiry, RecordExpiry, NoteExpiryFails
  <2>3. CASE GetLatestVersionWithClock(c)
    BY <1>0, <2>3 DEF GetLatestVersionWithClock, AfterFacts, CallType
  <2>4. CASE GetRoleAndEvaluate(c)
    BY <1>0, <2>4 DEF GetRoleAndEvaluate, CallType
  <2> QED
    BY <2>1, <2>2, <2>3, <2>4 DEF Advance
<1> QED
  BY <1>1, <1>2, <1>3, TellsNothing

LEMMA NextTold == IInv /\ AuditInv /\ [Next]_vars => AuditInv'
<1> SUFFICES ASSUME IInv, AuditInv, [Next]_vars PROVE AuditInv'
  OBVIOUS
<1>0. call \in [Calls -> CallType] /\ \A b \in Calls : call[b] \in CallType
  BY DEF IInv, TypeOK
<1>1. CASE Environment \/ Reviewing \/ Administration \/ UNCHANGED vars
  <2>1. UNCHANGED <<audit, decision>> /\ \A c \in Calls : SameResult(call[c], call'[c])
    BY <1>0, <1>1 DEF Environment, Tick, ChangeTwin, ChangeOwnership, Reviewing,
       CreateReviewPackage, CreateReviewVersion, StartReview, Administration,
       GrantApproverAuthority, RevokeApproverAuthority, BootstrapRead, BootstrapGrant,
       vars, SameResult, CallType
  <2> QED
    BY <2>1, AuditStandsStill
<1>2. ASSUME NEW c \in Calls, Submit(c) \/ (\E r \in Reviews : BeginStatus(c, r))
      PROVE  AuditInv'
  <2>1. /\ UNCHANGED <<audit, decision>> /\ call[c].pc = "idle"
        /\ call'[c].pc \in {"findActiveForUser", "auditRefusal", "getLatestVersion"}
        /\ \A b \in Calls \ {c} : call'[b] = call[b]
    <3>1. CASE Submit(c)
      BY <1>0, <3>1 DEF Submit, BeginSubmit, ReadOnly, At, IdleCall
    <3>2. CASE \E r \in Reviews : BeginStatus(c, r)
      BY <1>0, <3>2 DEF BeginStatus, ReadOnly, At, IdleCall
    <3> QED
      BY <1>2, <3>1, <3>2
  <2> QED
    BY <2>1, TellsNothing
<1>3. ASSUME NEW c \in Calls, Throw(c) PROVE AuditInv'
  <2>1. /\ UNCHANGED <<audit, decision>> /\ call[c].pc \in InFlight
        /\ call'[c].pc = "thrown"
        /\ \A b \in Calls \ {c} : call'[b] = call[b]
    BY <1>0, <1>3, PcShape DEF Throw, End
  <2> QED
    BY <2>1, TellsNothing DEF InFlight
<1>4. CASE Serving
  BY <1>2, <1>3, <1>4, QuietSteps, CreateTold, DecideTold, RefusalTold DEF Serving
<1> QED
  BY <1>1, <1>4 DEF Next

LEMMA InitTold == Init => AuditInv
  BY NullAssumption
     DEF Init, AuditInv, AuditTold, RowsOwned, IdleCall, NoDecision

\* The audit trail and the decisions agree, whatever fails between the two
\* transactions of a decision: a call has the event of a decision exactly if its
\* own decision stands, and a refused call has decided nothing.
\* (AuditMatchesDecisions)
THEOREM AuditAgrees == Spec => []AuditMatchesDecisions
<1>1. IInv /\ AuditInv => AuditMatchesDecisions
  <2> SUFFICES ASSUME IInv, AuditInv, NEW c \in Calls
               PROVE  /\ \A d \in DecisionCodes :
                           decision[d].call = c /\ decision[d].status \in Decided =>
                             audit[c] = <<decision[d].status>>
                      /\ {d \in DecisionCodes : decision[d].call = c
                             /\ decision[d].status \in Decided} = {}
                           => audit[c] \in {<<>>, <<"denied">>, <<"blocked">>}
                      /\ call[c].pc = "refused" => \A d \in DecisionCodes : decision[d].call # c
    BY DEF AuditMatchesDecisions
  <2>1. ASSUME NEW d \in DecisionCodes, decision[d].call = c, decision[d].status \in Decided
        PROVE  audit[c] = <<decision[d].status>>
    <3>1. /\ call[c].pc = "returned" /\ call[c].outcome # Null
          /\ decision[d].status = DecidedStatus(call[c].outcome)
      BY <2>1 DEF IInv, DecisionsTied, CallOf
    <3> QED
      BY <3>1 DEF AuditInv, AuditTold
  <2>2. ASSUME \A d \in DecisionCodes : ~(decision[d].call = c /\ decision[d].status \in Decided)
        PROVE  audit[c] \in {<<>>, <<"denied">>, <<"blocked">>}
    <3>1. ~(call[c].pc = "returned" /\ call[c].outcome # Null)
      BY <2>2 DEF AuditInv, RowsOwned
    <3> QED
      BY <3>1 DEF AuditInv, AuditTold
  <2>3. call[c].pc = "refused" => \A d \in DecisionCodes : decision[d].call # c
    BY DEF AuditInv, RowsOwned
  <2> QED
    BY <2>1, <2>2, <2>3
<1> QED
  BY <1>1, InitTold, NextTold, Invariance, PTL DEF Spec

-----------------------------------------------------------------------------
(* A decision that is created and not decided.                              *)

LEMMA EndedStays ==
  ASSUME TypeOK, [Next]_vars, NEW b \in Calls, call[b].pc \in Ended
  PROVE  call'[b].pc = call[b].pc
<1>0. call \in [Calls -> CallType] /\ call[b] \in CallType
  BY DEF TypeOK
<1>1. CASE Environment \/ Reviewing \/ Administration \/ UNCHANGED vars
  BY <1>0, <1>1 DEF Environment, Tick, ChangeTwin, ChangeOwnership, Reviewing,
     CreateReviewPackage, CreateReviewVersion, StartReview, Administration,
     GrantApproverAuthority, RevokeApproverAuthority, BootstrapRead, BootstrapGrant,
     vars, CallType
<1>2. ASSUME NEW c \in Calls, Submit(c) \/ (\E r \in Reviews : BeginStatus(c, r)) \/ Throw(c)
      PROVE  call'[b] = call[b]
  BY <1>0, <1>2 DEF Submit, BeginSubmit, BeginStatus, Throw, At, End, Ended, InFlight
<1>3. ASSUME NEW c \in Calls, Advance(c) \/ NoteExpiryFails(c) PROVE call'[b] = call[b]
  <2>1. call[c].pc \in InFlight
    BY <1>3 DEF Advance, FindActiveForUser, AssertOwnerAuthorityStillProven,
       GetLatestVersionWithClock, NoteExpiry, RecordExpiry, NoteExpiryFails,
       GetRoleAndEvaluate, AssessGate, CreateDecision, Decide, AuditRefusal, At, InFlight
  <2>2. b # c
    BY <2>1 DEF InFlight, Ended
  <2> QED
    BY <1>0, <1>3, <2>2, StepShape
<1> QED
  BY <1>1, <1>2, <1>3 DEF Next, Serving

\* Its code holds a draft, and its call is past deciding.
Lost(d) ==
    /\ decision[d].status = "draft"
    /\ call[decision[d].call].pc # "decide"

LEMMA LostStays ==
  ASSUME IInv, AuditInv, [Next]_vars, NEW d \in DecisionCodes, Lost(d)
  PROVE  Lost(d)' /\ decision'[d] = decision[d]
<1>1. decision[d].call \in Calls
  BY DEF IInv, DecisionsTied, Lost
<1>2. call[decision[d].call].pc \in Ended
  BY <1>1 DEF AuditInv, RowsOwned, Lost, Ended
<1>3. call'[decision[d].call].pc = call[decision[d].call].pc
  BY <1>1, <1>2, EndedStays DEF IInv
<1>4. decision'[d] = decision[d]
  <2>1. CASE Environment \/ Reviewing \/ Administration \/ UNCHANGED vars
    BY <2>1 DEF Environment, Tick, ChangeTwin, ChangeOwnership, Reviewing,
       CreateReviewPackage, CreateReviewVersion, StartReview, Administration,
       GrantApproverAuthority, RevokeApproverAuthority, BootstrapRead, BootstrapGrant, vars
  <2>2. ASSUME NEW c \in Calls, Submit(c) \/ (\E r \in Reviews : BeginStatus(c, r)) \/ Throw(c)
        PROVE  decision' = decision
    BY <2>2 DEF Submit, BeginSubmit, BeginStatus, Throw, ReadOnly
  <2>3. ASSUME NEW c \in Calls, CreateDecision(c) PROVE decision'[d] = decision[d]
    BY <2>3 DEF CreateDecision, DecisionCodeFree, Lost, IInv, TypeOK
  <2>4. ASSUME NEW c \in Calls, Decide(c) PROVE decision'[d] = decision[d]
    <3>1. call[c].dcode # d
      BY <2>4 DEF Decide, At, IInv, DecisionsTied, Lost
    <3> QED
      BY <2>4, <3>1 DEF Decide, IInv, TypeOK
  <2>5. ASSUME NEW c \in Calls, Advance(c) \/ NoteExpiryFails(c), ~CreateDecision(c), ~Decide(c)
        PROVE  decision' = decision
    BY <2>5 DEF Advance, FindActiveForUser, AssertOwnerAuthorityStillProven,
       GetLatestVersionWithClock, NoteExpiry, RecordExpiry, NoteExpiryFails,
       GetRoleAndEvaluate, AssessGate, AuditRefusal, ReadOnly
  <2> QED
    BY <2>1, <2>2, <2>3, <2>4, <2>5 DEF Next, Serving
<1> QED
  BY <1>3, <1>4 DEF Lost

\* A decision whose call ends between createDecision and decide stays a draft for
\* ever: nobody completes it, and a retry under its code is not taken either, for the
\* code is used (UNIQUE (business_id, decision_code); DecisionRepository.createDecision).
THEOREM DraftIsLost ==
  Spec => [][\A d \in DecisionCodes : Lost(d) => Lost(d)' /\ decision'[d] = decision[d]]_vars
<1>1. IInv /\ AuditInv /\ [Next]_vars =>
        [\A d \in DecisionCodes : Lost(d) => Lost(d)' /\ decision'[d] = decision[d]]_vars
  BY LostStays
<1>2. IInv /\ AuditInv /\ [Next]_vars => AuditInv'
  BY NextTold
<1> QED
  BY <1>1, <1>2, InitTold, Invariance, PTL DEF Spec

=============================================================================
