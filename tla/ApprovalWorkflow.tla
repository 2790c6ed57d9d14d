-------------------------- MODULE ApprovalWorkflow --------------------------
(***************************************************************************)
(* The approval workflow of one business: DecisionWorkflowService and the  *)
(* repositories it calls (reviews, approver assignments, decisions, audit) *)
(* together with the bootstrap of the owner's authority at onboarding.     *)
(*                                                                         *)
(* Every repository method is one READ COMMITTED transaction, so a call of *)
(* the service is a sequence of atomic steps between which any other call, *)
(* administrator or clock tick may run.  A call is a process of its own    *)
(* (Calls), with a program counter and the values it has read so far.      *)
(***************************************************************************)
EXTENDS Integers, Sequences

CONSTANTS
    Users,              \* principals of the tenant
    Calls,              \* service calls that may be in flight
    Reviews,            \* review packages, one per review code
    AssignmentCodes,    \* approver assignment codes
    OwnerCode,          \* 'business-owner-approver'
    DecisionCodes,      \* caller-chosen decision codes
    RequestedOutcomes,  \* the outcomes callers ask for
    GrantRoles,         \* the roles administrators grant
    Twins,              \* twin snapshots, numbered by effective_at
    FactsSpace,         \* the facts ADI may have published
    Null,               \* SQL NULL
    NoFacts,            \* a review package without a version
    MaxTime             \* bound on the database clock

RiskClasses      == {"low", "medium", "high", "critical"}
Refusals         == {"denied", "blocked"}
Outcomes         == {"approve", "approve_with_modifications", "reject"}
TierOf           == [r \in {"cashier", "manager", "approver", "business-owner"} |->
                       CASE r = "cashier" -> 1
                         [] r \in {"manager", "approver"} -> 2
                         [] r = "business-owner" -> 3]
MinimumTier      == [k \in RiskClasses |->
                       CASE k = "low" -> 1
                         [] k = "medium" -> 2
                         [] k \in {"high", "critical"} -> 3]

FactsType == [risk          : RiskClasses \cup {Null},
              timeSensitive : {"yes", "no", "unknown"},
              validUntil    : Nat \cup {Null},
              twin          : Nat \cup {Null}]

ASSUME ConstantsAssumption ==
    /\ OwnerCode \in AssignmentCodes
    /\ RequestedOutcomes \subseteq Outcomes
    /\ GrantRoles \subseteq DOMAIN TierOf
    /\ Twins \subseteq Nat
    /\ FactsSpace \subseteq FactsType
    /\ MaxTime \in Nat

ASSUME NullAssumption ==
    /\ Null \notin Nat \cup RiskClasses \cup Outcomes \cup Refusals \cup Calls \cup Users
    /\ NoFacts \notin FactsSpace

VARIABLES
    clock,         \* the database clock, now()
    review,        \* Reviews -> package status and the facts of its version
    assignment,    \* AssignmentCodes -> the assignment row, its role and grant source
    owners,        \* users the ownership evidence currently proves to own the business
    boot,          \* Users -> state of their onboarding bootstrap
    snapshot,      \* Twins -> the standing of the twin snapshot
    decision,      \* DecisionCodes -> the decision row
    expiryEvents,  \* Reviews -> number of approval.expired events
    expiryLock,    \* Reviews -> holder of the advisory lock of the version
    audit,         \* Calls -> the approval audit events the call wrote
    call           \* Calls -> program counter, input and values read

vars == <<clock, review, assignment, owners, boot, snapshot, decision,
          expiryEvents, expiryLock, audit, call>>

authVars == <<assignment, owners, boot>>
auditVars == <<expiryEvents, expiryLock>>

\* The twin layer, in the form TwinSnapshot implements.
Catalogue == INSTANCE TwinCatalog WITH Snapshots <- Twins, standing <- snapshot

Published == {t \in Twins : snapshot[t] = "published"}

\* The snapshots assessFreshness counts as published.
Counted == {t \in Twins : snapshot[t] \in {"published", "superseded"}}

-----------------------------------------------------------------------------
(* Pure decision logic: approvalRiskPolicy.ts and approvalGate.ts.          *)

ApproverTier(role) == IF role \in DOMAIN TierOf THEN TierOf[role] ELSE 0

\* An unclassified risk is treated as low (mutant of RequiredTier).
RequiredTierLow(risk) == MinimumTier[IF risk \in RiskClasses THEN risk ELSE "low"]

RequiredTier(risk) == MinimumTier[IF risk \in RiskClasses THEN risk ELSE "high"]

RiskOf(facts) == IF facts = NoFacts THEN Null ELSE facts.risk

\* evaluateApproval: rejecting is always allowed, approving needs the tier.
PolicyAllows(facts, role, outcome) ==
    outcome = "reject" \/ ApproverTier(role) >= RequiredTier(RiskOf(facts))

\* valid_until is present and not after t (Null is never after or before).
Expired(facts, t) ==
    facts # NoFacts /\ facts.validUntil # Null /\ facts.validUntil <= t

\* A snapshot is usable in whatever state it is (mutant of Usable).
UsableAny(twin, counted) == twin \in Twins

\* assessFreshness of a snapshot id, given the snapshots that count.
Usable(twin, counted) == twin \in counted
NewerIn(twin, counted) == \E u \in counted : u > twin

\* Unknown time-sensitivity is read as "not sensitive" (mutant of GateCodes).
GateCodesUnknownIsFalse(facts, now, counted) ==
    IF facts = NoFacts THEN {"REVIEW_FACTS_MISSING"}
    ELSE {k \in {"EXPIRED", "TIME_SENSITIVE_WITHOUT_VALIDITY", "UNVERIFIABLE", "STALE"} :
            \/ k = "EXPIRED" /\ Expired(facts, now)
            \/ k = "TIME_SENSITIVE_WITHOUT_VALIDITY"
                 /\ facts.timeSensitive = "yes" /\ facts.validUntil = Null
            \/ k = "UNVERIFIABLE" /\ facts.twin # Null /\ ~Usable(facts.twin, counted)
            \/ k = "STALE" /\ facts.twin # Null /\ Usable(facts.twin, counted)
                 /\ NewerIn(facts.twin, counted)}

\* The codes evaluateApprovalGate collects; the approval is allowed when none.
GateCodes(facts, now, counted) ==
    IF facts = NoFacts THEN {"REVIEW_FACTS_MISSING"}
    ELSE {k \in {"EXPIRED", "TIME_SENSITIVITY_UNKNOWN",
                 "TIME_SENSITIVE_WITHOUT_VALIDITY", "UNVERIFIABLE", "STALE"} :
            \/ k = "EXPIRED" /\ Expired(facts, now)
            \/ k = "TIME_SENSITIVITY_UNKNOWN" /\ facts.timeSensitive = "unknown"
            \/ k = "TIME_SENSITIVE_WITHOUT_VALIDITY"
                 /\ facts.timeSensitive = "yes" /\ facts.validUntil = Null
            \/ k = "UNVERIFIABLE" /\ facts.twin # Null /\ ~Usable(facts.twin, counted)
            \/ k = "STALE" /\ facts.twin # Null /\ Usable(facts.twin, counted)
                 /\ NewerIn(facts.twin, counted)}

\* The requested outcome is stored as it came (mutant of DecidedStatus).
DecidedStatusRaw(outcome) == outcome

DecidedStatus(outcome) ==
    CASE outcome = "approve"                    -> "approved"
      [] outcome = "approve_with_modifications" -> "approved_with_modifications"
      [] outcome = "reject"                     -> "rejected"

Approving == {"approved", "approved_with_modifications"}
Decided   == Approving \cup {"rejected"}

\* auditEventTypeFor; the event of a decision is named after its new status.
EventFor(outcome) == DecidedStatus(outcome)

-----------------------------------------------------------------------------
NoReview     == [status |-> "none", facts |-> NoFacts]
NoAssignment == [status |-> "none", user |-> Null, role |-> Null, source |-> Null]
NoDecision   == [status |-> "none", call |-> Null]

(* "begun", "counted" and "proven" are history: the state of the world when *)
(* the call started, the snapshots that have counted since, and whether its *)
(* user was a proven owner at any moment since.  A status read is a call    *)
(* without a requested outcome.                                             *)
IdleCall == [pc |-> "idle", user |-> Null, code |-> Null, outcome |-> Null,
             review |-> Null, dcode |-> Null,
             facts |-> NoFacts, now |-> 0, role |-> Null, refusal |-> Null,
             begun |-> [now |-> 0, revoked |-> {}, published |-> {}],
             counted |-> {}, proven |-> FALSE]

Ended    == {"returned", "refused", "thrown"}
InFlight == {"findActiveForUser", "assertOwner", "getLatestVersion", "noteExpiry",
             "expiryInsert", "getRole", "gate", "createDecision", "decide",
             "auditRefusal"}

Init ==
    /\ clock = 0
    /\ review = [r \in Reviews |-> NoReview]
    /\ assignment = [k \in AssignmentCodes |-> NoAssignment]
    /\ owners \in SUBSET Users
    /\ boot = [u \in Users |-> "idle"]
    /\ Catalogue!Init
    /\ decision = [d \in DecisionCodes |-> NoDecision]
    /\ expiryEvents = [r \in Reviews |-> 0]
    /\ expiryLock = [r \in Reviews |-> Null]
    /\ audit = [c \in Calls |-> <<>>]
    /\ call = [c \in Calls |-> IdleCall]

-----------------------------------------------------------------------------
(* The environment: the clock, the twin layer and the memberships.          *)

Tick ==
    /\ clock < MaxTime
    /\ clock' = clock + 1
    /\ UNCHANGED <<review, authVars, snapshot, decision, auditVars, audit, call>>

\* A snapshot is published, superseded or validated again.
ChangeTwin(t) ==
    /\ Catalogue!Change(t)
    /\ call' = [c \in Calls |->
                  [call[c] EXCEPT !.counted =
                     IF call[c].pc \in InFlight THEN @ \cup Counted' ELSE @]]
    /\ UNCHANGED <<clock, review, authVars, decision, auditVars, audit>>

\* A membership is activated, suspended, removed or given the owner role.
ChangeOwnership(u) ==
    /\ owners' = IF u \in owners THEN owners \ {u} ELSE owners \cup {u}
    /\ call' = [c \in Calls |->
                  [call[c] EXCEPT !.proven = @ \/ call[c].user \in owners']]
    /\ UNCHANGED <<clock, review, assignment, boot, snapshot, decision,
                   auditVars, audit>>

-----------------------------------------------------------------------------
(* createReview: three transactions; a crash leaves what has committed.     *)

CreateReviewPackage(r) ==
    /\ review[r].status = "none"
    /\ review' = [review EXCEPT ![r].status = "draft"]
    /\ UNCHANGED <<clock, authVars, snapshot, decision, auditVars, audit, call>>

\* resolvePublishedSnapshot, then createVersion with what it returned.
CreateReviewVersion(r) ==
    /\ review[r].status = "draft"
    /\ review[r].facts = NoFacts
    /\ \E f \in FactsSpace : review' = [review EXCEPT ![r].facts = f]
    /\ UNCHANGED <<clock, authVars, snapshot, decision, auditVars, audit, call>>

StartReview(r) ==
    /\ review[r].status = "draft"
    /\ review[r].facts # NoFacts
    /\ review' = [review EXCEPT ![r].status = "in_review"]
    /\ UNCHANGED <<clock, authVars, snapshot, decision, auditVars, audit, call>>

-----------------------------------------------------------------------------
(* Approval authority.                                                      *)

\* A revoked code is granted again (mutant of CodeIsFree).
CodeIsFreeAfterRevocation(k) == assignment[k].status # "active"

\* UNIQUE (business_id, assignment_code): a code is used once, for ever.
CodeIsFree(k) == assignment[k].status = "none"

GrantActiveAssignment(k, u, role, source) ==
    assignment' = [assignment EXCEPT ![k] =
        [status |-> "active", user |-> u, role |-> role, source |-> source]]

\* grantApproverAuthority; when the code exists nothing is written.
GrantApproverAuthority(k, u, role) ==
    /\ CodeIsFree(k)
    /\ GrantActiveAssignment(k, u, role, "manual-admin")
    /\ UNCHANGED <<clock, review, owners, boot, snapshot, decision, auditVars,
                   audit, call>>

\* revokeApproverAuthority of an active assignment; otherwise a no-op.
RevokeApproverAuthority(k) ==
    /\ assignment[k].status = "active"
    /\ assignment' = [assignment EXCEPT ![k].status = "revoked"]
    /\ UNCHANGED <<clock, review, owners, boot, snapshot, decision, auditVars,
                   audit, call>>

\* bootstrapForBusiness, first transaction: the evidence proves exactly this
\* principal and no assignment holds the code yet.
BootstrapRead(u) ==
    /\ boot[u] = "idle"
    /\ owners = {u}
    /\ assignment[OwnerCode].status = "none"
    /\ boot' = [boot EXCEPT ![u] = "eligible"]
    /\ UNCHANGED <<clock, review, assignment, owners, snapshot, decision,
                   auditVars, audit, call>>

\* Second transaction: the insert, or nothing when the code is taken by now.
BootstrapGrant(u) ==
    /\ boot[u] = "eligible"
    /\ boot' = [boot EXCEPT ![u] = "idle"]
    /\ IF CodeIsFree(OwnerCode)
       THEN GrantActiveAssignment(OwnerCode, u, "business-owner", "onboarding")
       ELSE UNCHANGED assignment
    /\ UNCHANGED <<clock, review, owners, snapshot, decision, auditVars, audit,
                   call>>

-----------------------------------------------------------------------------
(* Service calls.                                                           *)

RevokedCodes == {k \in AssignmentCodes : assignment[k].status = "revoked"}

At(c, pc) == call[c].pc = pc

Goto(c, pc) == call' = [call EXCEPT ![c].pc = pc]

\* The call ends without a decision, and what it had read is gone.
End(c, pc) == call' = [call EXCEPT ![c] = [IdleCall EXCEPT !.pc = pc]]

Refuse(c, why) == call' = [call EXCEPT ![c].pc = "auditRefusal", ![c].refusal = why]

\* A transaction that only reads: nothing but the call's own record changes.
ReadOnly == UNCHANGED <<clock, review, authVars, snapshot, decision, auditVars, audit>>

\* submitApprovalDecision; a request naming another approver is refused first.
BeginSubmit(c, u, k, o, r, d) ==
    /\ At(c, "idle")
    /\ review[r].status # "none"
    /\ \E pc \in {"findActiveForUser", "auditRefusal"} :
         call' = [call EXCEPT ![c] =
           [IdleCall EXCEPT
              !.pc = pc, !.user = u, !.code = k, !.outcome = o, !.review = r,
              !.dcode = d,
              !.refusal = IF pc = "auditRefusal" THEN "denied" ELSE Null,
              !.begun = [now |-> clock, revoked |-> RevokedCodes,
                         published |-> Published],
              !.counted = Counted,
              !.proven = u \in owners]]
    /\ ReadOnly

\* getReviewApprovalStatus of an existing package.
BeginStatus(c, r) ==
    /\ At(c, "idle")
    /\ review[r].status # "none"
    /\ call' = [call EXCEPT ![c] =
         [IdleCall EXCEPT !.pc = "getLatestVersion", !.review = r]]
    /\ ReadOnly

\* Any assignment of the user will do, active or not (mutant of HoldsActive).
HoldsAny(k, u) == assignment[k].user = u

HoldsActive(k, u) == assignment[k].status = "active" /\ assignment[k].user = u

FindActiveForUser(c) ==
    /\ At(c, "findActiveForUser")
    /\ IF HoldsActive(call[c].code, call[c].user)
       THEN Goto(c, "assertOwner")
       ELSE Refuse(c, "denied")
    /\ ReadOnly

\* The ownership of an onboarding grant is not looked at again (mutant).
OwnerStillProvenTrusted(k, u) == TRUE

OwnerStillProven(k, u) ==
    k = OwnerCode /\ assignment[k].source # "manual-admin" => u \in owners

AssertOwnerAuthorityStillProven(c) ==
    /\ At(c, "assertOwner")
    /\ IF OwnerStillProven(call[c].code, call[c].user)
       THEN Goto(c, "getLatestVersion")
       ELSE Refuse(c, "denied")
    /\ ReadOnly

\* What follows the facts when they are not (or no longer being) audited.
AfterFacts(c) == IF call[c].outcome = Null THEN "returned" ELSE "getRole"

GetLatestVersionWithClock(c) ==
    /\ At(c, "getLatestVersion")
    /\ LET f == review[call[c].review].facts
       IN  call' = [call EXCEPT ![c].facts = f, ![c].now = clock,
                      ![c].pc = IF Expired(f, clock) THEN "noteExpiry" ELSE AfterFacts(c)]
    /\ ReadOnly

\* The advisory lock is not taken (mutant of LockFree).
LockIgnored(r) == TRUE

LockFree(r) == expiryLock[r] = Null

\* recordExpiryDetected, up to the look for an earlier event; it holds the
\* version's advisory lock until it commits.
NoteExpiry(c) ==
    LET r == call[c].review IN
    /\ At(c, "noteExpiry")
    /\ LockFree(r)
    /\ IF expiryEvents[r] > 0 \/ ~Expired(review[r].facts, clock)
       THEN Goto(c, AfterFacts(c)) /\ UNCHANGED expiryLock
       ELSE Goto(c, "expiryInsert") /\ expiryLock' = [expiryLock EXCEPT ![r] = c]
    /\ UNCHANGED <<clock, review, authVars, snapshot, decision, expiryEvents, audit>>

RecordExpiry(c) ==
    LET r == call[c].review IN
    /\ At(c, "expiryInsert")
    /\ expiryEvents' = [expiryEvents EXCEPT ![r] = @ + 1]
    /\ expiryLock' = [expiryLock EXCEPT ![r] = Null]
    /\ Goto(c, AfterFacts(c))
    /\ UNCHANGED <<clock, review, authVars, snapshot, decision, audit>>

\* noteExpiry swallows a failed audit write: the call goes on without it.
NoteExpiryFails(c) ==
    LET r == call[c].review IN
    /\ call[c].pc \in {"noteExpiry", "expiryInsert"}
    /\ expiryLock' = [expiryLock EXCEPT ![r] = IF @ = c THEN Null ELSE @]
    /\ Goto(c, AfterFacts(c))
    /\ UNCHANGED <<clock, review, authVars, snapshot, decision, expiryEvents, audit>>

\* getCurrentRoleCode and evaluateApproval.
GetRoleAndEvaluate(c) ==
    LET role == assignment[call[c].code].role
        o    == call[c].outcome
    IN
    /\ At(c, "getRole")
    /\ IF PolicyAllows(call[c].facts, role, o)
       THEN call' = [call EXCEPT ![c].role = role,
                       ![c].pc = IF o = "reject" THEN "createDecision" ELSE "gate"]
       ELSE call' = [call EXCEPT ![c].role = role, ![c].pc = "auditRefusal",
                       ![c].refusal = "denied"]
    /\ ReadOnly

\* assessFreshness and evaluateApprovalGate, judged on the clock read earlier.
AssessGate(c) ==
    /\ At(c, "gate")
    /\ IF GateCodes(call[c].facts, call[c].now, Counted) = {}
       THEN Goto(c, "createDecision")
       ELSE Refuse(c, "blocked")
    /\ ReadOnly

\* A decision that is still a draft is taken over (mutant of DecisionCodeFree).
DraftCodeFree(d) == decision[d].status \in {"none", "draft"}

\* UNIQUE (business_id, decision_code).
DecisionCodeFree(d) == decision[d].status = "none"

\* createDecision; a duplicate decision code is a unique violation that the
\* service neither maps nor audits.
CreateDecision(c) ==
    LET d == call[c].dcode IN
    /\ At(c, "createDecision")
    /\ IF DecisionCodeFree(d)
       THEN /\ decision' = [decision EXCEPT ![d] = [status |-> "draft", call |-> c]]
            /\ Goto(c, "decide")
       ELSE End(c, "thrown") /\ UNCHANGED decision
    /\ UNCHANGED <<clock, review, authVars, snapshot, auditVars, audit>>

\* The event is appended in a transaction of its own that may fail (mutant).
AuditWithDecisionBestEffort(c) ==
    \/ audit' = [audit EXCEPT ![c] = Append(@, EventFor(call[c].outcome))]
    \/ UNCHANGED audit

AuditWithDecision(c) ==
    audit' = [audit EXCEPT ![c] = Append(@, EventFor(call[c].outcome))]

\* approve / approveWithModifications / reject: status and audit event together.
Decide(c) ==
    LET d == call[c].dcode IN
    /\ At(c, "decide")
    /\ decision[d].status \notin Decided
    /\ decision' = [decision EXCEPT ![d].status = DecidedStatus(call[c].outcome)]
    /\ AuditWithDecision(c)
    /\ Goto(c, "returned")
    /\ UNCHANGED <<clock, review, authVars, snapshot, auditVars>>

\* auditRefusal is best effort: the refusal stands whether or not it is written.
AuditRefusal(c) ==
    /\ At(c, "auditRefusal")
    /\ \/ audit' = [audit EXCEPT ![c] = Append(@, call[c].refusal)]
       \/ UNCHANGED audit
    /\ End(c, "refused")
    /\ UNCHANGED <<clock, review, authVars, snapshot, decision, auditVars>>

\* The dead session keeps its advisory lock (mutant of ReleaseLocks).
KeepLocks(c) == UNCHANGED expiryLock

\* The transaction of a dead session is rolled back and its lock released.
ReleaseLocks(c) ==
    expiryLock' = [r \in Reviews |-> IF expiryLock[r] = c THEN Null ELSE expiryLock[r]]

\* The process dies, or a transaction fails for reasons of its own.
Throw(c) ==
    /\ call[c].pc \in InFlight
    /\ End(c, "thrown")
    /\ ReleaseLocks(c)
    /\ UNCHANGED <<clock, review, authVars, snapshot, decision, expiryEvents, audit>>

Advance(c) ==
    \/ FindActiveForUser(c)
    \/ AssertOwnerAuthorityStillProven(c)
    \/ GetLatestVersionWithClock(c)
    \/ NoteExpiry(c)
    \/ RecordExpiry(c)
    \/ GetRoleAndEvaluate(c)
    \/ AssessGate(c)
    \/ CreateDecision(c)
    \/ Decide(c)
    \/ AuditRefusal(c)

Submit(c) ==
    \E u \in Users, k \in AssignmentCodes, o \in RequestedOutcomes,
       r \in Reviews, d \in DecisionCodes : BeginSubmit(c, u, k, o, r, d)

Environment ==
    \/ Tick
    \/ \E t \in Twins : ChangeTwin(t)
    \/ \E u \in Users : ChangeOwnership(u)

Reviewing ==
    \E r \in Reviews : CreateReviewPackage(r) \/ CreateReviewVersion(r) \/ StartReview(r)

Administration ==
    \/ \E k \in AssignmentCodes, u \in Users, role \in GrantRoles :
         GrantApproverAuthority(k, u, role)
    \/ \E k \in AssignmentCodes : RevokeApproverAuthority(k)
    \/ \E u \in Users : BootstrapRead(u) \/ BootstrapGrant(u)

Serving ==
    \E c \in Calls :
      \/ Submit(c)
      \/ \E r \in Reviews : BeginStatus(c, r)
      \/ Advance(c)
      \/ NoteExpiryFails(c)
      \/ Throw(c)

Next == Environment \/ Reviewing \/ Administration \/ Serving

Spec == Init /\ [][Next]_vars

\* A running process takes its next step; nothing forces calls to be made, the
\* clock to advance or anything to fail.
Fairness == \A c \in Calls : WF_vars(Advance(c))

FairSpec == Spec /\ Fairness

-----------------------------------------------------------------------------
(* Type invariant.                                                          *)

ReviewType == [status : {"none", "draft", "in_review"}, facts : FactsSpace \cup {NoFacts}]

AssignmentType ==
    [status : {"none", "active", "revoked"}, user : Users \cup {Null},
     role : DOMAIN TierOf \cup {Null}, source : {"manual-admin", "onboarding", Null}]

DecisionType == [status : {"none", "draft"} \cup Decided, call : Calls \cup {Null}]

CallType ==
    [pc : {"idle"} \cup InFlight \cup Ended, user : Users \cup {Null}, code : AssignmentCodes \cup {Null},
     outcome : Outcomes \cup {Null}, review : Reviews \cup {Null},
     dcode : DecisionCodes \cup {Null}, facts : FactsSpace \cup {NoFacts},
     now : Nat, role : DOMAIN TierOf \cup {Null},
     refusal : {"denied", "blocked", Null},
     begun : [now : Nat, revoked : SUBSET AssignmentCodes, published : SUBSET Twins],
     counted : SUBSET Twins, proven : BOOLEAN]

\* Every variable stays within the values its column or local may hold.
TypeOK ==
    /\ clock \in Nat
    /\ review \in [Reviews -> ReviewType]
    /\ assignment \in [AssignmentCodes -> AssignmentType]
    /\ owners \in SUBSET Users
    /\ boot \in [Users -> {"idle", "eligible"}]
    /\ snapshot \in [Twins -> Catalogue!Standings]
    /\ decision \in [DecisionCodes -> DecisionType]
    /\ expiryEvents \in [Reviews -> Nat]
    /\ expiryLock \in [Reviews -> Calls \cup {Null}]
    /\ audit \in [Calls -> Seq(Decided \cup {"denied", "blocked"})]
    /\ call \in [Calls -> CallType]

-----------------------------------------------------------------------------
(* What a decision rests on.                                                *)

CallOf(d) == call[decision[d].call]
FactsOf(d) == review[CallOf(d).review].facts

\* The roles whose holders may approve a recommendation of this risk class.
RolesFor(risk) ==
    CASE risk = "low"    -> {"cashier", "manager", "approver", "business-owner"}
      [] risk = "medium" -> {"manager", "approver", "business-owner"}
      [] OTHER           -> {"business-owner"}

\* A decision that approves is for a review that has persisted facts, and the
\* role held under its assignment code is one that may approve the persisted
\* risk, the owner's alone when the risk is high, critical or unclassified: the
\* facts and the role were read by separate transactions, before the decision
\* was written (decideApproval).
ApprovalRespectsRisk ==
    \A d \in DecisionCodes : decision[d].status \in Approving =>
        /\ FactsOf(d) # NoFacts
        /\ assignment[CallOf(d).code].role \in RolesFor(FactsOf(d).risk)

\* An approved recommendation has a known time-sensitivity, carries a validity
\* when it is time-sensitive and was not already expired when the call began.
\* Its twin snapshot counted, as published or as superseded, at some moment of
\* the call, and no newer one had been published when the call began, whatever
\* is published, superseded or validated again while the call runs
\* (evaluateApprovalGate over reads of separate transactions).
ApprovalRestsOnValidFacts ==
    \A d \in DecisionCodes : decision[d].status \in Approving =>
        LET f == FactsOf(d)
            b == CallOf(d).begun
        IN  /\ f.timeSensitive # "unknown"
            /\ f.timeSensitive = "yes" => f.validUntil # Null
            /\ ~Expired(f, b.now)
            /\ f.twin # Null =>
                 f.twin \in CallOf(d).counted /\ ~NewerIn(f.twin, b.published)

\* Nobody decides by an assignment that is another user's or that had been
\* revoked before the call began, nor by an owner authority issued at
\* onboarding without being a proven owner at some moment of the call, however
\* grants, revocations and the bootstrap interleave (findActiveForUser,
\* assertOwnerAuthorityStillProven, grantActiveAssignment).
DecisionRestsOnAuthority ==
    \A d \in DecisionCodes : decision[d].status \in Decided =>
        LET c == CallOf(d)
            a == assignment[c.code]
        IN  /\ a.user = c.user
            /\ c.code \notin c.begun.revoked
            /\ c.code = OwnerCode /\ a.source = "onboarding" => c.proven

\* The audit trail tells what happened: a call has an event of a decision if
\* and only if its own decision is in that state, a refused call decided
\* nothing, and no call leaves two events (decide, auditRefusal).
AuditMatchesDecisions ==
    \A c \in Calls :
        LET mine == {d \in DecisionCodes :
                       decision[d].call = c /\ decision[d].status \in Decided}
        IN  /\ \A d \in mine : audit[c] = <<decision[d].status>>
            /\ mine = {} => audit[c] \in {<<>>, <<"denied">>, <<"blocked">>}
            /\ call[c].pc = "refused" => \A d \in DecisionCodes : decision[d].call # c

\* However many attempts and status reads detect the expiry of a review
\* version at once, one approval.expired event is recorded, and only when the
\* version has expired (recordExpiryDetected).
ExpiryRecordedOnce ==
    \A r \in Reviews :
        /\ expiryEvents[r] <= 1
        /\ expiryEvents[r] = 1 => Expired(review[r].facts, clock)

\* An assignment code is never handed to another holder, role or source and
\* never becomes active again once revoked: the bootstrap neither overwrites a
\* grant nor re-grants after a revocation that slipped in after it read.
AuthorityIsFinal ==
    [][\A k \in AssignmentCodes : assignment[k].status # "none" =>
         /\ assignment'[k] = [assignment[k] EXCEPT !.status = assignment'[k].status]
         /\ assignment'[k].status \in {assignment[k].status, "revoked"}]_vars

\* A decision code belongs to the call that created it, and a decided status
\* never changes, whatever later calls with the same code do.
DecisionIsFinal ==
    [][\A d \in DecisionCodes : decision[d].status # "none" =>
         /\ decision'[d].call = decision[d].call
         /\ decision[d].status \in Decided => decision'[d] = decision[d]]_vars

\* Every call that starts ends, in a result, a refusal or an error: nobody waits
\* for ever on the advisory lock of a version, even when its holder dies.
CallsEnd ==
    \A c \in Calls : (call[c].pc \in InFlight) ~> (call[c].pc \in Ended)
=============================================================================
