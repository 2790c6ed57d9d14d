------------------------------ MODULE Onboarding ------------------------------
(***************************************************************************)
(* The onboarding wizard of one tenant: OnboardingService over the progress *)
(* row of onboarding.tenant_onboarding and the rows its steps create.       *)
(*                                                                         *)
(* A call is a process and every transaction of it an action.  A progress   *)
(* row is selected without a lock and updated by its id whatever it holds   *)
(* by then (recordStep), which takes two actions.  All calls are those of   *)
(* the user who began the onboarding: setBusiness and assignOwner refuse    *)
(* every other user at once.                                                *)
(*                                                                         *)
(* Besides the calls an administrator may grant or revoke the owner's       *)
(* assignment.  Memberships, roles and businesses are changed by the wizard *)
(* alone: nothing else in the repository suspends, revokes or closes them.  *)
(***************************************************************************)
EXTENDS Integers

CONSTANTS
    Calls,        \* calls of the service
    Codes,        \* business codes callers choose; a code stands for its business
    Administered, \* codes whose approvers an administrator changes (a bound)
    Null,
    MaxCrashes    \* bound on calls cut off between two transactions

Ops == {"setBusiness", "assignOwner", "applyDefaultSettings", "inviteTeamMembers",
        "completeOnboarding", "abandonOnboarding"}

ASSUME OnboardingAssumption ==
    /\ Null \notin Codes \cup Ops
    /\ Administered \subseteq Codes
    /\ MaxCrashes \in Nat

VARIABLES
    progress,    \* the row of onboarding.tenant_onboarding
    businesses,  \* codes in platform.businesses
    membership,  \* the initiator's row of tenancy.memberships
    ownerRole,   \* whether that membership holds the owner role
    settings,    \* whether the tenant's default settings are stored
    invited,     \* whether the team has pending invitations
    authority,   \* Codes -> the business-owner-approver assignment of the business
    call,        \* Calls -> the call; when idle, the last answer if it was an owner's
    crashes      \* calls cut off so far

vars == <<progress, businesses, membership, ownerRole, settings, invited, authority,
          call, crashes>>

rows == <<progress, businesses, membership, ownerRole, settings, invited, authority>>

Steps == {"workspace_created", "business_created", "owner_assigned",
          "settings_applied", "invitations_sent", "completed"}

\* The place of a step in STEP_ORDER.
Rank(step) ==
    CASE step = "workspace_created" -> 1
      [] step = "business_created"  -> 2
      [] step = "owner_assigned"    -> 3
      [] step = "settings_applied"  -> 4
      [] step = "invitations_sent"  -> 5
      [] step = "completed"         -> 6

\* The step a call records.
Target(op) ==
    CASE op = "setBusiness"          -> "business_created"
      [] op = "assignOwner"          -> "owner_assigned"
      [] op = "applyDefaultSettings" -> "settings_applied"
      [] op = "inviteTeamMembers"    -> "invitations_sent"
      [] OTHER                       -> "completed"

Idle == [pc |-> "idle", op |-> Null, business |-> Null, result |-> "none"]

\* beginOnboarding has created the tenant, its workspace and the row.
Init ==
    /\ progress = [status |-> "in_progress", step |-> "workspace_created",
                   completed |-> {"workspace_created"}, business |-> Null, member |-> FALSE]
    /\ businesses = {}
    /\ membership = "none"
    /\ ownerRole = FALSE
    /\ settings = FALSE
    /\ invited = FALSE
    /\ authority = [b \in Codes |-> "none"]
    /\ call = [c \in Calls |-> Idle]
    /\ crashes = 0

At(c, op, pc) == call[c].op = op /\ call[c].pc = pc

Goto(c, pc)    == call' = [call EXCEPT ![c].pc = pc]
End(c)         == call' = [call EXCEPT ![c] = Idle]

\* An assignOwner call answers for the business it came to.
Answer(c) == call' = [call EXCEPT ![c] = [@ EXCEPT !.pc = "idle", !.result = "done"]]

\* assignOwner goes on to the authority of the business its row names, if any.
Bootstrap(c, row) ==
    IF row.business = Null
    THEN Answer(c)
    ELSE call' = [call EXCEPT ![c] = [@ EXCEPT !.pc = "evidence", !.business = row.business]]

\* How a call goes on once the row holds its step.
Recorded(c, row) ==
    IF call[c].op = "assignOwner" THEN Bootstrap(c, row) ELSE End(c)

-----------------------------------------------------------------------------
(* A call begins.                                                           *)

FirstPc(op) ==
    CASE op \in {"setBusiness", "assignOwner"} -> "load"
      [] op = "applyDefaultSettings"           -> "apply"
      [] op = "inviteTeamMembers"              -> "list"
      [] OTHER                                 -> "check"

Begin(c, op, code) ==
    /\ call[c].pc = "idle"
    /\ op = "setBusiness" <=> code # Null
    /\ call' = [call EXCEPT ![c] = [pc |-> FirstPc(op), op |-> op, business |-> code, result |-> "none"]]
    /\ UNCHANGED <<rows, crashes>>

Request(c) == \E op \in Ops, code \in Codes \cup {Null} : Begin(c, op, code)

-----------------------------------------------------------------------------
(* setBusiness.                                                             *)

LoadForBusiness(c) ==
    /\ At(c, "setBusiness", "load")
    /\ IF progress.business # Null THEN End(c) ELSE Goto(c, "create")
    /\ UNCHANGED <<rows, crashes>>

CreateBusiness(c) ==
    /\ At(c, "setBusiness", "create")
    /\ \/ /\ call[c].business \in businesses
          /\ End(c)
          /\ UNCHANGED businesses
       \/ /\ call[c].business \notin businesses
          /\ businesses' = businesses \cup {call[c].business}
          /\ Goto(c, "check")
    /\ UNCHANGED <<progress, membership, ownerRole, settings, invited, authority, crashes>>

-----------------------------------------------------------------------------
(* assignOwner.                                                             *)

\* A retry answers with the recorded membership and no more (mutant of LoadForOwner).
LoadForOwnerOnce(c) ==
    /\ At(c, "assignOwner", "load")
    /\ IF progress.member
       THEN call' = [call EXCEPT ![c] = [@ EXCEPT !.pc = "idle", !.business = progress.business, !.result = "done"]]
       ELSE Goto(c, "create")
    /\ UNCHANGED <<rows, crashes>>

LoadForOwner(c) ==
    /\ At(c, "assignOwner", "load")
    /\ IF progress.member THEN Bootstrap(c, progress) ELSE Goto(c, "create")
    /\ UNCHANGED <<rows, crashes>>

CreateMembership(c) ==
    /\ At(c, "assignOwner", "create")
    /\ \/ /\ membership # "none"
          /\ End(c)
          /\ UNCHANGED membership
       \/ /\ membership = "none"
          /\ membership' = "invited"
          /\ Goto(c, "activate")
    /\ UNCHANGED <<progress, businesses, ownerRole, settings, invited, authority, crashes>>

ActivateMembership(c) ==
    /\ At(c, "assignOwner", "activate")
    /\ membership' = "active"
    /\ Goto(c, "role")
    /\ UNCHANGED <<progress, businesses, ownerRole, settings, invited, authority, crashes>>

AssignRole(c) ==
    /\ At(c, "assignOwner", "role")
    /\ ownerRole' = TRUE
    /\ Goto(c, "check")
    /\ UNCHANGED <<progress, businesses, membership, settings, invited, authority, crashes>>

\* The onboarding record proves the business and its active owner (classifyOwnership).
Proven(business) ==
    progress.business = business /\ progress.member /\ membership = "active" /\ ownerRole

\* Businesses with an assignment under the owner's code, whoever holds it and even
\* when it is revoked: the code is unique per business and rows are never deleted.
Assigned == {b \in Codes : authority[b] # "none"}

\* An assignment that exists is left alone: already-assigned, previously-revoked and
\* held-by-other are answers like any other.
LoadEvidence(c) ==
    /\ At(c, "assignOwner", "evidence")
    /\ IF call[c].business \notin Assigned /\ Proven(call[c].business)
       THEN Goto(c, "grant")
       ELSE Answer(c)
    /\ UNCHANGED <<rows, crashes>>

\* The assignment is written whatever the code holds by now (mutant of Grant).
GrantOver(c) ==
    /\ At(c, "assignOwner", "grant")
    /\ authority' = [authority EXCEPT ![call[c].business] = "active"]
    /\ Answer(c)
    /\ UNCHANGED <<progress, businesses, membership, ownerRole, settings, invited, crashes>>

\* A code that was taken meanwhile is answered with the assignment that holds it.
Grant(c) ==
    /\ At(c, "assignOwner", "grant")
    /\ authority' = [authority EXCEPT ![call[c].business] = IF @ = "none" THEN "active" ELSE @]
    /\ Answer(c)
    /\ UNCHANGED <<progress, businesses, membership, ownerRole, settings, invited, crashes>>

-----------------------------------------------------------------------------
(* applyDefaultSettings and inviteTeamMembers, up to their record.          *)

ApplySettings(c) ==
    /\ At(c, "applyDefaultSettings", "apply")
    /\ settings' = TRUE
    /\ Goto(c, "check")
    /\ UNCHANGED <<progress, businesses, membership, ownerRole, invited, authority, crashes>>

\* An address that is already invited is an error (mutant of ListPending).
ListPendingStrict(c) ==
    /\ At(c, "inviteTeamMembers", "list")
    /\ IF invited THEN End(c) ELSE Goto(c, "invite")
    /\ UNCHANGED <<rows, crashes>>

\* The caller may give no address, and only addresses that wait for no answer yet.
ListPending(c) ==
    /\ At(c, "inviteTeamMembers", "list")
    /\ \/ Goto(c, "check")
       \/ ~invited /\ Goto(c, "invite")
    /\ UNCHANGED <<rows, crashes>>

Invite(c) ==
    /\ At(c, "inviteTeamMembers", "invite")
    /\ invited' = TRUE
    /\ Goto(c, "check")
    /\ UNCHANGED <<progress, businesses, membership, ownerRole, settings, authority, crashes>>

-----------------------------------------------------------------------------
(* recordStep, markCompleted and markAbandoned: the row is judged, then     *)
(* written.                                                                 *)

\* The order is only checked backwards (mutant of Transition).
TransitionUnordered(row, target) ==
    IF Rank(target) <= Rank(row.step) THEN "idempotent" ELSE "advance"

\* checkStepTransition
Transition(row, target) ==
    CASE Rank(target) <= Rank(row.step)    -> "idempotent"
      [] Rank(target) = Rank(row.step) + 1 -> "advance"
      [] OTHER                             -> "order error"

Judgement(op) ==
    CASE op = "completeOnboarding" ->
           CASE progress.status = "completed"       -> "idempotent"
             [] progress.status = "in_progress"
                /\ progress.step = "invitations_sent" -> "advance"
             [] OTHER                               -> "refuse"
      [] op = "abandonOnboarding" ->
           IF progress.status = "in_progress" THEN "advance" ELSE "refuse"
      [] OTHER ->
           IF progress.status = "in_progress"
           THEN Transition(progress, Target(op)) ELSE "refuse"

Check(c) ==
    /\ call[c].pc = "check"
    /\ LET judgement == Judgement(call[c].op)
       IN  CASE judgement = "advance"    -> Goto(c, "write")
             [] judgement = "idempotent" -> Recorded(c, progress)
             [] OTHER                    -> End(c)
    /\ UNCHANGED <<rows, crashes>>

\* The wrong column is written (mutant of Abandoned).
AbandonedStep(row) == [row EXCEPT !.step = "abandoned"]

Abandoned(row) == [row EXCEPT !.status = "abandoned"]

\* The columns a step assigns: every other one keeps what it holds by now.
Updated(op, business) ==
    LET step == Target(op)
        next == [progress EXCEPT !.step = step, !.completed = @ \cup {step}]
    IN  CASE op = "abandonOnboarding"  -> Abandoned(progress)
          [] op = "completeOnboarding" -> [next EXCEPT !.status = "completed"]
          [] op = "setBusiness"        -> [next EXCEPT !.business = business]
          [] op = "assignOwner"        -> [next EXCEPT !.member = TRUE]
          [] OTHER                     -> next

Write(c) ==
    /\ call[c].pc = "write"
    /\ progress' = Updated(call[c].op, call[c].business)
    /\ Recorded(c, progress')
    /\ UNCHANGED <<businesses, membership, ownerRole, settings, invited, authority, crashes>>

-----------------------------------------------------------------------------
(* The process dies between two transactions of a call.                     *)
Cut(c) ==
    /\ call[c].pc # "idle"
    /\ crashes < MaxCrashes
    /\ crashes' = crashes + 1
    /\ call' = [call EXCEPT ![c] = Idle]
    /\ UNCHANGED rows

-----------------------------------------------------------------------------
(* A member who holds aba:admin, which the owner role brings, administers    *)
(* the assignment of a business besides the wizard.                         *)

GrantApprover(business, holder) ==
    /\ business \notin Assigned
    /\ authority' = [authority EXCEPT ![business] = holder]

RevokeApprover(business) ==
    /\ authority[business] \in {"active", "other"}
    /\ authority' = [authority EXCEPT ![business] = "revoked"]

Administer(business) ==
    /\ membership = "active" /\ ownerRole
    /\ business \in businesses
    /\ \/ \E holder \in {"active", "other"} : GrantApprover(business, holder)
       \/ RevokeApprover(business)
    /\ UNCHANGED <<progress, businesses, membership, ownerRole, settings, invited, call, crashes>>

-----------------------------------------------------------------------------
Advance(c) ==
    \/ LoadForBusiness(c) \/ CreateBusiness(c)
    \/ LoadForOwner(c) \/ CreateMembership(c) \/ ActivateMembership(c) \/ AssignRole(c)
    \/ LoadEvidence(c) \/ Grant(c)
    \/ ApplySettings(c) \/ ListPending(c) \/ Invite(c)
    \/ Check(c) \/ Write(c)

Next ==
    \/ \E c \in Calls : Request(c) \/ Advance(c) \/ Cut(c)
    \/ \E b \in Administered : Administer(b)

Spec == Init /\ [][Next]_vars

\* What the wizard asks for next, by the step resumeOnboarding answers.
Asked ==
    CASE progress.step = "workspace_created" -> "setBusiness"
      [] progress.step = "business_created"  -> "assignOwner"
      [] progress.step = "owner_assigned"    -> "applyDefaultSettings"
      [] progress.step = "settings_applied"  -> "inviteTeamMembers"
      [] OTHER                               -> "completeOnboarding"

GoOn ==
    /\ progress.status = "in_progress"
    /\ \E c \in Calls, code \in (Codes \ businesses) \cup {Null} : Begin(c, Asked, code)

\* Calls that run go on, and a caller who comes back again and again goes on with
\* the wizard where it stands.
FairSpec == Spec /\ (\A c \in Calls : WF_vars(Advance(c))) /\ SF_vars(GoOn)

-----------------------------------------------------------------------------
(* Properties.                                                              *)

TypeOK ==
    /\ progress \in [status : {"in_progress", "completed", "abandoned"}, step : Steps,
                     completed : SUBSET Steps, business : Codes \cup {Null}, member : BOOLEAN]
    /\ businesses \subseteq Codes
    /\ membership \in {"none", "invited", "active"}
    /\ ownerRole \in BOOLEAN
    /\ settings \in BOOLEAN
    /\ invited \in BOOLEAN
    /\ authority \in [Codes -> {"none", "active", "other", "revoked"}]
    /\ call \in [Calls -> [pc : {"idle", "load", "create", "activate", "role", "apply", "list",
                                 "invite", "check", "write", "evidence", "grant"},
                           op : Ops \cup {Null}, business : Codes \cup {Null},
                           result : {"none", "done"}]]
    /\ crashes \in 0..MaxCrashes

\* An onboarding that is completed has been through every step and has what they
\* make: its business, an active owner and the settings, however late calls set
\* its current step back (recordStep updates what another call has advanced).
CompletionIsEarned ==
    "completed" \in progress.completed =>
      /\ progress.completed = Steps
      /\ progress.business \in businesses
      /\ progress.member /\ membership = "active" /\ ownerRole
      /\ settings

\* An assignOwner call that answers has left its business with an assignment under
\* the owner's code, also when it completes what an interrupted one began, unless a
\* late setBusiness has put another business in its place.
Authorized ==
    \A c \in Calls :
      call[c].op = "assignOwner" /\ call[c].result = "done" =>
        \/ call[c].business \in Assigned
        \/ call[c].business \in businesses \ {progress.business}

\* That assignment is the initiator's own unless an administrator gave it to somebody
\* else or revoked it, and what the administrator did is final: no call that has seen
\* the code free takes it back (OwnerAuthorityBootstrap tests, :72 and :133).
OwnerIsAuthorized ==
    /\ []Authorized
    /\ [][\A b \in Assigned : authority'[b] \in {authority[b], "revoked"}]_vars

\* A membership that the row does not name is refused to every later assignOwner;
\* a row set back behind the owner step names one, so assignOwner records nothing.
Stranded ==
    \/ membership # "none" /\ ~progress.member
    \/ progress.member /\ progress.step = "business_created"

\* A caller who keeps coming back brings the wizard to an end, in whatever order
\* and however often calls are made and cut off, except in those two states.
WizardEnds == <>(progress.status # "in_progress") \/ <>[]Stranded
=============================================================================
