-------------------------- MODULE Onboarding_proofs --------------------------
(* Theorems about Onboarding, for every value of its constants.             *)
EXTENDS Onboarding, TLAPS

CallType ==
    [pc : {"idle", "load", "create", "activate", "role", "apply", "list", "invite",
           "check", "write", "evidence", "grant"},
     op : Ops \cup {Null}, business : Codes \cup {Null}, result : {"none", "done"}]

Recording(c) == call[c].pc \in {"check", "write"}

\* The row has what its completed steps make, and no step without those before it.
RowSound ==
    /\ progress.step \in progress.completed
    /\ \A s \in progress.completed, t \in Steps : Rank(t) <= Rank(s) => t \in progress.completed
    /\ "business_created" \in progress.completed => progress.business \in businesses
    /\ progress.business \in businesses \cup {Null}
    /\ "owner_assigned" \in progress.completed <=> progress.member
    /\ progress.member => membership = "active" /\ ownerRole
    /\ "settings_applied" \in progress.completed => settings

\* A call that is about to record a step has made what the step stands for, and
\* every step before it has been recorded.
CallSound(c) ==
    /\ call[c].pc # "idle" => call[c].op \in Ops /\ call[c].result = "none"
    /\ call[c].op \notin {"setBusiness", "assignOwner"} => call[c].business = Null
    /\ call[c].op = "setBusiness" =>
         call[c].business # Null /\ (Recording(c) => call[c].business \in businesses)
    /\ call[c].op = "applyDefaultSettings" /\ Recording(c) => settings
    /\ call[c].pc = "write" /\ call[c].op # "abandonOnboarding" =>
         \A t \in Steps : Rank(t) < Rank(Target(call[c].op)) => t \in progress.completed
    /\ call[c].op = "assignOwner" => call[c].business \in businesses \cup {Null}
    /\ call[c].op = "assignOwner" /\ call[c].pc \in {"activate", "role", "check", "write"} =>
         membership # "none"
    /\ call[c].op = "assignOwner" /\ (call[c].pc = "role" \/ Recording(c)) => membership = "active"
    /\ call[c].op = "assignOwner" /\ Recording(c) => ownerRole
    /\ call[c].pc \in {"evidence", "grant"} =>
         /\ call[c].op = "assignOwner"
         /\ call[c].business \in businesses
         /\ progress.member

\* The business that a call is about to record is nobody else's yet.
Apart(c) ==
    call[c].op = "setBusiness" /\ Recording(c) =>
      /\ progress.business # call[c].business
      /\ \A d \in Calls \ {c} :
           call[d].business = call[c].business => call[d].op = "setBusiness" /\ ~Recording(d)

Inv ==
    /\ TypeOK
    /\ RowSound
    /\ \A c \in Calls : CallSound(c)
    /\ \A c \in Calls : Apart(c)
    /\ Authorized

-----------------------------------------------------------------------------

LEMMA Ranks ==
    /\ Rank("workspace_created") = 1 /\ Rank("business_created") = 2
    /\ Rank("owner_assigned") = 3    /\ Rank("settings_applied") = 4
    /\ Rank("invitations_sent") = 5  /\ Rank("completed") = 6
BY DEF Rank

LEMMA Targets ==
    /\ Target("setBusiness") = "business_created"
    /\ Target("assignOwner") = "owner_assigned"
    /\ Target("applyDefaultSettings") = "settings_applied"
    /\ Target("inviteTeamMembers") = "invitations_sent"
    /\ Target("completeOnboarding") = "completed"
    /\ Target("abandonOnboarding") = "completed"
BY DEF Target

LEMMA InitInv == Init => Inv
<1> SUFFICES ASSUME Init PROVE Inv
  OBVIOUS
<1>1. TypeOK
  <2>1. Idle \in CallType
    BY DEF Idle, CallType
  <2>2. 0 \in 0..MaxCrashes
    BY OnboardingAssumption
  <2> QED
    BY <2>1, <2>2 DEF Init, TypeOK, Steps, CallType
<1>2. RowSound
  BY Ranks DEF Init, RowSound, Steps
<1>3. ASSUME NEW c \in Calls PROVE CallSound(c) /\ Apart(c)
  <2>1. call[c] = Idle
    BY DEF Init
  <2> QED
    BY <2>1, OnboardingAssumption DEF Ops, CallSound, Apart, Idle, Recording
<1>4. Authorized
  BY DEF Init, Authorized, Idle
<1> QED
  BY <1>1, <1>2, <1>3, <1>4 DEF Inv

-----------------------------------------------------------------------------
(* Steps of one call.                                                       *)

\* What calls rely on is never taken back.
Grown ==
    /\ progress.completed \subseteq progress'.completed
    /\ progress.member => progress'.member
    /\ businesses \subseteq businesses'
    /\ membership # "none" => membership' # "none"
    /\ membership = "active" => membership' = "active"
    /\ ownerRole => ownerRole'
    /\ settings => settings'
    /\ Assigned \subseteq Assigned'

\* The calls that are not moved are as sound as before.
LEMMA CallKept ==
  ASSUME NEW d \in Calls, CallSound(d), call'[d] = call[d], Grown
  PROVE  CallSound(d)'
BY DEF CallSound, Recording, Grown

LEMMA RowsKept ==
  ASSUME UNCHANGED rows
  PROVE  Grown /\ (RowSound => RowSound')
BY DEF rows, Grown, RowSound, Assigned

\* A call takes over no business that another one is about to record.
Takes(c, new) ==
    \/ new.business = Null /\ new.op # "setBusiness"
    \/ new.business = progress.business /\ new.op # "setBusiness"
    \/ new.op = "setBusiness" /\ new.pc \notin {"check", "write"}
    \/ /\ new.business = call[c].business
       /\ new.op = call[c].op
       /\ new.op = "setBusiness" => Recording(c)

LEMMA ApartKept ==
  ASSUME Inv, NEW c \in Calls, NEW new \in CallType, call' = [call EXCEPT ![c] = new],
         progress'.business = progress.business, Takes(c, new)
  PROVE  \A d \in Calls : Apart(d)'
<1> SUFFICES ASSUME NEW d \in Calls, call'[d].op = "setBusiness", Recording(d)'
             PROVE  /\ progress.business # call'[d].business
                    /\ \A e \in Calls \ {d} :
                         call'[e].business = call'[d].business =>
                           call'[e].op = "setBusiness" /\ ~Recording(e)'
  BY DEF Apart
<1>1. /\ call'[c] = new
      /\ \A e \in Calls \ {c} : call'[e] = call[e]
  BY DEF Inv, TypeOK
<1>2. Recording(d) /\ call[d].op = "setBusiness" /\ call'[d].business = call[d].business
  BY <1>1 DEF Recording, Takes
<1>3. Apart(d) /\ call[d].business # Null
  BY <1>2 DEF Inv, CallSound
<1>4. progress.business # call[d].business
  BY <1>2, <1>3 DEF Apart
<1>5. ASSUME NEW e \in Calls \ {d}, call'[e].business = call[d].business
      PROVE  call'[e].op = "setBusiness" /\ ~Recording(e)'
  <2>1. CASE e # c
    BY <1>1, <1>2, <1>3, <1>5, <2>1 DEF Apart, Recording
  <2>2. CASE e = c
    <3>1. CASE new.op = "setBusiness" /\ new.pc \notin {"check", "write"}
      BY <1>1, <2>2, <3>1 DEF Recording
    <3>2. CASE /\ new.business = call[c].business
               /\ new.op = call[c].op
               /\ new.op = "setBusiness" => Recording(c)
      BY <1>1, <1>2, <1>3, <1>5, <2>2, <3>2 DEF Apart, Recording
    <3> QED
      BY <1>1, <1>3, <1>4, <1>5, <2>2, <3>1, <3>2 DEF Takes
  <2> QED
    BY <2>1, <2>2
<1> QED
  BY <1>2, <1>4, <1>5

\* Whoever has been answered stays authorized.
LEMMA AuthorizedKept ==
  ASSUME Inv, NEW c \in Calls, NEW new \in CallType, call' = [call EXCEPT ![c] = new],
         progress'.business = progress.business, businesses \subseteq businesses',
         Assigned \subseteq Assigned',
         new.op = "assignOwner" /\ new.result = "done" =>
           new.business \in Assigned' \/ new.business \in businesses' \ {progress.business}
  PROVE  Authorized'
<1> SUFFICES ASSUME NEW d \in Calls, call'[d].op = "assignOwner", call'[d].result = "done"
             PROVE  call'[d].business \in Assigned'
                      \/ call'[d].business \in businesses' \ {progress.business}
  BY DEF Authorized
<1>1. CASE d = c
  BY <1>1 DEF Inv, TypeOK
<1>2. CASE d # c
  BY <1>2 DEF Inv, TypeOK, Authorized
<1> QED
  BY <1>1, <1>2

\* The invariant after a step that sets no other business on the row.
LEMMA CallStep ==
  ASSUME Inv, NEW c \in Calls, NEW new \in CallType, call' = [call EXCEPT ![c] = new],
         TypeOK', Grown, RowSound', CallSound(c)', Takes(c, new),
         progress'.business = progress.business,
         new.op = "assignOwner" /\ new.result = "done" =>
           new.business \in Assigned' \/ new.business \in businesses' \ {progress.business}
  PROVE  Inv'
<1>1. \A d \in Calls : CallSound(d)'
  <2> SUFFICES ASSUME NEW d \in Calls PROVE CallSound(d)'
    OBVIOUS
  <2>1. CASE d = c
    BY <2>1
  <2>2. CASE d # c
    BY <2>2, CallKept DEF Inv, TypeOK
  <2> QED
    BY <2>1, <2>2
<1>2. \A d \in Calls : Apart(d)'
  BY ApartKept
<1>3. Authorized'
  BY AuthorizedKept DEF Grown
<1> QED
  BY <1>1, <1>2, <1>3 DEF Inv

\* A step that changes no row.
LEMMA CallOnlyStep ==
  ASSUME Inv, NEW c \in Calls, NEW new \in CallType, call' = [call EXCEPT ![c] = new],
         UNCHANGED <<rows, crashes>>, CallSound(c)', Takes(c, new),
         new.op = "assignOwner" /\ new.result = "done" =>
           new.business \in Assigned \/ new.business \in businesses \ {progress.business}
  PROVE  Inv'
<1>1. TypeOK'
  BY DEF Inv, TypeOK, CallType, rows
<1>2. Grown /\ RowSound'
  BY RowsKept DEF Inv
<1>3. Assigned \subseteq Assigned' /\ businesses' = businesses /\ progress' = progress
  BY <1>2 DEF Grown, rows
<1> QED
  BY <1>1, <1>2, <1>3, CallStep

\* The call moves to another step of its own, or ends.
Moved(c, pc)   == [call[c] EXCEPT !.pc = pc]
Answered(c)    == [call[c] EXCEPT !.pc = "idle", !.result = "done"]
Booting(c)     == [call[c] EXCEPT !.pc = "evidence", !.business = progress'.business]

LEMMA MovedFields ==
  ASSUME TypeOK, NEW c \in Calls
  PROVE  /\ \A pc \in {"create", "activate", "role", "invite", "check", "write", "grant"} :
              /\ Moved(c, pc) \in CallType
              /\ Moved(c, pc) = [pc |-> pc, op |-> call[c].op, business |-> call[c].business,
                                 result |-> call[c].result]
              /\ Goto(c, pc) => call' = [call EXCEPT ![c] = Moved(c, pc)]
         /\ Answered(c) \in CallType
         /\ Answered(c) = [pc |-> "idle", op |-> call[c].op, business |-> call[c].business,
                           result |-> "done"]
         /\ Answer(c) => call' = [call EXCEPT ![c] = Answered(c)]
<1>1. call[c] \in CallType /\ call \in [Calls -> CallType]
  BY DEF TypeOK, CallType
<1>2. ASSUME NEW pc \in {"create", "activate", "role", "invite", "check", "write", "grant"}
      PROVE  /\ Moved(c, pc) \in CallType
             /\ Moved(c, pc) = [pc |-> pc, op |-> call[c].op, business |-> call[c].business,
                                result |-> call[c].result]
             /\ Goto(c, pc) => call' = [call EXCEPT ![c] = Moved(c, pc)]
  BY <1>1 DEF Moved, CallType, Goto
<1>3. /\ Answered(c) \in CallType
      /\ Answered(c) = [pc |-> "idle", op |-> call[c].op, business |-> call[c].business,
                        result |-> "done"]
      /\ Answer(c) => call' = [call EXCEPT ![c] = Answered(c)]
  <2>1. Answered(c) = [pc |-> "idle", op |-> call[c].op, business |-> call[c].business,
                       result |-> "done"]
    <3>1. PICK k \in CallType : k = call[c]
      BY <1>1
    <3>2. Answered(c) = [k EXCEPT !.pc = "idle", !.result = "done"]
      BY <3>1 DEF Answered
    <3>3. PICK m \in CallType : m = [k EXCEPT !.pc = "idle"]
      BY DEF CallType
    <3>4. m = [pc |-> "idle", op |-> k.op, business |-> k.business, result |-> k.result]
      BY <3>3 DEF CallType
    <3>5. Answered(c) = [m EXCEPT !.result = "done"]
      BY <3>2, <3>3
    <3>6. [m EXCEPT !.result = "done"]
            = [pc |-> m.pc, op |-> m.op, business |-> m.business, result |-> "done"]
      BY DEF CallType
    <3> QED
      BY <3>1, <3>4, <3>5, <3>6
  <2>2. Answered(c) \in CallType
    BY <1>1, <2>1 DEF CallType
  <2>3. Answer(c) => call' = [call EXCEPT ![c] = Answered(c)]
    BY DEF Answer, Answered
  <2> QED
    BY <2>1, <2>2, <2>3
<1> QED
  BY <1>2, <1>3

\* A call that is over and forgotten.
LEMMA IdleFields ==
  ASSUME TypeOK, NEW c \in Calls, call' = [call EXCEPT ![c] = Idle]
  PROVE  /\ Idle \in CallType
         /\ call'[c] = Idle
         /\ CallSound(c)'
         /\ Takes(c, Idle)
         /\ Idle.pc = "idle" /\ Idle.op # "assignOwner"
<1>1. Idle \in CallType /\ call'[c] = Idle
  BY DEF Idle, CallType, TypeOK
<1>2. CallSound(c)'
  BY <1>1, OnboardingAssumption DEF CallSound, Idle, Recording, Ops
<1>3. Takes(c, Idle)
  BY OnboardingAssumption DEF Takes, Idle, Ops
<1>4. Idle.pc = "idle" /\ Idle.op # "assignOwner"
  BY OnboardingAssumption DEF Idle, Ops
<1> QED
  BY <1>1, <1>2, <1>3, <1>4

LEMMA EndStep ==
  ASSUME Inv, NEW c \in Calls, End(c), UNCHANGED <<rows, crashes>>
  PROVE  Inv'
BY IdleFields, CallOnlyStep DEF End, Inv

LEMMA BeginStep ==
  ASSUME Inv, NEW c \in Calls, Request(c)
  PROVE  Inv'
<1> PICK op \in Ops, code \in Codes \cup {Null} : Begin(c, op, code)
  BY DEF Request
<1> DEFINE new == [pc |-> FirstPc(op), op |-> op, business |-> code, result |-> "none"]
<1>1. FirstPc(op) \in {"load", "apply", "list", "check"}
      /\ (op \in {"setBusiness", "assignOwner"} => FirstPc(op) = "load")
      /\ (op = "applyDefaultSettings" => FirstPc(op) = "apply")
  BY DEF FirstPc, Ops
<1>2. new \in CallType
  BY <1>1 DEF CallType
<1>3. call' = [call EXCEPT ![c] = new] /\ call'[c] = new
  BY DEF Begin, Inv, TypeOK
<1>4. CallSound(c)'
  BY <1>1, <1>3, OnboardingAssumption DEF CallSound, Recording, Begin
<1>5. Takes(c, new)
  BY <1>1 DEF Takes, Begin
<1> HIDE DEF new
<1>6. new.result = "none"
  BY DEF new
<1> QED
  BY <1>2, <1>3, <1>4, <1>5, <1>6, CallOnlyStep DEF Begin

LEMMA CutStep ==
  ASSUME Inv, NEW c \in Calls, Cut(c)
  PROVE  Inv'
<1>1. call' = [call EXCEPT ![c] = Idle]
  BY DEF Cut
<1>2. Idle \in CallType /\ CallSound(c)' /\ Takes(c, Idle) /\ Idle.op # "assignOwner"
  BY <1>1, IdleFields DEF Inv
<1>3. TypeOK'
  BY <1>1, <1>2, OnboardingAssumption DEF Cut, Inv, TypeOK, CallType, rows
<1>4. Grown /\ RowSound'
  BY RowsKept DEF Inv, Cut
<1> QED
  BY <1>1, <1>2, <1>3, <1>4, CallStep DEF Cut, rows

LEMMA LoadForBusinessStep ==
  ASSUME Inv, NEW c \in Calls, LoadForBusiness(c)
  PROVE  Inv'
<1>1. CASE progress.business # Null
  BY <1>1, EndStep DEF LoadForBusiness, At
<1>2. CASE progress.business = Null
  <2>1. /\ Moved(c, "create") \in CallType
        /\ Moved(c, "create") = [pc |-> "create", op |-> call[c].op,
              business |-> call[c].business, result |-> call[c].result]
        /\ call' = [call EXCEPT ![c] = Moved(c, "create")]
    BY <1>2, MovedFields DEF Inv, LoadForBusiness
  <2>2. call'[c] = Moved(c, "create")
    BY <2>1 DEF Inv, TypeOK
  <2>3. CallSound(c)'
    BY <2>1, <2>2 DEF Inv, CallSound, Recording, rows, LoadForBusiness, At
  <2>4. Takes(c, Moved(c, "create")) /\ Moved(c, "create").op # "assignOwner"
    BY <2>1 DEF Takes, LoadForBusiness, At
  <2> QED
    BY <2>1, <2>3, <2>4, CallOnlyStep DEF LoadForBusiness
<1> QED
  BY <1>1, <1>2

RowsOK ==
    /\ progress \in [status : {"in_progress", "completed", "abandoned"}, step : Steps,
                     completed : SUBSET Steps, business : Codes \cup {Null}, member : BOOLEAN]
    /\ businesses \subseteq Codes
    /\ membership \in {"none", "invited", "active"}
    /\ ownerRole \in BOOLEAN
    /\ settings \in BOOLEAN
    /\ invited \in BOOLEAN
    /\ authority \in [Codes -> {"none", "active", "other", "revoked"}]
    /\ crashes \in 0..MaxCrashes

\* A call that goes on to its next transaction.
LEMMA MoveStep ==
  ASSUME Inv, NEW c \in Calls,
         NEW pc \in {"create", "activate", "role", "invite", "check", "write", "grant"},
         Goto(c, pc), call[c].pc # "idle", RowsOK', Grown, RowSound', CallSound(c)',
         call[c].op = "setBusiness" /\ pc \in {"check", "write"} => Recording(c),
         progress'.business = progress.business
  PROVE  Inv'
<1>1. /\ Moved(c, pc) \in CallType
      /\ Moved(c, pc) = [pc |-> pc, op |-> call[c].op, business |-> call[c].business,
                         result |-> call[c].result]
      /\ call' = [call EXCEPT ![c] = Moved(c, pc)]
  BY MovedFields DEF Inv
<1>2. TypeOK'
  BY <1>1 DEF Inv, TypeOK, CallType, RowsOK
<1>3. Takes(c, Moved(c, pc))
  BY <1>1 DEF Takes
<1>4. Moved(c, pc).result = "none"
  BY <1>1 DEF Inv, CallSound
<1> QED
  BY <1>1, <1>2, <1>3, <1>4, CallStep

LEMMA MovedCall ==
  ASSUME Inv, NEW c \in Calls,
         NEW pc \in {"create", "activate", "role", "invite", "check", "write", "grant"},
         Goto(c, pc)
  PROVE  /\ call'[c].pc = pc
         /\ call'[c].op = call[c].op
         /\ call'[c].business = call[c].business
         /\ call'[c].result = call[c].result
BY MovedFields DEF Inv, TypeOK

LEMMA CreateMembershipStep ==
  ASSUME Inv, NEW c \in Calls, CreateMembership(c)
  PROVE  Inv'
<1>1. CASE membership # "none" /\ End(c) /\ UNCHANGED membership
  BY <1>1, EndStep DEF CreateMembership, At, rows
<1>2. CASE membership = "none" /\ membership' = "invited" /\ Goto(c, "activate")
  <2>1. RowsOK' /\ Grown
    BY <1>2 DEF Inv, TypeOK, RowsOK, Grown, Assigned, CreateMembership
  <2>2. RowSound'
    BY <1>2 DEF Inv, RowSound, CreateMembership
  <2>3. CallSound(c)'
    BY <1>2, MovedCall DEF Inv, CallSound, Recording, CreateMembership, At
  <2> QED
    BY <1>2, <2>1, <2>2, <2>3, MoveStep DEF CreateMembership, At
<1> QED
  BY <1>1, <1>2 DEF CreateMembership

LEMMA ActivateMembershipStep ==
  ASSUME Inv, NEW c \in Calls, ActivateMembership(c)
  PROVE  Inv'
<1>1. RowsOK' /\ Grown
  BY DEF Inv, TypeOK, RowsOK, Grown, Assigned, ActivateMembership
<1>2. RowSound'
  BY DEF Inv, RowSound, ActivateMembership
<1>3. CallSound(c)'
  BY MovedCall DEF Inv, CallSound, Recording, ActivateMembership, At
<1> QED
  BY <1>1, <1>2, <1>3, MoveStep DEF ActivateMembership, At

LEMMA AssignRoleStep ==
  ASSUME Inv, NEW c \in Calls, AssignRole(c)
  PROVE  Inv'
<1>1. RowsOK' /\ Grown
  BY DEF Inv, TypeOK, RowsOK, Grown, Assigned, AssignRole
<1>2. RowSound'
  BY DEF Inv, RowSound, AssignRole
<1>3. CallSound(c)'
  BY MovedCall DEF Inv, CallSound, Recording, AssignRole, At
<1> QED
  BY <1>1, <1>2, <1>3, MoveStep DEF AssignRole, At

LEMMA ApplySettingsStep ==
  ASSUME Inv, NEW c \in Calls, ApplySettings(c)
  PROVE  Inv'
<1>1. RowsOK' /\ Grown
  BY DEF Inv, TypeOK, RowsOK, Grown, Assigned, ApplySettings
<1>2. RowSound'
  BY DEF Inv, RowSound, ApplySettings
<1>3. CallSound(c)'
  BY MovedCall DEF Inv, CallSound, Recording, ApplySettings, At
<1> QED
  BY <1>1, <1>2, <1>3, MoveStep DEF ApplySettings, At

LEMMA InviteTeamStep ==
  ASSUME Inv, NEW c \in Calls, ListPending(c) \/ Invite(c)
  PROVE  Inv'
<1>1. RowsOK' /\ Grown
  BY DEF Inv, TypeOK, RowsOK, Grown, Assigned, ListPending, Invite, rows
<1>2. RowSound'
  BY DEF Inv, RowSound, ListPending, Invite, rows
<1>3. PICK pc \in {"check", "invite"} : Goto(c, pc)
  BY DEF ListPending, Invite
<1>4. call[c].op = "inviteTeamMembers" /\ call[c].pc # "idle"
  BY DEF ListPending, Invite, At
<1>5. CallSound(c)'
  BY <1>3, <1>4, MovedCall DEF Inv, CallSound, Recording
<1> QED
  BY <1>1, <1>2, <1>3, <1>4, <1>5, MoveStep DEF ListPending, Invite, rows

LEMMA CreateBusinessStep ==
  ASSUME Inv, NEW c \in Calls, CreateBusiness(c)
  PROVE  Inv'
<1> DEFINE b == call[c].business
<1>1. CASE b \in businesses /\ End(c) /\ UNCHANGED businesses
  BY <1>1, EndStep DEF CreateBusiness, At, rows
<1>2. CASE b \notin businesses /\ businesses' = businesses \cup {b} /\ Goto(c, "check")
  <2>1. b \in Codes
    BY DEF Inv, CallSound, TypeOK, CreateBusiness, At
  <2>2. /\ Moved(c, "check") \in CallType
        /\ call' = [call EXCEPT ![c] = Moved(c, "check")]
    BY <1>2, MovedFields DEF Inv
  <2>3. TypeOK' /\ Grown
    BY <1>2, <2>1, <2>2 DEF Inv, TypeOK, CallType, Grown, Assigned, CreateBusiness
  <2>4. RowSound'
    BY <1>2 DEF Inv, RowSound, CreateBusiness
  <2>5. CallSound(c)'
    BY <1>2, MovedCall DEF Inv, CallSound, Recording, CreateBusiness, At
  <2>6. ASSUME NEW d \in Calls PROVE CallSound(d)'
    BY <2>2, <2>3, <2>5, CallKept DEF Inv, TypeOK
  <2>7. ASSUME NEW d \in Calls PROVE Apart(d)'
    <3>1. CASE d = c
      <4>1. progress'.business # b
        BY <1>2, <2>1, OnboardingAssumption DEF Inv, RowSound, CreateBusiness
      <4>2. ASSUME NEW e \in Calls \ {c}, call[e].business = b
            PROVE  call[e].op = "setBusiness" /\ ~Recording(e)
        BY <1>2, <2>1, <4>2, OnboardingAssumption DEF Inv, CallSound
      <4>3. \A e \in Calls \ {c} : call'[e] = call[e]
        BY <2>2 DEF Inv, TypeOK
      <4> QED
        BY <1>2, <3>1, <4>1, <4>2, <4>3, MovedCall DEF Apart, Recording
    <3>2. CASE d # c
      <4>1. call'[d] = call[d] /\ \A e \in Calls \ {c} : call'[e] = call[e]
        BY <2>2, <3>2 DEF Inv, TypeOK
      <4>2. SUFFICES ASSUME call[d].op = "setBusiness", Recording(d)
                     PROVE  /\ progress.business # call[d].business
                            /\ \A e \in Calls \ {d} :
                                 call'[e].business = call[d].business =>
                                   call'[e].op = "setBusiness" /\ ~Recording(e)'
        BY <4>1 DEF Apart, Recording, CreateBusiness
      <4>3. call[d].business \in businesses /\ Apart(d)
        BY <4>2 DEF Inv, CallSound
      <4>4. call'[c].business # call[d].business
        BY <1>2, <4>3, MovedCall
      <4> QED
        BY <4>1, <4>2, <4>3, <4>4 DEF Apart, Recording
    <3> QED
      BY <3>1, <3>2
  <2>8. Authorized'
    <3>1. Moved(c, "check").op = "setBusiness"
      BY MovedFields DEF Inv, CreateBusiness, At
    <3> QED
      BY <2>2, <2>3, <3>1, AuthorizedKept DEF CreateBusiness, Grown
  <2> QED
    BY <2>3, <2>4, <2>6, <2>7, <2>8 DEF Inv
<1> QED
  BY <1>1, <1>2 DEF CreateBusiness

\* assignOwner goes on to the authority of the business the row names.
LEMMA BootStep ==
  ASSUME Inv, NEW c \in Calls, call[c].op = "assignOwner", call[c].pc # "idle",
         Bootstrap(c, progress'), RowsOK', Grown, RowSound', progress'.member,
         progress'.business \in businesses', progress'.business = progress.business
  PROVE  Inv'
<1>1. progress'.business \in Codes
  BY DEF RowsOK
<1>2. call[c] \in CallType
  BY DEF Inv, TypeOK, CallType
<1>3. Booting(c) = [pc |-> "evidence", op |-> call[c].op, business |-> progress'.business,
                    result |-> call[c].result]
  <2>1. PICK k \in CallType : k = call[c]
    BY <1>2
  <2>2. PICK m \in CallType : m = [k EXCEPT !.pc = "evidence"]
    BY DEF CallType
  <2>3. m = [pc |-> "evidence", op |-> k.op, business |-> k.business, result |-> k.result]
    BY <2>2 DEF CallType
  <2>4. Booting(c) = [m EXCEPT !.business = progress'.business]
    BY <2>1, <2>2 DEF Booting
  <2>5. [m EXCEPT !.business = progress'.business]
          = [pc |-> m.pc, op |-> m.op, business |-> progress'.business, result |-> m.result]
    BY DEF CallType
  <2> QED
    BY <2>1, <2>3, <2>4, <2>5
<1>4. Booting(c) \in CallType
  BY <1>1, <1>2, <1>3 DEF CallType
<1>5. call' = [call EXCEPT ![c] = Booting(c)]
  BY <1>1, OnboardingAssumption DEF Bootstrap, Booting
<1>6. call'[c] = Booting(c)
  BY <1>5 DEF Inv, TypeOK
<1>7. TypeOK'
  BY <1>4, <1>5 DEF Inv, TypeOK, CallType, RowsOK
<1>8. Booting(c).result = "none"
  BY <1>3 DEF Inv, CallSound
<1>9. CallSound(c)'
  BY <1>3, <1>6, <1>8 DEF CallSound, Recording, Ops
<1>10. Takes(c, Booting(c))
  BY <1>3 DEF Takes
<1> QED
  BY <1>4, <1>5, <1>7, <1>8, <1>9, <1>10, CallStep

LEMMA RowsTyped == TypeOK => RowsOK
BY DEF TypeOK, RowsOK

\* The row names a business and a membership once the owner step is recorded.
LEMMA OwnerRecorded ==
  ASSUME RowSound, progress.member
  PROVE  progress.business \in businesses
BY Ranks DEF RowSound, Steps

LEMMA LoadForOwnerStep ==
  ASSUME Inv, NEW c \in Calls, LoadForOwner(c)
  PROVE  Inv'
<1>1. Grown /\ RowSound' /\ RowsOK'
  BY RowsKept, RowsTyped DEF Inv, LoadForOwner, RowsOK, rows
<1>2. CASE progress.member
  BY <1>1, <1>2, OwnerRecorded, BootStep DEF Inv, LoadForOwner, At, rows, Bootstrap
<1>3. CASE ~progress.member
  <2>1. Goto(c, "create")
    BY <1>3 DEF LoadForOwner
  <2>2. CallSound(c)'
    BY <2>1, MovedCall DEF Inv, CallSound, Recording, LoadForOwner, At, rows
  <2> QED
    BY <1>1, <2>1, <2>2, MoveStep DEF LoadForOwner, At, rows
<1> QED
  BY <1>2, <1>3

LEMMA LoadEvidenceStep ==
  ASSUME Inv, NEW c \in Calls, LoadEvidence(c)
  PROVE  Inv'
<1>1. call[c].op = "assignOwner" /\ call[c].pc = "evidence" /\ call[c].result = "none"
  BY DEF LoadEvidence, At, Inv, CallSound
<1>2. call[c].business \in businesses /\ progress.member
  BY <1>1 DEF Inv, CallSound
<1>3. CASE Goto(c, "grant")
  <2>1. Grown /\ RowSound' /\ RowsOK'
    BY RowsKept, RowsTyped DEF Inv, LoadEvidence, RowsOK, rows
  <2>2. CallSound(c)'
    BY <1>1, <1>2, <1>3, MovedCall DEF Inv, CallSound, Recording, LoadEvidence, rows
  <2> QED
    BY <1>1, <1>3, <2>1, <2>2, MoveStep DEF LoadEvidence, rows
<1>4. CASE /\ Answer(c)
           /\ call[c].business \in Assigned \/ ~Proven(call[c].business)
  <2>1. /\ Answered(c) \in CallType
        /\ Answered(c) = [pc |-> "idle", op |-> call[c].op, business |-> call[c].business,
                              result |-> "done"]
        /\ call' = [call EXCEPT ![c] = Answered(c)]
    BY <1>4, MovedFields DEF Inv
  <2>2. call'[c] = Answered(c)
    BY <2>1 DEF Inv, TypeOK
  <2>3. CallSound(c)'
    BY <1>1, <1>2, <2>1, <2>2 DEF CallSound, Recording, LoadEvidence, rows
  <2>4. Takes(c, Answered(c))
    BY <1>1, <2>1 DEF Takes
  <2>5. call[c].business \in Assigned \/ call[c].business \in businesses \ {progress.business}
    BY <1>2, <1>4 DEF Proven, Inv, RowSound
  <2> QED
    BY <2>1, <2>3, <2>4, <2>5, CallOnlyStep DEF LoadEvidence
<1> QED
  BY <1>3, <1>4 DEF LoadEvidence

LEMMA GrantStep ==
  ASSUME Inv, NEW c \in Calls, Grant(c)
  PROVE  Inv'
<1>1. call[c].op = "assignOwner" /\ call[c].pc = "grant" /\ call[c].business \in businesses
  BY DEF Grant, At, Inv, CallSound
<1>2. /\ Answered(c) \in CallType
      /\ Answered(c) = [pc |-> "idle", op |-> call[c].op, business |-> call[c].business,
                             result |-> "done"]
      /\ call' = [call EXCEPT ![c] = Answered(c)]
  BY MovedFields DEF Inv, Grant
<1>3. call'[c] = Answered(c)
  BY <1>2 DEF Inv, TypeOK
<1>4. TypeOK' /\ Grown
  <2>1. authority' \in [Codes -> {"none", "active", "other", "revoked"}]
    BY DEF Inv, TypeOK, Grant
  <2>2. Assigned \subseteq Assigned'
    BY DEF Inv, TypeOK, Grant, Assigned
  <2> QED
    BY <1>1, <1>2, <2>1, <2>2 DEF Inv, TypeOK, CallType, Grown, Grant
<1>5. RowSound'
  BY DEF Inv, RowSound, Grant
<1>6. CallSound(c)'
  BY <1>1, <1>2, <1>3 DEF CallSound, Recording, Grant
<1>7. Takes(c, Answered(c))
  BY <1>1, <1>2 DEF Takes
<1>8. Answered(c).business \in Assigned'
  <2>1. call[c].business \in Codes
    BY <1>1 DEF Inv, TypeOK
  <2> QED
    BY <1>2, <2>1 DEF Grant, Assigned, Inv, TypeOK
<1> QED
  BY <1>2, <1>4, <1>5, <1>6, <1>7, <1>8, CallStep DEF Grant

LEMMA CheckStep ==
  ASSUME Inv, NEW c \in Calls, Check(c)
  PROVE  Inv'
<1> DEFINE op == call[c].op
<1>1. call[c].pc = "check" /\ op \in Ops
  BY DEF Check, Inv, CallSound
<1>2. Grown /\ RowSound' /\ RowsOK'
  BY RowsKept, RowsTyped DEF Inv, Check, RowsOK, rows
<1>3. CASE Judgement(op) = "advance"
  <2>1. Goto(c, "write")
    BY <1>3 DEF Check
  <2>2. ASSUME op # "abandonOnboarding", NEW t \in Steps, Rank(t) < Rank(Target(op))
        PROVE  t \in progress.completed
    <3>1. Rank(t) <= Rank(progress.step)
      <4>1. CASE op = "completeOnboarding"
        BY <1>3, <2>2, <4>1, Ranks, Targets DEF Judgement, Steps
      <4>2. CASE op # "completeOnboarding"
        <5>1. Rank(Target(op)) = Rank(progress.step) + 1
          BY <1>3, <2>2, <4>2 DEF Judgement, Transition
        <5>2. Rank(t) \in Nat /\ Rank(progress.step) \in Nat
          BY Ranks DEF Steps, Inv, TypeOK
        <5> QED
          BY <2>2, <5>1, <5>2
      <4> QED
        BY <4>1, <4>2
    <3> QED
      BY <3>1 DEF Inv, RowSound
  <2>3. CallSound(c)'
    BY <1>1, <2>1, <2>2, MovedCall DEF Inv, CallSound, Recording, Check, rows
  <2> QED
    BY <1>1, <1>2, <2>1, <2>3, MoveStep DEF Check, rows, Recording
<1>4. CASE Judgement(op) = "idempotent" /\ op = "assignOwner"
  <2>1. Bootstrap(c, progress')
    BY <1>4 DEF Check, Recorded, rows, Bootstrap
  <2>2. Rank(Target(op)) <= Rank(progress.step)
    BY <1>4 DEF Judgement, Transition
  <2>3. progress.member
    BY <1>4, <2>2, Ranks, Targets DEF Inv, RowSound, Steps
  <2> QED
    BY <1>1, <1>2, <1>4, <2>1, <2>3, OwnerRecorded, BootStep DEF Inv, Check, rows
<1>5. CASE Judgement(op) = "idempotent" /\ op # "assignOwner"
  BY <1>1, <1>5, EndStep DEF Check, Recorded
<1>6. CASE Judgement(op) \notin {"advance", "idempotent"}
  BY <1>1, <1>6, EndStep DEF Check
<1> QED
  BY <1>3, <1>4, <1>5, <1>6

-----------------------------------------------------------------------------
(* The write of a step.                                                     *)

LEMMA UpdatedFields ==
  ASSUME TypeOK, NEW op \in Ops, NEW b \in Codes \cup {Null}
  PROVE  /\ op = "abandonOnboarding" =>
              /\ Updated(op, b).step = progress.step
              /\ Updated(op, b).completed = progress.completed
         /\ op # "abandonOnboarding" =>
              /\ Updated(op, b).step = Target(op)
              /\ Updated(op, b).completed = progress.completed \cup {Target(op)}
         /\ op = "setBusiness" => Updated(op, b).business = b
         /\ op # "setBusiness" => Updated(op, b).business = progress.business
         /\ op = "assignOwner" => Updated(op, b).member = TRUE
         /\ op # "assignOwner" => Updated(op, b).member = progress.member
         /\ Updated(op, b) \in
              [status : {"in_progress", "completed", "abandoned"}, step : Steps,
               completed : SUBSET Steps, business : Codes \cup {Null}, member : BOOLEAN]
<1>1. Target(op) \in Steps
  BY Targets DEF Ops, Steps
<1>2. PICK r \in [status : {"in_progress", "completed", "abandoned"}, step : Steps,
                  completed : SUBSET Steps, business : Codes \cup {Null}, member : BOOLEAN] :
        r = progress
  BY DEF TypeOK
<1>3. PICK next \in [status : {"in_progress", "completed", "abandoned"}, step : Steps,
                     completed : SUBSET Steps, business : Codes \cup {Null}, member : BOOLEAN] :
        /\ next = [progress EXCEPT !.step = Target(op), !.completed = @ \cup {Target(op)}]
        /\ next.step = Target(op)
        /\ next.completed = r.completed \cup {Target(op)}
        /\ next.business = r.business
        /\ next.member = r.member
  <2> DEFINE n == [r EXCEPT !.step = Target(op), !.completed = @ \cup {Target(op)}]
  <2>1. /\ n.step = Target(op) /\ n.completed = r.completed \cup {Target(op)}
        /\ n.business = r.business /\ n.member = r.member
    BY <1>1
  <2>2. n \in [status : {"in_progress", "completed", "abandoned"}, step : Steps,
               completed : SUBSET Steps, business : Codes \cup {Null}, member : BOOLEAN]
    BY <1>1
  <2> QED
    BY <1>2, <2>1, <2>2
<1>4. CASE op = "abandonOnboarding"
  <2>1. Updated(op, b) = [r EXCEPT !.status = "abandoned"]
    BY <1>2, <1>4 DEF Updated, Abandoned
  <2> QED
    BY <1>2, <1>4, <2>1
<1>5. CASE op = "completeOnboarding"
  <2>1. Updated(op, b) = [next EXCEPT !.status = "completed"]
    BY <1>3, <1>5 DEF Updated
  <2> QED
    BY <1>2, <1>3, <1>5, <2>1
<1>6. CASE op = "setBusiness"
  <2>1. Updated(op, b) = [next EXCEPT !.business = b]
    BY <1>3, <1>6 DEF Updated
  <2> QED
    BY <1>2, <1>3, <1>6, <2>1
<1>7. CASE op = "assignOwner"
  <2>1. Updated(op, b) = [next EXCEPT !.member = TRUE]
    BY <1>3, <1>7 DEF Updated
  <2> QED
    BY <1>2, <1>3, <1>7, <2>1
<1>8. CASE op \in {"applyDefaultSettings", "inviteTeamMembers"}
  <2>1. Updated(op, b) = next
    BY <1>3, <1>8 DEF Updated
  <2> QED
    BY <1>2, <1>3, <1>8, <2>1
<1> QED
  BY <1>4, <1>5, <1>6, <1>7, <1>8 DEF Ops

\* What a written row is, whichever call wrote it.
LEMMA WrittenRow ==
  ASSUME Inv, NEW c \in Calls, Write(c)
  PROVE  RowsOK' /\ Grown /\ RowSound'
<1>1. PICK op \in Ops, b \in Codes \cup {Null} :
        call[c].op = op /\ call[c].business = b /\ progress' = Updated(op, b)
  BY DEF Write, Inv, CallSound, TypeOK
<1>w. call[c].pc = "write"
  BY DEF Write
<1>u. /\ op = "abandonOnboarding" =>
           progress'.step = progress.step /\ progress'.completed = progress.completed
      /\ op # "abandonOnboarding" =>
           /\ progress'.step = Target(op)
           /\ progress'.completed = progress.completed \cup {Target(op)}
      /\ op = "setBusiness" => progress'.business = b
      /\ op # "setBusiness" => progress'.business = progress.business
      /\ op = "assignOwner" => progress'.member = TRUE
      /\ op # "assignOwner" => progress'.member = progress.member
      /\ progress' \in [status : {"in_progress", "completed", "abandoned"}, step : Steps,
                        completed : SUBSET Steps, business : Codes \cup {Null}, member : BOOLEAN]
  <2>1. TypeOK
    BY DEF Inv
  <2>2. op \in Ops /\ b \in Codes \cup {Null}
    OBVIOUS
  <2>3. progress' = Updated(op, b)
    BY <1>1
  <2>4. /\ op = "abandonOnboarding" =>
             Updated(op, b).step = progress.step /\ Updated(op, b).completed = progress.completed
        /\ op # "abandonOnboarding" =>
             /\ Updated(op, b).step = Target(op)
             /\ Updated(op, b).completed = progress.completed \cup {Target(op)}
        /\ op = "setBusiness" => Updated(op, b).business = b
        /\ op # "setBusiness" => Updated(op, b).business = progress.business
        /\ op = "assignOwner" => Updated(op, b).member = TRUE
        /\ op # "assignOwner" => Updated(op, b).member = progress.member
        /\ Updated(op, b) \in [status : {"in_progress", "completed", "abandoned"}, step : Steps,
                 completed : SUBSET Steps, business : Codes \cup {Null}, member : BOOLEAN]
    BY <2>1, <2>2, UpdatedFields
  <2> QED
    BY ONLY <2>3, <2>4, Zenon
<1>2. RowsOK' /\ Grown
  BY <1>u DEF Inv, TypeOK, RowsOK, Grown, Write, Assigned
<1>3. CASE op = "abandonOnboarding"
  BY <1>2, <1>3, <1>u DEF Inv, RowSound, Write
<1>4. CASE op # "abandonOnboarding"
  <2>1. /\ progress'.step = Target(op)
        /\ progress'.completed = progress.completed \cup {Target(op)}
        /\ Target(op) \in Steps
    BY <1>4, <1>u, Targets DEF Ops, Steps
  <2>2. ASSUME NEW s \in progress'.completed, NEW t \in Steps, Rank(t) <= Rank(s)
        PROVE  t \in progress'.completed
    <3>1. CASE s \in progress.completed
      BY <2>1, <2>2, <3>1 DEF Inv, RowSound
    <3>2. CASE s = Target(op)
      <4>1. Rank(t) < Rank(s) \/ t = s
        BY <2>1, <2>2, <3>2, Ranks DEF Steps
      <4>2. \A u \in Steps : Rank(u) < Rank(Target(op)) => u \in progress.completed
        BY <1>1, <1>4, <1>w DEF Inv, CallSound
      <4> QED
        BY <2>1, <2>2, <3>2, <4>1, <4>2
    <3> QED
      BY <2>1, <3>1, <3>2
  <2>3. "business_created" \in progress'.completed => progress'.business \in businesses'
    <3>1. CASE op = "setBusiness"
      BY <1>1, <3>1, <1>u, <1>w DEF Inv, CallSound, Recording, Write
    <3>2. CASE op # "setBusiness"
      BY <1>1, <1>4, <2>1, <3>2, <1>u, Targets DEF Inv, RowSound, Write, Ops
    <3> QED
      BY <3>1, <3>2
  <2>4. progress'.business \in businesses' \cup {Null}
    <3>1. CASE op = "setBusiness"
      BY <1>1, <3>1, <1>u, <1>w DEF Inv, CallSound, Recording, Write
    <3>2. CASE op # "setBusiness"
      BY <1>1, <3>2, <1>u DEF Inv, RowSound, Write
    <3> QED
      BY <3>1, <3>2
  <2>5. "owner_assigned" \in progress'.completed <=> progress'.member
    BY <1>1, <1>4, <2>1, <1>u, Targets DEF Inv, RowSound, Ops
  <2>6. progress'.member => membership' = "active" /\ ownerRole'
    <3>1. CASE op = "assignOwner"
      BY <1>1, <3>1, <1>w DEF Inv, CallSound, Recording, Write
    <3>2. CASE op # "assignOwner"
      BY <1>1, <3>2, <1>u DEF Inv, RowSound, Write
    <3> QED
      BY <3>1, <3>2
  <2>7. "settings_applied" \in progress'.completed => settings'
    <3>1. CASE op = "applyDefaultSettings"
      BY <1>1, <3>1, <1>w DEF Inv, CallSound, Recording, Write
    <3>2. CASE op # "applyDefaultSettings"
      BY <1>1, <1>4, <2>1, <3>2, Targets DEF Inv, RowSound, Write, Ops
    <3> QED
      BY <3>1, <3>2
  <2> QED
    BY <1>2, <2>1, <2>2, <2>3, <2>4, <2>5, <2>6, <2>7 DEF RowSound
<1> QED
  BY <1>2, <1>3, <1>4

LEMMA WriteOwnerStep ==
  ASSUME Inv, NEW c \in Calls, Write(c), call[c].op = "assignOwner"
  PROVE  Inv'
<1>1. RowsOK' /\ Grown /\ RowSound'
  BY WrittenRow
<1>2. PICK b \in Codes \cup {Null} : call[c].business = b
  BY DEF Inv, TypeOK
<1>3. Updated("assignOwner", b).member = TRUE
      /\ Updated("assignOwner", b).business = progress.business
  BY UpdatedFields DEF Inv, Ops
<1>4. progress' = Updated("assignOwner", b)
  BY <1>2 DEF Write
<1>5. progress'.member /\ progress'.business = progress.business
  BY ONLY <1>3, <1>4, Zenon
<1>6. progress'.business \in businesses'
  <2>1. "owner_assigned" \in progress'.completed
    BY <1>1, <1>5 DEF RowSound
  <2>2. "business_created" \in progress'.completed
    BY <1>1, <2>1, Ranks DEF RowSound, Steps
  <2> QED
    BY <1>1, <2>2 DEF RowSound
<1>7. Bootstrap(c, progress') /\ call[c].pc = "write" /\ authority' = authority
  BY DEF Write, Recorded
<1> QED
  BY <1>1, <1>5, <1>6, <1>7, BootStep

LEMMA WriteStep ==
  ASSUME Inv, NEW c \in Calls, Write(c), call[c].op # "assignOwner"
  PROVE  Inv'
<1>1. RowsOK' /\ Grown /\ RowSound'
  BY WrittenRow
<1>2. call' = [call EXCEPT ![c] = Idle] /\ Idle \in CallType
  BY IdleFields DEF Inv, Write, Recorded, End
<1>3. call'[c] = Idle /\ \A d \in Calls \ {c} : call'[d] = call[d]
  BY <1>2 DEF Inv, TypeOK
<1>4. TypeOK'
  BY <1>1, <1>2 DEF Inv, TypeOK, CallType, RowsOK
<1>5. PICK op \in Ops, b \in Codes \cup {Null} :
        call[c].op = op /\ call[c].business = b /\ progress' = Updated(op, b)
  BY DEF Write, Inv, CallSound, TypeOK
<1>6. /\ CallSound(c)'
      /\ Takes(c, Idle)
      /\ Idle.pc = "idle" /\ Idle.op # "assignOwner"
  BY <1>2, IdleFields DEF Inv
<1>7. CASE op # "setBusiness"
  <2>1. Updated(op, b).business = progress.business
    <3>1. TypeOK
      BY DEF Inv
    <3>2. op \in Ops /\ b \in Codes \cup {Null}
      OBVIOUS
    <3> QED
      BY ONLY <1>7, <3>1, <3>2, UpdatedFields, Zenon
  <2>2. progress'.business = progress.business
    BY ONLY <1>5, <2>1, Zenon
  <2> QED
    BY <1>1, <1>2, <1>4, <1>6, <2>2, CallStep
<1>8. CASE op = "setBusiness"
  <2>1. Updated(op, b).business = b
    BY <1>8, UpdatedFields DEF Inv
  <2>2. progress'.business = call[c].business
    BY ONLY <1>5, <2>1, Zenon
  <2>3. Apart(c) /\ Recording(c) /\ call[c].op = "setBusiness"
    BY <1>5, <1>8 DEF Inv, Recording, Write
  <2>4. \A d \in Calls \ {c} :
          call[d].business = progress'.business => call[d].op = "setBusiness" /\ ~Recording(d)
    BY <2>2, <2>3 DEF Apart
  <2>5. \A d \in Calls : CallSound(d)'
    BY <1>1, <1>3, <1>6, CallKept DEF Inv
  <2>6. ASSUME NEW d \in Calls PROVE Apart(d)'
    <3>1. CASE d = c
      BY <1>3, <1>6, <3>1 DEF Apart, Recording
    <3>2. CASE d # c
      <4> SUFFICES ASSUME call[d].op = "setBusiness", Recording(d)
                   PROVE  /\ progress'.business # call[d].business
                          /\ \A e \in Calls \ {d} :
                               call'[e].business = call[d].business =>
                                 call'[e].op = "setBusiness" /\ ~Recording(e)'
        BY <1>3, <3>2 DEF Apart, Recording
      <4>1. Apart(d)
        BY DEF Inv
      <4>2. call'[c].business # call[d].business
        BY <1>3 DEF Inv, CallSound, Idle
      <4>3. progress'.business # call[d].business
        BY <2>2, <2>4, <3>2
      <4> QED
        BY <1>3, <2>2, <4>1, <4>2, <4>3 DEF Apart, Recording
    <3> QED
      BY <3>1, <3>2
  <2>7. Authorized'
    <3> SUFFICES ASSUME NEW d \in Calls, call'[d].op = "assignOwner", call'[d].result = "done"
                 PROVE  call'[d].business \in Assigned'
                          \/ call'[d].business \in businesses' \ {progress'.business}
      BY DEF Authorized
    <3>1. d # c
      BY <1>3, <1>6
    <3>2. call'[d] = call[d]
      BY <1>3, <3>1
    <3>3. call[d].business \in Assigned \/ call[d].business \in businesses
      BY <3>2 DEF Inv, Authorized
    <3>4. call[d].business # progress'.business
      BY <2>4, <3>1, <3>2
    <3> QED
      BY <1>1, <3>2, <3>3, <3>4 DEF Grown
  <2> QED
    BY <1>1, <1>4, <2>5, <2>6, <2>7 DEF Inv
<1> QED
  BY <1>7, <1>8

LEMMA StutterStep ==
  ASSUME Inv, UNCHANGED vars
  PROVE  Inv'
BY DEF Inv, vars, TypeOK, RowSound, CallSound, Apart, Recording, Authorized, Assigned

LEMMA AdministerStep ==
  ASSUME Inv, NEW b \in Administered, Administer(b)
  PROVE  Inv'
<1>1. b \in Codes
  BY OnboardingAssumption
<1>2. /\ authority' \in [Codes -> {"none", "active", "other", "revoked"}]
      /\ Assigned \subseteq Assigned'
  <2>1. PICK status \in {"active", "other", "revoked"} :
          authority' = [authority EXCEPT ![b] = status]
    BY DEF Administer, GrantApprover, RevokeApprover
  <2> QED
    BY <1>1, <2>1 DEF Inv, TypeOK, Assigned
<1>3. UNCHANGED <<progress, businesses, membership, ownerRole, settings, invited, call, crashes>>
  BY DEF Administer
<1>4. TypeOK'
  BY <1>2, <1>3 DEF Inv, TypeOK
<1>5. Grown /\ RowSound'
  BY <1>2, <1>3 DEF Inv, Grown, RowSound
<1>6. \A c \in Calls : CallSound(c)' /\ Apart(c)'
  BY <1>3, <1>5, CallKept DEF Inv, Apart, Recording
<1>7. Authorized'
  BY <1>2, <1>3 DEF Inv, Authorized
<1> QED
  BY <1>4, <1>5, <1>6, <1>7 DEF Inv

LEMMA NextInv == Inv /\ [Next]_vars => Inv'
<1> SUFFICES ASSUME Inv, [Next]_vars PROVE Inv'
  OBVIOUS
<1>1. ASSUME NEW c \in Calls, Request(c) \/ Cut(c) PROVE Inv'
  BY <1>1, BeginStep, CutStep
<1>2. ASSUME NEW c \in Calls, Advance(c) PROVE Inv'
  BY <1>2, LoadForBusinessStep, CreateBusinessStep, LoadForOwnerStep, CreateMembershipStep,
     ActivateMembershipStep, AssignRoleStep, LoadEvidenceStep, GrantStep, ApplySettingsStep,
     InviteTeamStep, CheckStep, WriteStep, WriteOwnerStep DEF Advance
<1> QED
  BY <1>1, <1>2, AdministerStep, StutterStep DEF Next

LEMMA InvAlways == Spec => []Inv
BY InitInv, NextInv, PTL DEF Spec

-----------------------------------------------------------------------------

\* The rows and the calls keep to their values, for any number of calls, codes and
\* crashes (OnboardingProgressRepository).
THEOREM TypeCorrect == Spec => []TypeOK
<1>1. Inv => TypeOK
  BY DEF Inv
<1> QED
  BY <1>1, InvAlways, PTL

\* An onboarding is never completed without its business, its active owner and its
\* settings, although its row is judged and written apart (recordStep, markCompleted).
THEOREM CompletionEarned == Spec => []CompletionIsEarned
<1>1. Inv => CompletionIsEarned
  <2> SUFFICES ASSUME Inv, "completed" \in progress.completed PROVE CompletionIsEarned
    BY DEF CompletionIsEarned
  <2>1. progress.completed = Steps
    BY Ranks DEF Inv, TypeOK, RowSound, Steps
  <2> QED
    BY <2>1 DEF Inv, RowSound, CompletionIsEarned, Steps
<1> QED
  BY <1>1, InvAlways, PTL

\* An assignment changes only by being revoked.
LEMMA AssignmentKept ==
  Inv /\ [Next]_vars => [\A b \in Assigned : authority'[b] \in {authority[b], "revoked"}]_vars
<1> SUFFICES ASSUME Inv, Next, NEW b \in Assigned
             PROVE  authority'[b] \in {authority[b], "revoked"}
  OBVIOUS
<1>0. b \in Codes /\ authority[b] # "none" /\ authority \in [Codes -> {"none", "active", "other", "revoked"}]
  BY DEF Assigned, Inv, TypeOK
<1>1. ASSUME NEW c \in Calls, Request(c) \/ Cut(c) PROVE authority' = authority
  BY <1>1 DEF Request, Begin, Cut, rows
<1>2. ASSUME NEW c \in Calls, Grant(c) PROVE authority'[b] = authority[b]
  BY <1>0, <1>2 DEF Grant
<1>3. ASSUME NEW c \in Calls, Advance(c), ~Grant(c) PROVE authority' = authority
  BY <1>3 DEF Advance, LoadForBusiness, CreateBusiness, LoadForOwner, CreateMembership,
     ActivateMembership, AssignRole, LoadEvidence, ApplySettings, ListPending, Invite, Check,
     Write, rows
<1>4. ASSUME NEW d \in Administered, Administer(d)
      PROVE  authority'[b] \in {authority[b], "revoked"}
  <2>1. CASE \E holder \in {"active", "other"} : GrantApprover(d, holder)
    <3>1. d # b
      BY <2>1 DEF GrantApprover
    <3> QED
      BY <1>0, <2>1, <3>1 DEF GrantApprover
  <2>2. CASE RevokeApprover(d)
    BY <1>0, <2>2 DEF RevokeApprover
  <2> QED
    BY <1>4, <2>1, <2>2 DEF Administer
<1> QED
  BY <1>1, <1>2, <1>3, <1>4 DEF Next

\* A call of assignOwner that answers leaves an assignment behind, also when an earlier
\* one was cut off between the record and the grant, and no call ever overwrites what an
\* administrator granted or revoked meanwhile (bootstrapForBusiness, grantActiveAssignment).
THEOREM OwnerAuthorized == Spec => OwnerIsAuthorized
<1>1. Inv => Authorized
  BY DEF Inv
<1>2. Spec => []Authorized
  BY <1>1, InvAlways, PTL
<1>3. Spec => [][\A b \in Assigned : authority'[b] \in {authority[b], "revoked"}]_vars
  BY AssignmentKept, InvAlways, PTL DEF Spec
<1> QED
  BY <1>2, <1>3 DEF OwnerIsAuthorized

-----------------------------------------------------------------------------
(* An assignOwner that is cut off before its record.                        *)

Assigning == {"activate", "role", "check", "write"}

\* The membership has been created, but the row does not name it, and no call is
\* under way that would.
CutOff ==
    /\ membership # "none"
    /\ ~progress.member
    /\ \A c \in Calls : call[c].op = "assignOwner" => call[c].pc \notin Assigning

LEMMA CutOffKept ==
  ASSUME Inv, CutOff, NEW c \in Calls, NEW new, call' = [call EXCEPT ![c] = new],
         membership' # "none", ~progress'.member,
         new.op = "assignOwner" => new.pc \notin Assigning
  PROVE  CutOff'
<1>1. ASSUME NEW d \in Calls, call'[d].op = "assignOwner" PROVE call'[d].pc \notin Assigning
  BY <1>1 DEF Inv, TypeOK, CutOff
<1> QED
  BY <1>1 DEF CutOff, Assigning

LEMMA CutOffEnds ==
  ASSUME Inv, CutOff, NEW c \in Calls, End(c) \/ Answer(c),
         membership' # "none", ~progress'.member
  PROVE  CutOff'
<1>1. CASE End(c)
  BY <1>1, CutOffKept DEF End, Idle, Assigning
<1>2. CASE Answer(c)
  <2>1. call' = [call EXCEPT ![c] = Answered(c)] /\ Answered(c).pc = "idle"
    BY <1>2, MovedFields DEF Inv
  <2> QED
    BY <2>1, CutOffKept DEF Assigning
<1> QED
  BY <1>1, <1>2

LEMMA CutOffMoves ==
  ASSUME Inv, CutOff, NEW c \in Calls,
         NEW pc \in {"create", "activate", "role", "invite", "check", "write", "grant"},
         Goto(c, pc), call[c].op = "assignOwner" => pc \notin Assigning,
         membership' # "none", ~progress'.member
  PROVE  CutOff'
<1>1. /\ call' = [call EXCEPT ![c] = Moved(c, pc)]
      /\ Moved(c, pc).pc = pc
      /\ Moved(c, pc).op = call[c].op
  BY MovedFields DEF Inv
<1> QED
  BY <1>1, CutOffKept

LEMMA CutOffAdvance ==
  ASSUME Inv, CutOff, NEW c \in Calls, Advance(c)
  PROVE  CutOff'
<1> USE DEF rows
<1>m. membership # "none" /\ ~progress.member
  BY DEF CutOff
<1>a. call[c].op = "assignOwner" => call[c].pc \notin {"activate", "role", "check", "write"}
  BY DEF CutOff, Assigning
<1>1. CASE LoadForBusiness(c) \/ CreateBusiness(c)
  <2>1. call[c].op = "setBusiness" /\ membership' = membership /\ progress' = progress
    BY <1>1 DEF LoadForBusiness, CreateBusiness, At
  <2>2. End(c) \/ (\E pc \in {"create", "check"} : Goto(c, pc))
    BY <1>1 DEF LoadForBusiness, CreateBusiness
  <2> QED
    BY <1>m, <2>1, <2>2, CutOffEnds, CutOffMoves
<1>2. CASE LoadForOwner(c)
  <2>1. Goto(c, "create") /\ membership' = membership /\ progress' = progress
    BY <1>2, <1>m DEF LoadForOwner
  <2> QED
    BY <1>m, <2>1, CutOffMoves DEF Assigning
<1>3. CASE CreateMembership(c)
  \* The membership is there already: a retry gets no further than this.
  <2>1. End(c) /\ membership' = membership /\ progress' = progress
    BY <1>3, <1>m DEF CreateMembership
  <2> QED
    BY <1>m, <2>1, CutOffEnds
<1>4. CASE ActivateMembership(c) \/ AssignRole(c)
  BY <1>4, <1>a DEF ActivateMembership, AssignRole, At
<1>5. CASE LoadEvidence(c) \/ Grant(c)
  <2>1. membership' = membership /\ progress' = progress
    BY <1>5 DEF LoadEvidence, Grant
  <2>2. Goto(c, "grant") \/ Answer(c)
    BY <1>5 DEF LoadEvidence, Grant
  <2> QED
    BY <1>m, <2>1, <2>2, CutOffEnds, CutOffMoves DEF Assigning
<1>6. CASE ApplySettings(c) \/ ListPending(c) \/ Invite(c)
  <2>1. call[c].op # "assignOwner" /\ membership' = membership /\ progress' = progress
    BY <1>6 DEF ApplySettings, ListPending, Invite, At
  <2>2. \E pc \in {"check", "invite"} : Goto(c, pc)
    BY <1>6 DEF ApplySettings, ListPending, Invite
  <2> QED
    BY <1>m, <2>1, <2>2, CutOffMoves
<1>7. CASE Check(c)
  <2>1. call[c].op # "assignOwner" /\ membership' = membership /\ progress' = progress
    BY <1>7, <1>a DEF Check
  <2>2. Goto(c, "write") \/ End(c)
    BY <1>7, <2>1 DEF Check, Recorded
  <2> QED
    BY <1>m, <2>1, <2>2, CutOffEnds, CutOffMoves
<1>8. CASE Write(c)
  <2>1. PICK op \in Ops, b \in Codes \cup {Null} :
          call[c].op = op /\ progress' = Updated(op, b)
    BY <1>8 DEF Write, Inv, CallSound, TypeOK
  <2>2. op # "assignOwner" /\ membership' = membership /\ End(c)
    BY <1>8, <1>a, <2>1 DEF Write, Recorded
  <2>3. Updated(op, b).member = progress.member
    <3>1. TypeOK
      BY DEF Inv
    <3>2. op \in Ops /\ b \in Codes \cup {Null}
      OBVIOUS
    <3>3. op # "assignOwner" => Updated(op, b).member = progress.member
      BY <3>1, <3>2, UpdatedFields
    <3>4. op # "assignOwner"
      BY <2>2
    <3> QED
      BY ONLY <3>3, <3>4, Zenon
  <2>4. progress'.member = progress.member
    BY ONLY <2>1, <2>3, Zenon
  <2> QED
    BY <1>m, <2>2, <2>4, CutOffEnds
<1> QED
  BY <1>1, <1>2, <1>3, <1>4, <1>5, <1>6, <1>7, <1>8 DEF Advance

LEMMA CutOffNext == Inv /\ CutOff /\ [Next]_vars => CutOff'
<1> SUFFICES ASSUME Inv, CutOff, [Next]_vars PROVE CutOff'
  OBVIOUS
<1>m. membership # "none" /\ ~progress.member
  BY DEF CutOff
<1>1. ASSUME NEW c \in Calls, Request(c) PROVE CutOff'
  <2> PICK op \in Ops, code \in Codes \cup {Null} : Begin(c, op, code)
    BY <1>1 DEF Request
  <2> DEFINE new == [pc |-> FirstPc(op), op |-> op, business |-> code, result |-> "none"]
  <2>1. new.op = "assignOwner" => new.pc \notin Assigning
    BY DEF FirstPc, Assigning
  <2>2. /\ call' = [call EXCEPT ![c] = new]
        /\ membership' = membership /\ progress' = progress
    BY DEF Begin, rows
  <2> HIDE DEF new
  <2> QED
    BY <1>m, <2>1, <2>2, CutOffKept
<1>2. ASSUME NEW c \in Calls, Cut(c) PROVE CutOff'
  <2>1. call' = [call EXCEPT ![c] = Idle] /\ membership' = membership /\ progress' = progress
    BY <1>2 DEF Cut, rows
  <2> QED
    BY <1>m, <2>1, CutOffKept DEF Idle, Assigning
<1>3. CASE UNCHANGED vars
  BY <1>3 DEF vars, CutOff
<1>4. ASSUME NEW b \in Administered, Administer(b) PROVE CutOff'
  BY <1>m, <1>4 DEF Administer, CutOff
<1> QED
  BY <1>1, <1>2, <1>3, <1>4, CutOffAdvance DEF Next

\* A tenant whose assignOwner was cut off between the membership and its record never
\* completes the wizard: a retry is refused by the membership that exists, and nothing
\* else records the owner (assignOwner, createMembership).  The procedure says that
\* every step call is safe to retry (operating-procedure-build19.md:64-66).
THEOREM CutOffForGood ==
  Spec => [][CutOff => CutOff' /\ "completed" \notin progress'.completed]_vars
<1>1. Inv' /\ CutOff' => "completed" \notin progress'.completed
  BY Ranks DEF Inv, RowSound, CutOff, Steps
<1>2. Inv /\ Inv' /\ [Next]_vars =>
        [CutOff => CutOff' /\ "completed" \notin progress'.completed]_vars
  BY <1>1, CutOffNext
<1> QED
  BY <1>2, InvAlways, PTL DEF Spec
=============================================================================
