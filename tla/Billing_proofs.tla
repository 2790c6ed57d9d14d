---------------------------- MODULE Billing_proofs ----------------------------
(* Theorems about Billing, for every value of its constants.                *)
EXTENDS Billing, TLAPS

Transitioning == {"pay", "suspend", "reactivate", "cancel"} \cup Commands

CallType ==
    [pc : {"idle", "read", "create", "insert", "reread", "enforce", "meter", "settle",
           "payment", "transition", "apply"},
     kind : {"none", "enter", "use", "start", "pay", "suspend", "reactivate", "cancel"}
              \cup Commands,
     quantity : Nat, result : Results,
     status : Statuses \cup {"none"}, plan : Plans, total : Nat, served : BOOLEAN,
     outcome : {"accepted", "unprovisioned", "ended"}]

\* Which calls are at which step.
InPlace(c) ==
    /\ At(c, "idle") <=> Kind(c, "none")
    /\ call[c].pc \in {"reread", "enforce", "meter", "settle"} => Gated(c)
    /\ call[c].pc \in {"create", "insert"} => Gated(c) \/ Kind(c, "start")
    /\ call[c].pc \in {"meter", "settle"} => Kind(c, "use")
    /\ At(c, "payment") => Kind(c, "pay")
    /\ At(c, "read") => Gated(c) \/ call[c].kind \in Transitioning
    /\ call[c].pc \in {"transition", "apply"} => call[c].kind \in Transitioning
    /\ ~At(c, "idle") => call[c].outcome = "ended"

\* What a call knows about the subscription stays true: there is one, its plan
\* does not change, and a failure is the only way to miss it.
Informed(c) ==
    /\ call[c].pc \in {"enforce", "meter", "settle"} =>
         sub.status # "none" /\ call[c].plan = sub.plan
    /\ call[c].pc \in {"payment", "transition", "apply"} => sub.status # "none"
    /\ At(c, "reread") /\ failures = 0 => sub.status # "none"
    /\ call[c].outcome = "unprovisioned" => failures # 0

\* The tenant was in service whenever a call may still be let through.
Entitled(c) ==
    /\ Gated(c) /\ InService(sub.status) => call[c].served
    /\ At(c, "enforce") /\ ~Blocked(call[c].status) => call[c].served
    /\ call[c].pc \in {"meter", "settle"} => call[c].served
    /\ call[c].outcome = "accepted" => call[c].served

\* The lock of the usage row makes the count that was returned the current one.
Metered(c) ==
    /\ At(c, "settle") <=> meter = c
    /\ At(c, "settle") => call[c].total = usage + call[c].quantity

CallSound(c) == InPlace(c) /\ Informed(c) /\ Entitled(c) /\ Metered(c)

\* Nothing is used before there is a subscription.
UnusedBefore == sub.status = "none" => usage = 0 /\ booked = 0

Inv ==
    /\ TypeOK
    /\ \A c \in Procs : CallSound(c)
    /\ UnusedBefore
    /\ UsageIsExact
    /\ GraceIsTimed

LEMMA InitInv == Init => Inv
<1> SUFFICES ASSUME Init PROVE Inv
  OBVIOUS
<1>1. TypeOK
  BY BillingAssumption DEF Init, TypeOK, NoSubscription, Idle, Results
<1>2. ASSUME NEW c \in Procs PROVE CallSound(c)
  BY BillingAssumption DEF Init, CallSound, InPlace, Informed, Entitled, Metered, At,
     Kind, Gated, Idle, NoSubscription, InService
<1>3. UnusedBefore
  BY DEF Init, UnusedBefore
<1>4. UsageIsExact
  BY BillingAssumption DEF Init, UsageIsExact, NoSubscription
<1>5. GraceIsTimed
  BY DEF Init, GraceIsTimed, NoSubscription
<1> QED
  BY <1>1, <1>2, <1>3, <1>4, <1>5 DEF Inv

\* A process that is not moved is as sound as before, where what it relies on stays.
LEMMA Kept ==
  ASSUME NEW d \in Procs, CallSound(d), call'[d] = call[d], UNCHANGED <<sub, failures>>,
         meter' = d <=> meter = d, At(d, "settle") => usage' = usage
  PROVE  CallSound(d)'
BY DEF CallSound, InPlace, Informed, Entitled, Metered, At, Kind, Gated

\* The invariant after a step that changes neither the subscription nor the usage.
LEMMA CallStep ==
  ASSUME Inv, NEW c \in Procs, NEW new \in CallType,
         call' = [call EXCEPT ![c] = new],
         UNCHANGED <<sub, metering, failures>>, CallSound(c)'
  PROVE  Inv'
<1>1. TypeOK'
  BY DEF Inv, TypeOK, CallType, metering
<1>2. ASSUME NEW d \in Procs PROVE CallSound(d)'
  <2>1. CASE d = c
    BY <2>1
  <2>2. CASE d # c
    BY <2>2, Kept DEF Inv, TypeOK, metering
  <2> QED
    BY <2>1, <2>2
<1>3. UnusedBefore' /\ UsageIsExact' /\ GraceIsTimed'
  BY DEF Inv, UnusedBefore, UsageIsExact, GraceIsTimed, metering
<1> QED
  BY <1>1, <1>2, <1>3 DEF Inv

LEMMA FinishedType ==
  ASSUME TypeOK, NEW c \in Procs, NEW o \in {"accepted", "unprovisioned", "ended"}
  PROVE  /\ Finished(c, o) \in CallType
         /\ Finished(c, o).pc = "idle"
         /\ Finished(c, o).kind = "none"
         /\ Finished(c, o).outcome = o
         /\ o = "accepted" => Finished(c, o).served = call[c].served
BY BillingAssumption DEF TypeOK, Finished, Idle, CallType, Results

\* A call that ends without being let through leaves the invariant in place.
LEMMA FinishStep ==
  ASSUME Inv, NEW c \in Procs, NEW o \in {"accepted", "unprovisioned", "ended"},
         Finish(c, o), UNCHANGED <<sub, metering, failures>>, ~At(c, "settle"),
         o = "accepted" => call[c].served,
         o = "unprovisioned" => failures # 0
  PROVE  Inv'
<1>1. call' = [call EXCEPT ![c] = Finished(c, o)] /\ call'[c] = Finished(c, o)
  BY DEF Finish, Inv, TypeOK
<1>2. CallSound(c)'
  BY <1>1, FinishedType DEF Inv, CallSound, InPlace, Informed, Entitled, Metered, At,
     Kind, Gated, metering
<1> QED
  BY <1>1, <1>2, FinishedType, CallStep DEF Inv

LEMMA StartStep ==
  ASSUME Inv, NEW c \in Procs, NEW input \in CallType,
         Start(c, input), input.outcome = "ended",
         \/ input.pc = "read" /\ input.kind \in {"enter", "use"} \cup Transitioning
         \/ input.pc = "create" /\ input.kind = "start"
         \/ /\ input.pc = "transition" /\ input.kind \in Commands
            /\ sub.status # "none"
  PROVE  Inv'
<1> DEFINE new == [input EXCEPT !.served = /\ input.kind \in {"enter", "use"}
                                           /\ InService(sub.status)]
<1>1. call' = [call EXCEPT ![c] = new] /\ call'[c] = new
  BY DEF Start, Inv, TypeOK
<1>2. new \in CallType
  BY DEF CallType
<1>3. CallSound(c)'
  BY <1>1 DEF Inv, Start, CallSound, InPlace, Informed, Entitled, Metered, At, Kind, Gated,
     metering, InService, Transitioning, Commands, CallType
<1> QED
  BY <1>1, <1>2, <1>3, CallStep DEF Start

LEMMA AskType ==
  ASSUME NEW kind \in {"enter", "use", "start"} \cup Transitioning
  PROVE  /\ Ask(kind) \in CallType /\ Ask(kind).pc = "read"
         /\ Ask(kind).kind = kind /\ Ask(kind).outcome = "ended"
BY BillingAssumption DEF Ask, Idle, CallType, Transitioning, Commands, Results

LEMMA RequestStep ==
  ASSUME Inv, NEW c \in Calls, Request(c)
  PROVE  Inv'
<1>0. c \in Procs
  BY DEF Procs
<1>1. ASSUME NEW kind \in {"enter", "suspend", "reactivate", "cancel"}, Start(c, Ask(kind))
      PROVE  Inv'
  BY <1>0, <1>1, AskType, StartStep DEF Transitioning
<1>2. ASSUME NEW q \in Quantities, Start(c, [Ask("use") EXCEPT !.quantity = q])
      PROVE  Inv'
  <2> DEFINE input == [Ask("use") EXCEPT !.quantity = q]
  <2>1. input \in CallType /\ input.pc = "read" /\ input.kind = "use" /\ input.outcome = "ended"
    BY AskType, BillingAssumption DEF CallType, Transitioning
  <2> QED
    BY <1>0, <1>2, <2>1, StartStep
<1>3. ASSUME NEW p \in Plans, Start(c, [Ask("start") EXCEPT !.pc = "create", !.plan = p])
      PROVE  Inv'
  <2> DEFINE input == [Ask("start") EXCEPT !.pc = "create", !.plan = p]
  <2>1. /\ input \in CallType /\ input.pc = "create" /\ input.kind = "start"
        /\ input.outcome = "ended"
    BY BillingAssumption DEF Ask, Idle, CallType, Results
  <2> QED
    BY <1>0, <1>3, <2>1, StartStep
<1>4. ASSUME NEW r \in Results, Start(c, [Ask("pay") EXCEPT !.result = r])
      PROVE  Inv'
  <2> DEFINE input == [Ask("pay") EXCEPT !.result = r]
  <2>1. input \in CallType /\ input.pc = "read" /\ input.kind = "pay" /\ input.outcome = "ended"
    BY AskType DEF CallType, Transitioning
  <2> QED
    BY <1>0, <1>4, <2>1, StartStep DEF Transitioning
<1> QED
  BY <1>1, <1>2, <1>3, <1>4 DEF Request

LEMMA ListDueStep ==
  ASSUME Inv, NEW command \in Commands, ListDue(command)
  PROVE  Inv'
<1> DEFINE input == [Ask(command) EXCEPT !.pc = "transition"]
<1>1. /\ input \in CallType /\ input.pc = "transition" /\ input.kind = command
      /\ input.outcome = "ended"
  BY AskType DEF CallType, Transitioning
<1>2. Audit \in Procs /\ sub.status # "none"
  BY DEF Procs, ListDue, DueTrial, DueGrace
<1> QED
  BY <1>1, <1>2, StartStep DEF ListDue

LEMMA ReadStep ==
  ASSUME Inv, NEW c \in Procs, Read(c)
  PROVE  Inv'
<1>0. call[c] \in CallType /\ CallSound(c) /\ sub.status \in Statuses \cup {"none"} /\ sub.plan \in Plans
  BY DEF Inv, TypeOK, CallType
<1>1. CASE sub.status = "none" /\ Gated(c)
  <2> DEFINE new == [call[c] EXCEPT !.pc = "create"]
  <2>1. call' = [call EXCEPT ![c] = new] /\ call'[c] = new /\ new \in CallType
    BY <1>0, <1>1 DEF Read, Inv, TypeOK, CallType
  <2>2. CallSound(c)'
    BY <1>0, <1>1, <2>1 DEF Read, CallSound, InPlace, Informed, Entitled, Metered, At, Kind,
       Gated, metering, CallType
  <2> QED
    BY <2>1, <2>2, CallStep DEF Read
<1>2. CASE sub.status = "none" /\ ~Gated(c)
  BY <1>2, FinishStep DEF Read, Finish, At
<1>3. CASE sub.status # "none" /\ (Gated(c) \/ Kind(c, "pay"))
  <2> DEFINE new == [Reread(c) EXCEPT !.pc = IF Gated(c) THEN "enforce" ELSE "payment"]
  <2>1. call' = [call EXCEPT ![c] = new] /\ call'[c] = new
    BY <1>0, <1>3 DEF Read, Inv, TypeOK, Gated, Kind
  <2>2. new \in CallType
    BY <1>0 DEF Reread, CallType
  <2>3. CallSound(c)'
    BY <1>0, <1>3, <2>1 DEF Read, CallSound, InPlace, Informed, Entitled, Metered, At, Kind,
       Gated, metering, CallType, Reread, InService, Blocked
  <2> QED
    BY <2>1, <2>2, <2>3, CallStep DEF Read
<1>4. CASE sub.status # "none" /\ ~Gated(c) /\ ~Kind(c, "pay")
  <2> DEFINE new == [call[c] EXCEPT !.pc = "transition"]
  <2>1. call' = [call EXCEPT ![c] = new] /\ call'[c] = new /\ new \in CallType
    BY <1>0, <1>4 DEF Read, Inv, TypeOK, CallType
  <2>2. CallSound(c)'
    BY <1>0, <1>4, <2>1 DEF Read, CallSound, InPlace, Informed, Entitled, Metered, At, Kind,
       Gated, metering, CallType
  <2> QED
    BY <2>1, <2>2, CallStep DEF Read
<1> QED
  BY <1>1, <1>2, <1>3, <1>4

\* A call goes on to its next step without anything else changing.
LEMMA GotoStep ==
  ASSUME Inv, NEW c \in Procs, NEW pc \in {"insert", "reread", "meter", "apply"},
         Goto(c, pc), UNCHANGED <<sub, metering, failures>>,
         ~At(c, "settle"), ~At(c, "idle"),
         pc = "insert" => At(c, "create"),
         pc = "reread" => Gated(c) /\ (failures = 0 => sub.status # "none"),
         pc = "meter" => At(c, "enforce") /\ Kind(c, "use") /\ ~Blocked(call[c].status),
         pc = "apply" => At(c, "transition")
  PROVE  Inv'
<1> DEFINE new == [call[c] EXCEPT !.pc = pc]
<1>1. call' = [call EXCEPT ![c] = new] /\ call'[c] = new /\ new \in CallType
  BY DEF Goto, Inv, TypeOK, CallType
<1>2. CallSound(c)'
  BY <1>1 DEF Inv, CallSound, InPlace, Informed, Entitled, Metered, At, Kind, Gated, metering
<1> QED
  BY <1>1, <1>2, CallStep

LEMMA ConflictStep ==
  ASSUME Inv, NEW c \in Procs, Conflict(c), UNCHANGED <<sub, metering, failures>>,
         call[c].pc \in {"create", "insert"}, sub.status # "none"
  PROVE  Inv'
<1>1. CASE Gated(c)
  BY <1>1, GotoStep DEF Conflict, AfterConflict, At
<1>2. CASE ~Gated(c)
  BY <1>2, FinishStep DEF Conflict, AfterConflict, At
<1> QED
  BY <1>1, <1>2

LEMMA CreateSelectStep ==
  ASSUME Inv, NEW c \in Procs, CreateSelect(c)
  PROVE  Inv'
<1>1. CASE sub.status = "none"
  BY <1>1, GotoStep DEF CreateSelect, At
<1>2. CASE sub.status # "none"
  BY <1>2, ConflictStep DEF CreateSelect, At
<1> QED
  BY <1>1, <1>2

LEMMA ReadBackStep ==
  ASSUME Inv, NEW c \in Procs, ReadBack(c)
  PROVE  Inv'
<1>0. call[c] \in CallType /\ CallSound(c) /\ sub.status \in Statuses \cup {"none"} /\ sub.plan \in Plans
  BY DEF Inv, TypeOK, CallType
<1>1. CASE sub.status = "none"
  <2>1. failures # 0
    BY <1>0, <1>1 DEF ReadBack, CallSound, Informed
  <2> QED
    BY <1>1, <2>1, FinishStep DEF ReadBack, At
<1>2. CASE sub.status # "none"
  <2> DEFINE new == [Reread(c) EXCEPT !.pc = "enforce"]
  <2>1. call' = [call EXCEPT ![c] = new] /\ call'[c] = new /\ new \in CallType
    BY <1>0, <1>2 DEF ReadBack, Reread, Inv, TypeOK, CallType
  <2>2. CallSound(c)'
    BY <1>0, <1>2, <2>1 DEF ReadBack, CallSound, InPlace, Informed, Entitled, Metered, At,
       Kind, Gated, metering, CallType, Reread, InService, Blocked
  <2> QED
    BY <1>2, <2>1, <2>2, CallStep DEF ReadBack
<1> QED
  BY <1>1, <1>2

LEMMA EnforceStep ==
  ASSUME Inv, NEW c \in Procs, Enforce(c)
  PROVE  Inv'
<1>0. CallSound(c) /\ At(c, "enforce")
  BY DEF Inv, Enforce
<1>1. CASE Blocked(call[c].status)
  BY <1>0, <1>1, FinishStep DEF Enforce, At
<1>2. CASE ~Blocked(call[c].status) /\ Kind(c, "enter")
  <2>1. call[c].served
    BY <1>0, <1>2 DEF CallSound, Entitled
  <2>2. Finish(c, "accepted")
    BY <1>2 DEF Enforce, Kind
  <2> QED
    BY <1>0, <2>1, <2>2, FinishStep DEF Enforce, At
<1>3. CASE ~Blocked(call[c].status) /\ Kind(c, "use")
  <2>1. Goto(c, "meter")
    BY <1>3 DEF Enforce, Kind
  <2> QED
    BY <1>0, <1>3, <2>1, GotoStep DEF Enforce, At
<1> QED
  BY <1>0, <1>1, <1>2, <1>3 DEF CallSound, InPlace, Gated, Kind, At

LEMMA RecordPaymentStep ==
  ASSUME Inv, NEW c \in Procs, RecordPayment(c)
  PROVE  Inv'
<1> DEFINE new == [Ask("pay") EXCEPT !.pc = "transition", !.result = call[c].result]
<1>0. call[c] \in CallType /\ CallSound(c) /\ At(c, "payment")
  BY DEF Inv, TypeOK, CallType, RecordPayment
<1>1. CASE Finish(c, "ended")
  BY <1>0, <1>1, FinishStep DEF RecordPayment, At
<1>2. CASE call' = [call EXCEPT ![c] = new]
  <2>1. new \in CallType
    BY <1>0, BillingAssumption DEF Ask, Idle, CallType
  <2>2. call'[c] = new
    BY <1>2 DEF Inv, TypeOK
  <2>3. /\ new.pc = "transition" /\ new.kind = "pay" /\ new.outcome = "ended"
    BY <1>0 DEF Ask, Idle
  <2>4. CallSound(c)'
    BY <1>0, <2>2, <2>3 DEF RecordPayment, CallSound, InPlace, Informed, Entitled, Metered,
       At, Kind, Gated, metering, Transitioning
  <2> QED
    BY <1>2, <2>1, <2>4, CallStep DEF RecordPayment
<1> QED
  BY <1>1, <1>2 DEF RecordPayment

LEMMA TransitionSelectStep ==
  ASSUME Inv, NEW c \in Procs, TransitionSelect(c)
  PROVE  Inv'
<1>1. CASE Goto(c, "apply")
  BY <1>1, GotoStep DEF TransitionSelect, At
<1>2. CASE Finish(c, "ended")
  BY <1>2, FinishStep DEF TransitionSelect, At
<1> QED
  BY <1>1, <1>2 DEF TransitionSelect

LEMMA CreateInsertStep ==
  ASSUME Inv, NEW c \in Procs, CreateInsert(c)
  PROVE  Inv'
<1> DEFINE p == call[c].plan
<1> DEFINE row == [NoSubscription EXCEPT !.status = InitialStatus(p), !.plan = p]
<1> DEFINE new == IF Gated(c)
                  THEN [call[c] EXCEPT !.pc = "enforce", !.status = row.status, !.plan = p]
                  ELSE Finished(c, "ended")
<1>0. call[c] \in CallType /\ CallSound(c) /\ At(c, "insert") /\ p \in Plans
  BY DEF Inv, TypeOK, CallType, CreateInsert
<1>1. CASE sub.status # "none"
  BY <1>1, ConflictStep DEF CreateInsert, At
<1>2. CASE sub.status = "none"
  <2>1. sub' = row /\ call' = [call EXCEPT ![c] = new] /\ UNCHANGED <<metering, failures>>
    BY <1>2 DEF CreateInsert
  <2>2. /\ row.status \in {"trialing", "active"} /\ row.plan = p /\ row.grace = FALSE
        /\ row \in [status : Statuses \cup {"none"}, plan : Plans, grace : BOOLEAN]
    BY <1>0 DEF NoSubscription, InitialStatus, Statuses
  <2>3. new \in CallType
    <3>1. CASE Gated(c)
      BY <1>0, <2>2, <3>1 DEF CallType, Statuses
    <3>2. CASE ~Gated(c)
      BY <3>2, FinishedType DEF Inv
    <3> QED
      BY <3>1, <3>2
  <2>4. TypeOK'
    BY <2>1, <2>2, <2>3 DEF Inv, TypeOK, CallType, metering
  <2>5. CallSound(c)'
    <3>1. call'[c] = new
      BY <2>1 DEF Inv, TypeOK
    <3>2. CASE Gated(c)
      BY <1>0, <1>2, <2>1, <2>2, <3>1, <3>2 DEF CallSound, InPlace, Informed, Entitled,
         Metered, At, Kind, Gated, metering, CallType, InService, Blocked
    <3>3. CASE ~Gated(c)
      BY <1>0, <2>1, <3>1, <3>3, FinishedType DEF Inv, CallSound, InPlace, Informed, Entitled,
         Metered, At, Kind, Gated, metering
    <3> QED
      BY <3>2, <3>3
  <2>6. ASSUME NEW d \in Procs, d # c PROVE CallSound(d)'
    <3>1. call'[d] = call[d] /\ CallSound(d)
      BY <2>1, <2>6 DEF Inv, TypeOK
    <3> QED
      BY <1>2, <2>1, <2>2, <3>1 DEF CallSound, InPlace, Informed, Entitled, Metered, At, Kind,
         Gated, metering, InService
  <2>7. UnusedBefore' /\ UsageIsExact'
    BY <1>0, <1>2, <2>1, <2>2, BillingAssumption DEF Inv, UnusedBefore, UsageIsExact, metering
  <2>8. GraceIsTimed'
    BY <2>1, <2>2 DEF GraceIsTimed
  <2> QED
    BY <2>4, <2>5, <2>6, <2>7, <2>8 DEF Inv
<1> QED
  BY <1>1, <1>2

LEMMA IncrementStep ==
  ASSUME Inv, NEW c \in Procs, Increment(c)
  PROVE  Inv'
<1> DEFINE new == [call[c] EXCEPT !.pc = "settle", !.total = usage + call[c].quantity]
<1>1. call[c] \in CallType /\ CallSound(c) /\ usage \in Nat
  BY DEF Inv, TypeOK, CallType
<1>2. /\ call' = [call EXCEPT ![c].pc = "settle", ![c].total = usage + call[c].quantity]
      /\ call' = [call EXCEPT ![c] = new] /\ call'[c] = new
  <2>1. call' = [call EXCEPT ![c].pc = "settle", ![c].total = usage + call[c].quantity]
    BY DEF Increment
  <2> QED
    BY <2>1 DEF Inv, TypeOK
<1>3. TypeOK'
  <2>1. usage + call[c].quantity \in Nat
    BY <1>1 DEF CallType
  <2>2. new \in CallType
    BY <1>1, <2>1 DEF CallType
  <2>3. call' \in [Procs -> CallType]
    BY <1>2, <2>2 DEF Inv, TypeOK, CallType
  <2> QED
    BY <2>3 DEF Increment, Inv, TypeOK, CallType
<1>4. CallSound(c)'
  BY <1>1, <1>2 DEF Increment, CallSound, InPlace, Informed, Entitled, Metered, At, Kind,
     Gated, CallType
<1>5. ASSUME NEW d \in Procs, d # c PROVE CallSound(d)'
  <2>1. call'[d] = call[d] /\ CallSound(d) /\ meter # d
    BY <1>5, BillingAssumption DEF Increment, RowFree, Inv, TypeOK
  <2> QED
    BY <1>5, <2>1, Kept DEF Increment
<1>6. UnusedBefore' /\ UsageIsExact' /\ GraceIsTimed'
  BY DEF Increment, Inv, UnusedBefore, UsageIsExact, GraceIsTimed
<1> QED
  BY <1>3, <1>4, <1>5, <1>6 DEF Inv

\* The call that holds the lock ends: the count stays, or becomes its own.
LEMMA MeterEnds ==
  ASSUME Inv, NEW c \in Procs, At(c, "settle"),
         NEW o \in {"accepted", "ended"}, Finish(c, o), meter' = Null, UNCHANGED sub,
         failures' \in 0..MaxFailures, failures' >= failures,
         \/ usage' = usage /\ booked' = booked
         \/ /\ ~Exceeds(c) /\ usage' = call[c].total
            /\ \/ booked' = booked + call[c].quantity /\ failures' = failures
               \/ booked' = booked /\ failures' # 0
  PROVE  Inv'
<1> DEFINE new == Finished(c, o)
<1>1. /\ call[c] \in CallType /\ CallSound(c) /\ usage \in Nat /\ booked \in Nat
      /\ failures \in 0..MaxFailures /\ meter = c /\ sub.plan \in Plans
  BY DEF Inv, TypeOK, CallType, CallSound, Metered
<1>2. call' = [call EXCEPT ![c] = new] /\ call'[c] = new /\ new \in CallType
  BY FinishedType DEF Finish, Inv, TypeOK
<1>3. TypeOK'
  BY <1>1, <1>2 DEF Inv, TypeOK, CallType
<1>4. CallSound(c)'
  BY <1>1, <1>2, FinishedType, BillingAssumption DEF Inv, CallSound, InPlace, Informed,
     Entitled, Metered, At, Kind, Gated
<1>5. ASSUME NEW d \in Procs, d # c PROVE CallSound(d)'
  <2>1. call'[d] = call[d] /\ CallSound(d) /\ meter # d /\ meter' # d /\ ~At(d, "settle")
    BY <1>1, <1>2, <1>5, BillingAssumption DEF Inv, TypeOK, CallSound, Metered
  <2> QED
    BY <1>1, <2>1, BillingAssumption DEF CallSound, InPlace, Informed, Entitled, Metered, At,
       Kind, Gated
<1>6. call[c].total = usage + call[c].quantity /\ call[c].plan = sub.plan /\ sub.status # "none"
  BY <1>1 DEF CallSound, Informed, Metered, At
<1>7. call[c].quantity \in Nat
  BY <1>1 DEF CallType
<1>8. UsageIsExact'
  <2>1. Limit[sub.plan] # Null => Limit[sub.plan] \in Nat
    BY <1>1, BillingAssumption
  <2> QED
    BY <1>1, <1>6, <1>7, <2>1, BillingAssumption DEF Inv, UsageIsExact, Exceeds
<1>9. UnusedBefore' /\ GraceIsTimed'
  BY <1>6 DEF Inv, UnusedBefore, GraceIsTimed
<1> QED
  BY <1>3, <1>4, <1>5, <1>8, <1>9 DEF Inv

LEMMA SettleStep ==
  ASSUME Inv, NEW c \in Procs, Settle(c)
  PROVE  Inv'
<1>1. failures' \in 0..MaxFailures /\ failures' >= failures /\ failures' = failures
  BY BillingAssumption DEF Settle, Inv, TypeOK
<1>2. CASE Exceeds(c)
  BY <1>1, <1>2, MeterEnds DEF Settle
<1>3. CASE ~Exceeds(c)
  BY <1>1, <1>3, MeterEnds DEF Settle
<1> QED
  BY <1>2, <1>3

LEMMA FailUnseenStep ==
  ASSUME Inv, NEW c \in Procs, FailUnseen(c)
  PROVE  Inv'
<1>1. failures' \in 0..MaxFailures /\ failures' >= failures /\ failures' # 0
  BY BillingAssumption DEF FailUnseen, Inv, TypeOK
<1> QED
  BY <1>1, MeterEnds DEF FailUnseen

LEMMA FailStep ==
  ASSUME Inv, NEW c \in Procs, Fail(c)
  PROVE  Inv'
<1>1. failures' \in 0..MaxFailures /\ failures' >= failures /\ failures' # 0
  BY BillingAssumption DEF Fail, Inv, TypeOK
<1>2. CASE At(c, "settle")
  <2>1. meter = c
    BY <1>2 DEF Inv, CallSound, Metered
  <2> QED
    BY <1>1, <1>2, <2>1, MeterEnds DEF Fail, At
<1>3. CASE ~At(c, "settle")
  <2> DEFINE new == IF Gated(c) /\ call[c].pc \in {"create", "insert"}
                    THEN [call[c] EXCEPT !.pc = "reread"] ELSE Finished(c, "ended")
  <2>0. call[c] \in CallType /\ CallSound(c) /\ meter # c /\ meter' = meter
    BY <1>3 DEF Inv, TypeOK, CallType, CallSound, Metered, Fail
  <2>1. call' = [call EXCEPT ![c] = new] /\ call'[c] = new
    BY DEF Fail, Goto, Finish, Inv, TypeOK
  <2>2. new \in CallType
    BY <2>0, FinishedType DEF Inv, CallType
  <2>3. TypeOK'
    BY <1>1, <2>0, <2>1, <2>2 DEF Fail, Inv, TypeOK, CallType
  <2>4. CallSound(c)'
    BY <1>1, <1>3, <2>0, <2>1, FinishedType DEF Fail, Inv, CallSound, InPlace, Informed,
       Entitled, Metered, At, Kind, Gated
  <2>5. ASSUME NEW d \in Procs, d # c PROVE CallSound(d)'
    <3>1. call'[d] = call[d] /\ CallSound(d)
      BY <2>1, <2>5 DEF Inv, TypeOK
    <3> QED
      BY <1>1, <2>0, <3>1 DEF Fail, CallSound, InPlace, Informed, Entitled, Metered, At, Kind,
         Gated
  <2>6. UnusedBefore' /\ UsageIsExact' /\ GraceIsTimed'
    BY <1>1 DEF Fail, Inv, UnusedBefore, UsageIsExact, GraceIsTimed
  <2> QED
    BY <2>3, <2>4, <2>5, <2>6 DEF Inv
<1> QED
  BY <1>2, <1>3

LEMMA TransitionApplyStep ==
  ASSUME Inv, NEW c \in Procs, TransitionApply(c)
  PROVE  Inv'
<1> DEFINE target == Target(c)
<1> DEFINE row == [sub EXCEPT !.status = Target(c), !.grace = GraceAfter(c)]
<1> DEFINE new(d) == IF d = c THEN Finished(c, "ended")
                     ELSE [call[d] EXCEPT !.served = @ \/ (Gated(d) /\ InService(Target(c)))]
<1>1. /\ CallSound(c) /\ At(c, "apply") /\ call[c].kind \in Transitioning
      /\ sub.status # "none" /\ sub' = row /\ call' = [d \in Procs |-> new(d)]
      /\ UNCHANGED <<metering, failures>>
  BY DEF Inv, TransitionApply, CallSound, InPlace, Informed, At
<1>2. Target(c) \in {"suspended", "canceled", "grace_period", "active"}
  BY <1>1 DEF Target, Kind, Transitioning, Commands
<1>3. /\ GraceAfter(c) \in BOOLEAN
      /\ Target(c) = "grace_period" => GraceAfter(c)
      /\ Target(c) = "active" => ~GraceAfter(c)
  BY <1>2 DEF GraceAfter, Inv, TypeOK
<1>4. /\ row.status = Target(c) /\ row.plan = sub.plan /\ row.grace = GraceAfter(c)
      /\ row \in [status : Statuses \cup {"none"}, plan : Plans, grace : BOOLEAN]
  BY <1>2, <1>3 DEF Inv, TypeOK, Statuses
<1>5. ASSUME NEW d \in Procs PROVE new(d) \in CallType
  <2>1. CASE d = c
    BY <2>1, FinishedType DEF Inv
  <2>2. CASE d # c
    <3>1. call[d] \in CallType
      BY DEF Inv, TypeOK, CallType
    <3>2. ASSUME NEW b \in BOOLEAN PROVE [call[d] EXCEPT !.served = b] \in CallType
      BY <3>1 DEF CallType
    <3>3. (call[d].served \/ (Gated(d) /\ InService(Target(c)))) \in BOOLEAN
      OBVIOUS
    <3> QED
      BY <2>2, <3>2, <3>3, Zenon
  <2> QED
    BY <2>1, <2>2
<1>6. TypeOK'
  <2>1. call' \in [Procs -> CallType]
    BY <1>1, <1>5
  <2> QED
    BY <1>1, <1>4, <2>1 DEF Inv, TypeOK, CallType, metering
<1>7. CallSound(c)'
  <2>1. call'[c] = Finished(c, "ended")
    BY <1>1
  <2> QED
    BY <1>1, <1>2, <1>4, <2>1, FinishedType DEF Inv, CallSound, InPlace, Informed, Entitled,
       Metered, At, Kind, Gated, metering
<1>8. ASSUME NEW d \in Procs, d # c PROVE CallSound(d)'
  <2> DEFINE nd == [call[d] EXCEPT !.served = @ \/ (Gated(d) /\ InService(Target(c)))]
  <2>1. call'[d] = nd /\ CallSound(d) /\ call[d] \in CallType
    BY <1>1, <1>8 DEF Inv, TypeOK, CallType
  <2>2. /\ nd.pc = call[d].pc /\ nd.kind = call[d].kind /\ nd.outcome = call[d].outcome
        /\ nd.status = call[d].status /\ nd.plan = call[d].plan /\ nd.total = call[d].total
        /\ nd.quantity = call[d].quantity
        /\ nd.served = (call[d].served \/ (Gated(d) /\ InService(Target(c))))
    BY <2>1 DEF CallType
  <2>3. InPlace(d)'
    BY <2>1, <2>2 DEF CallSound, InPlace, At, Kind, Gated
  <2>4. Informed(d)'
    BY <1>1, <1>2, <1>4, <2>1, <2>2 DEF CallSound, Informed, At
  <2>5. Entitled(d)'
    BY <1>1, <1>4, <2>1, <2>2 DEF CallSound, Entitled, At, Gated
  <2>6. Metered(d)'
    BY <1>1, <2>1, <2>2 DEF CallSound, Metered, At, metering
  <2> QED
    BY <2>3, <2>4, <2>5, <2>6 DEF CallSound
<1>9. UnusedBefore' /\ UsageIsExact' /\ GraceIsTimed'
  BY <1>1, <1>2, <1>3, <1>4 DEF Inv, UnusedBefore, UsageIsExact, GraceIsTimed, metering
<1> QED
  BY <1>6, <1>7, <1>8, <1>9 DEF Inv

LEMMA StutterStep ==
  ASSUME Inv, UNCHANGED vars
  PROVE  Inv'
BY DEF Inv, vars, TypeOK, CallSound, InPlace, Informed, Entitled, Metered, UnusedBefore,
   UsageIsExact, GraceIsTimed, At, Kind, Gated

LEMMA NextInv == Inv /\ [Next]_vars => Inv'
<1> SUFFICES ASSUME Inv, [Next]_vars PROVE Inv'
  OBVIOUS
<1>1. ASSUME NEW c \in Calls, Request(c) PROVE Inv'
  BY <1>1, RequestStep
<1>2. ASSUME NEW command \in Commands, ListDue(command) PROVE Inv'
  BY <1>2, ListDueStep
<1>3. ASSUME NEW c \in Procs, Advance(c) PROVE Inv'
  BY <1>3, ReadStep, CreateSelectStep, CreateInsertStep, ReadBackStep, EnforceStep,
     IncrementStep, SettleStep, RecordPaymentStep, TransitionSelectStep, TransitionApplyStep
     DEF Advance
<1>4. ASSUME NEW c \in Procs, Fail(c) \/ FailUnseen(c) PROVE Inv'
  BY <1>4, FailStep, FailUnseenStep
<1> QED
  BY <1>1, <1>2, <1>3, <1>4, StutterStep DEF Next

LEMMA InvAlways == Spec => []Inv
BY InitInv, NextInv, PTL DEF Spec

\* Subscription, usage and calls keep to their values, for any number of calls and
\* plans and any number of failures.
THEOREM TypeCorrect == Spec => []TypeOK
<1>1. Inv => TypeOK
  BY DEF Inv
<1> QED
  BY <1>1, InvAlways, PTL

\* No unit of usage is lost or given beyond the limit, whatever calls meet on the
\* row (incrementAndCheck).
THEOREM UsageAlwaysExact == Spec => []UsageIsExact
<1>1. Inv => UsageIsExact
  BY DEF Inv
<1> QED
  BY <1>1, InvAlways, PTL

\* Nobody is let through whose tenant was out of service all the while
\* (enforceActiveSubscription).
THEOREM UseIsEntitled == Spec => []EntitledUse
<1>1. Inv => EntitledUse
  BY DEF Inv, CallSound, Entitled, EntitledUse, Procs
<1> QED
  BY <1>1, InvAlways, PTL

\* Every grace period has an end (transitionStatus).
THEOREM GraceAlwaysTimed == Spec => []GraceIsTimed
<1>1. Inv => GraceIsTimed
  BY DEF Inv
<1> QED
  BY <1>1, InvAlways, PTL

\* Whoever provisions a subscription on the way has one in the end
\* (getOrCreateSubscription).
THEOREM ProvisionSucceeds == Spec => []ProvisionNeverLost
<1>1. Inv => ProvisionNeverLost
  BY DEF Inv, CallSound, Informed, ProvisionNeverLost, Procs
<1> QED
  BY <1>1, InvAlways, PTL
=============================================================================
