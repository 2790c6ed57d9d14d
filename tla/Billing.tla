-------------------------------- MODULE Billing --------------------------------
(***************************************************************************)
(* Billing of one tenant: EntitlementService over SubscriptionRepository    *)
(* and UsageRepository, and the scheduled script billing-lifecycle-audit.   *)
(*                                                                         *)
(* A call is a process.  Each action is one transaction, or the statements *)
(* of one between two points where another call may come in: transitions   *)
(* select a row without locking it and write it later, while the metering  *)
(* of usage holds the lock of its row from its first statement on.          *)
(***************************************************************************)
EXTENDS Integers

CONSTANTS
    Calls,        \* calls of the service
    Plans,        \* the catalogue of plans
    FreePlan,     \* the plan of a tenant that never chose one
    TrialPlans,   \* the plans with trial days
    Limit,        \* Plans -> units per month, or Null
    Quantities,   \* units a metered call asks for
    Null,
    MaxUsage,     \* bound on the usage at which metered calls begin
    MaxFailures   \* bound on failing transactions

\* The two commands of the script, and the process that runs it.
Commands == {"expire-trials", "expire-grace-periods"}
Audit    == "audit"
Procs    == Calls \cup {Audit}

ASSUME BillingAssumption ==
    /\ FreePlan \in Plans \ TrialPlans
    /\ Limit \in [Plans -> Nat \cup {Null}]
    /\ Quantities \subseteq Nat \ {0}
    /\ MaxUsage \in Nat
    /\ MaxFailures \in Nat
    /\ Null \notin Procs
    /\ Audit \notin Calls

VARIABLES
    sub,       \* the tenant's row of billing.subscriptions
    usage,     \* committed quantity of the month's row of billing.usage_records
    meter,     \* Null, or the call that holds the lock of that row
    booked,    \* units of all the calls that were let through
    call,      \* Procs -> the call and its progress
    failures   \* failed transactions so far

vars == <<sub, usage, meter, booked, call, failures>>
metering == <<usage, meter, booked>>

Statuses == {"trialing", "active", "past_due", "grace_period", "suspended", "canceled"}
Results  == {"paid", "pending", "failed"}

\* grace: whether the end of a grace period is set.  The end of a trial is set from
\* the start where the plan has one; payment_status is left out, no code reads it.
NoSubscription == [status |-> "none", plan |-> FreePlan, grace |-> FALSE]

\* status, plan: what the call read of the subscription (plan: at first the one to
\* start with); total: its uncommitted count;
\* served: whether the tenant was in service at some moment since it began.
\* outcome: how the call before this one ended: let through, without a subscription
\* to judge, or in any other way.
Idle == [pc |-> "idle", kind |-> "none", quantity |-> 0, result |-> "pending",
         status |-> "none", plan |-> FreePlan, total |-> 0, served |-> FALSE,
         outcome |-> "ended"]

Init ==
    /\ sub = NoSubscription
    /\ usage = 0
    /\ meter = Null
    /\ booked = 0
    /\ call = [c \in Procs |-> Idle]
    /\ failures = 0

At(c, pc) == call[c].pc = pc
Kind(c, kind) == call[c].kind = kind

Goto(c, pc) == call' = [call EXCEPT ![c].pc = pc]

\* The call answers; what it has read is gone.
Finished(c, outcome) ==
    [Idle EXCEPT !.served = call[c].served /\ outcome = "accepted", !.outcome = outcome]

Finish(c, outcome) == call' = [call EXCEPT ![c] = Finished(c, outcome)]

\* A tenant without a subscription is about to get one.
InService(status) == status \notin {"suspended", "canceled"}

\* Calls that need a subscription in service and provision one on the way.
Gated(c) == call[c].kind \in {"enter", "use"}

-----------------------------------------------------------------------------
(* Calls begin.                                                             *)

Start(c, input) ==
    /\ At(c, "idle")
    /\ call' = [call EXCEPT ![c] =
         [input EXCEPT !.served = input.kind \in {"enter", "use"} /\ InService(sub.status)]]
    /\ UNCHANGED <<sub, metering, failures>>

Ask(kind) == [Idle EXCEPT !.pc = "read", !.kind = kind]

\* requireActiveSubscription and enforceUsageLimit, payment results, the first
\* subscription, and what operators do.
Request(c) ==
    \/ \E kind \in {"enter", "suspend", "reactivate", "cancel"} : Start(c, Ask(kind))
    \/ \E q \in Quantities : usage <= MaxUsage /\ Start(c, [Ask("use") EXCEPT !.quantity = q])
    \/ \E p \in Plans : Start(c, [Ask("start") EXCEPT !.pc = "create", !.plan = p])
    \/ \E r \in Results : Start(c, [Ask("pay") EXCEPT !.result = r])

\* The script selects what is due.  An end that is set may have come at any time.
DueTrial == sub.status = "trialing" /\ sub.plan \in TrialPlans

DueGrace == sub.status = "grace_period" /\ sub.grace

ListDue(command) ==
    /\ \/ command = "expire-trials" /\ DueTrial
       \/ command = "expire-grace-periods" /\ DueGrace
    /\ Start(Audit, [Ask(command) EXCEPT !.pc = "transition"])

-----------------------------------------------------------------------------
(* The subscription a call works on.                                        *)

Reread(c) == [call[c] EXCEPT !.status = sub.status, !.plan = sub.plan]

\* getByTenant, and what the service does next with the row it read.
Read(c) ==
    /\ At(c, "read")
    /\ call' = [call EXCEPT ![c] =
         IF sub.status = "none"
         THEN IF Gated(c) THEN [@ EXCEPT !.pc = "create"]
              ELSE Finished(c, "ended")
         ELSE CASE Gated(c)       -> [Reread(c) EXCEPT !.pc = "enforce"]
                [] Kind(c, "pay") -> [Reread(c) EXCEPT !.pc = "payment"]
                [] OTHER          -> [@ EXCEPT !.pc = "transition"]]
    /\ UNCHANGED <<sub, metering, failures>>

\* A lost race is reported to whoever provisions on the way (mutant of AfterConflict).
ConflictThrown(c) == "idle"

\* Whatever startSubscription throws, a lazily provisioning call reads again.
AfterConflict(c) == IF Gated(c) THEN "reread" ELSE "idle"

Conflict(c) ==
    IF AfterConflict(c) = "reread" THEN Goto(c, "reread")
    ELSE Finish(c, IF Gated(c) THEN "unprovisioned" ELSE "ended")

\* create, first statement: is there a subscription already?
CreateSelect(c) ==
    /\ At(c, "create")
    /\ IF sub.status = "none" THEN Goto(c, "insert") ELSE Conflict(c)
    /\ UNCHANGED <<sub, metering, failures>>

\* A status that the table does not know (mutant of InitialStatus).
InitialMisspelt(p) == IF p \in TrialPlans THEN "trial" ELSE "active"

InitialStatus(p) == IF p \in TrialPlans THEN "trialing" ELSE "active"

\* create, the inserts: the row, its first history entry and the event, unless
\* the unique key on tenant_id says that somebody else was faster.
CreateInsert(c) ==
    LET p == call[c].plan
        new == [NoSubscription EXCEPT !.status = InitialStatus(p), !.plan = p]
    IN
    /\ At(c, "insert")
    /\ IF sub.status = "none"
       THEN /\ sub' = new
            /\ call' = [call EXCEPT ![c] =
                 IF Gated(c)
                 THEN [@ EXCEPT !.pc = "enforce", !.status = new.status, !.plan = p]
                 ELSE Finished(c, "ended")]
       ELSE Conflict(c) /\ UNCHANGED sub
    /\ UNCHANGED <<metering, failures>>

\* The provisioning call that was too late reads the other's row.
ReadBack(c) ==
    /\ At(c, "reread")
    /\ IF sub.status = "none" THEN Finish(c, "unprovisioned")
       ELSE call' = [call EXCEPT ![c] = [Reread(c) EXCEPT !.pc = "enforce"]]
    /\ UNCHANGED <<sub, metering, failures>>

-----------------------------------------------------------------------------
(* Entry and metered use.                                                   *)

\* Only a canceled subscription is refused (mutant of Blocked).
BlockedCanceled(status) == status = "canceled"

Blocked(status) == status = "suspended" \/ status = "canceled"

\* enforceActiveSubscription judges the row that was read; a metered call goes on
\* with the limit of its plan.
Enforce(c) ==
    /\ At(c, "enforce")
    /\ CASE Blocked(call[c].status) -> Finish(c, "ended")
         [] ~Blocked(call[c].status) /\ Kind(c, "enter") -> Finish(c, "accepted")
         [] ~Blocked(call[c].status) /\ Kind(c, "use")   -> Goto(c, "meter")
    /\ UNCHANGED <<sub, metering, failures>>

\* Statements do not wait for each other (mutant of RowFree).
NoRowLock == TRUE

RowFree == meter = Null

\* incrementAndCheck: INSERT ... ON CONFLICT DO UPDATE takes the lock of the row,
\* or waits for it, and returns the count with the units of this call.
Increment(c) ==
    /\ At(c, "meter")
    /\ RowFree
    /\ meter' = c
    /\ call' = [call EXCEPT ![c].pc = "settle", ![c].total = usage + call[c].quantity]
    /\ UNCHANGED <<sub, usage, booked, failures>>

\* The count is compared before the units of the call (mutant of Exceeds).
ExceededBefore(c) ==
    Limit[call[c].plan] # Null /\ call[c].total - call[c].quantity > Limit[call[c].plan]

Exceeds(c) == Limit[call[c].plan] # Null /\ call[c].total > Limit[call[c].plan]

\* The check: within the limit the count is committed.  Beyond it the error that
\* is thrown rolls back the increment, its compensation and the event alike.
Settle(c) ==
    /\ At(c, "settle")
    /\ IF Exceeds(c)
       THEN Finish(c, "ended") /\ UNCHANGED <<usage, booked>>
       ELSE /\ usage' = call[c].total
            /\ booked' = booked + call[c].quantity
            /\ Finish(c, "accepted")
    /\ meter' = Null
    /\ UNCHANGED <<sub, failures>>

-----------------------------------------------------------------------------
(* Transitions.                                                             *)

\* recordPayment, and the lifecycle that follows from the status read before it.
RecordPayment(c) ==
    LET result == call[c].result
        status == call[c].status
        follows == \/ result = "paid" /\ status \in {"grace_period", "past_due", "trialing"}
                   \/ result = "failed" /\ status \in {"active", "trialing", "past_due"}
    IN
    /\ At(c, "payment")
    /\ IF follows
       THEN call' = [call EXCEPT ![c] =
              [Ask("pay") EXCEPT !.pc = "transition", !.result = result]]
       ELSE Finish(c, "ended")
    /\ UNCHANGED <<sub, metering, failures>>

Allowed(from) ==
    CASE from = "trialing"     -> {"active", "past_due", "grace_period", "suspended", "canceled"}
      [] from = "active"       -> {"past_due", "grace_period", "suspended", "canceled"}
      [] from = "past_due"     -> {"active", "grace_period", "suspended", "canceled"}
      [] from = "grace_period" -> {"active", "suspended", "canceled"}
      [] from = "suspended"    -> {"active", "canceled"}
      [] from = "canceled"     -> {}

Target(c) ==
    CASE Kind(c, "suspend") \/ Kind(c, "expire-grace-periods") -> "suspended"
      [] Kind(c, "cancel") -> "canceled"
      [] Kind(c, "expire-trials") -> "grace_period"
      [] Kind(c, "reactivate") -> "active"
      [] Kind(c, "pay") -> IF call[c].result = "paid" THEN "active" ELSE "grace_period"

MayTransition(from, to) == to \in Allowed(from)

\* transitionStatus, the SELECT: no lock, and the judgement of the transition.  The
\* target itself is left as it is, and what is not allowed is an error.
TransitionSelect(c) ==
    /\ At(c, "transition")
    /\ IF sub.status # Target(c) /\ MayTransition(sub.status, Target(c))
       THEN Goto(c, "apply")
       ELSE Finish(c, "ended")
    /\ UNCHANGED <<sub, metering, failures>>

\* The end of an earlier grace period is left in place (mutant of GraceAfter).
GraceKept(c) == sub.grace

\* The new end of the grace period, where the caller gives one.
GraceAfter(c) ==
    CASE Target(c) = "grace_period" -> TRUE
      [] Target(c) = "active"       -> FALSE
      [] OTHER                      -> sub.grace

\* The UPDATE names the row by its id alone; a history entry and an event go with it.
TransitionApply(c) ==
    /\ At(c, "apply")
    /\ sub' = [sub EXCEPT !.status = Target(c), !.grace = GraceAfter(c)]
    /\ call' = [d \in Procs |->
         IF d = c THEN Finished(c, "ended")
         ELSE [call[d] EXCEPT !.served = @ \/ (Gated(d) /\ InService(Target(c)))]]
    /\ UNCHANGED <<metering, failures>>

-----------------------------------------------------------------------------
(* Failures.                                                                *)

\* A transaction fails or its process dies; the database releases its lock.  Only
\* the provisioning of a subscription survives a failure.  A commit of a transition
\* or of a provision that the call does not learn of is one it does learn of here.
Fail(c) ==
    /\ call[c].pc \notin {"idle", "enforce"}
    /\ failures < MaxFailures
    /\ failures' = failures + 1
    /\ IF Gated(c) /\ call[c].pc \in {"create", "insert"} THEN Goto(c, "reread")
       ELSE Finish(c, "ended")
    /\ meter' = IF meter = c THEN Null ELSE meter
    /\ UNCHANGED <<sub, usage, booked>>

\* The count is committed, but the call does not learn of it.
FailUnseen(c) ==
    /\ At(c, "settle")
    /\ ~Exceeds(c)
    /\ failures < MaxFailures
    /\ failures' = failures + 1
    /\ usage' = call[c].total
    /\ meter' = Null
    /\ Finish(c, "ended")
    /\ UNCHANGED <<sub, booked>>

\* The next step of a call that is under way.
Advance(c) ==
    \/ Read(c) \/ CreateSelect(c) \/ CreateInsert(c) \/ ReadBack(c)
    \/ Enforce(c) \/ Increment(c) \/ Settle(c)
    \/ RecordPayment(c) \/ TransitionSelect(c) \/ TransitionApply(c)

Next ==
    \/ \E c \in Calls : Request(c)
    \/ \E command \in Commands : ListDue(command)
    \/ \E c \in Procs : Advance(c) \/ Fail(c) \/ FailUnseen(c)

Spec == Init /\ [][Next]_vars

\* Whatever has an end comes to it, and the script is run again and again.
FairSpec ==
    /\ Spec
    /\ \A command \in Commands : WF_vars(ListDue(command))
    /\ WF_vars(Advance(Audit))

-----------------------------------------------------------------------------
TypeOK ==
    /\ sub \in [status : Statuses \cup {"none"}, plan : Plans, grace : BOOLEAN]
    /\ usage \in Nat
    /\ booked \in Nat
    /\ meter \in Procs \cup {Null}
    /\ call \in [Procs ->
         [pc : {"idle", "read", "create", "insert", "reread", "enforce", "meter", "settle",
                "payment", "transition", "apply"},
          kind : {"none", "enter", "use", "start", "pay", "suspend", "reactivate", "cancel"}
                   \cup Commands,
          quantity : Nat, result : Results,
          status : Statuses \cup {"none"}, plan : Plans, total : Nat, served : BOOLEAN,
          outcome : {"accepted", "unprovisioned", "ended"}]]
    /\ failures \in 0..MaxFailures

\* Metered calls never get more units between them than the plan allows, every
\* unit they get is counted, and without failures nothing else is, whatever
\* increments meet (incrementAndCheck).
UsageIsExact ==
    /\ booked <= usage
    /\ failures = 0 => usage = booked
    /\ Limit[sub.plan] # Null => usage <= Limit[sub.plan]

\* A call is let through only if its tenant was in service at some moment since
\* the call began (enforceActiveSubscription): whoever asks after a suspension is
\* refused, although nothing is locked between the check and the use.
EntitledUse == \A c \in Calls : call[c].outcome = "accepted" => call[c].served

\* A grace period always has an end, and no end outlives it into active service,
\* whichever transitions overwrite each other (transitionStatus).
GraceIsTimed ==
    /\ sub.status = "grace_period" => sub.grace
    /\ sub.status = "active" => ~sub.grace

\* Calls that provision a subscription on the way all end up with the one that
\* is made, however they race (getOrCreateSubscription).
ProvisionNeverLost ==
    failures = 0 => \A c \in Calls : call[c].outcome # "unprovisioned"

\* If the script is run on and on, no grace period lasts for ever.
GraceEnds == (sub.status = "grace_period") ~> (sub.status # "grace_period")
=============================================================================
