--------------------------- MODULE DataAcquisition ---------------------------
(***************************************************************************)
(* Data acquisition: collection runs, webhook receipts and publication     *)
(* packages (packages/data-acquisition-runtime over                        *)
(* packages/database/src/repositories/da).                                 *)
(*                                                                         *)
(* A task is one call of the service.  Each of its steps is one            *)
(* transaction; what an earlier transaction read is kept in the task, and  *)
(* may be stale when a later one uses it.  BusinessIntake extends this     *)
(* module with the layer that receives the packages.                       *)
(***************************************************************************)
EXTENDS Integers, FiniteSets

CONSTANTS
    Tasks,         \* concurrent calls
    Runs,          \* collection runs that can be created
    Packages,      \* publication packages that can be created
    Keys,          \* (source, idempotency key) pairs of webhook deliveries
    Batches,       \* the records of a request, see BatchType
    PageLimit,     \* provenance records that one read returns at most
    Null           \* no run, no key, no batch

\* A batch is told apart by how many of its records are valid and invalid, the
\* quality class of its score, what its valid records add up to in the balance
\* of the item, and whether they can be mapped to operational commands.  Class
\* "low" is below the floor of publication (50), "fair" below the threshold of
\* business operations (80), or under a critical limitation.
Qualities == {"low", "fair", "good"}

BatchType == [valid : Nat, invalid : Nat, quality : Qualities,
              change : Int, mappable : BOOLEAN]

ASSUME AcquisitionAssumption ==
    /\ Batches \subseteq BatchType
    /\ PageLimit \in Nat
    /\ Null \notin Runs \cup Packages \cup Keys \cup Batches

VARIABLES
    run,       \* Runs -> [state, batch], a row and its manual submission
    receipts,  \* <<key, run>> rows of webhook_receipts
    package,   \* Packages -> row of publication_packages
    task,      \* Tasks -> the call, where it is and what it has read
    crashed    \* whether some runIntake has been cut off

acquisition == <<run, receipts, package>>

NoRun == [state |-> "none", batch |-> Null]

NoPackage == [status |-> "none", run |-> Null, issued |-> FALSE]

NoTask == [pc |-> "idle", run |-> Null, key |-> Null, batch |-> Null,
           package |-> Null]

AcquisitionInit ==
    /\ run = [r \in Runs |-> NoRun]
    /\ receipts = {}
    /\ package = [p \in Packages |-> NoPackage]
    /\ task = [t \in Tasks |-> NoTask]
    /\ crashed = FALSE

At(t, pc) == task[t].pc = pc

Goto(t, pc) == task' = [task EXCEPT ![t].pc = pc]

Begin(t, call) == At(t, "idle") /\ task' = [task EXCEPT ![t] = call]

\* The call returns, with a result or an error.
Return(t) == task' = [task EXCEPT ![t] = NoTask]

-----------------------------------------------------------------------------
(* Collection runs.                                                         *)

\* COLLECTION_RUN_TRANSITIONS
MayBecome(next) ==
    CASE next = "collecting"  -> {"planned", "scheduled"}
      [] next = "collected"   -> {"collecting"}
      [] next = "failed"      -> {"collecting"}
      [] next = "cancelled"   -> {"collecting"}
      [] next = "validated"   -> {"collected", "quarantined"}
      [] next = "quarantined" -> {"collected", "validated"}
      [] next = "published"   -> {"validated"}

Admits(r, next) == run[r].state \in MayBecome(next)

Transition(r, next) == run' = [run EXCEPT ![r].state = next]

\* Which of the fresh ids a row gets means nothing.
FreshRuns == {r \in Runs : run[r].state = "none"}
NewRun == CHOOSE r \in FreshRuns : TRUE

\* planned and collecting are one transaction.
StartRun(t, k, b) ==
    /\ FreshRuns # {}
    /\ Transition(NewRun, "collecting")
    /\ Begin(t, [NoTask EXCEPT !.pc = "process", !.run = NewRun, !.key = k, !.batch = b])
    /\ UNCHANGED <<receipts, package, crashed>>

SubmitManualIntake(t, b) == StartRun(t, Null, b)

\* A delivery with a receipt is answered with the run it led to, and changes
\* nothing.  The look-up is taken together with the start of the run: a receipt
\* that appears between the two is met by the unique index, as one that appears
\* after them is.
ReceiveWebhook(t, k, b) ==
    /\ \A r \in Runs : <<k, r>> \notin receipts
    /\ StartRun(t, k, b)

\* Two receipts may carry one key (mutant of KeyFree).
NoUniqueIndex(k) == TRUE

\* The unique index on (data_source_id, idempotency_key).
KeyFree(k) == \A r \in Runs : <<k, r>> \notin receipts

Processable(t) ==
    /\ Admits(task[t].run, "collected")
    /\ task[t].key = Null \/ KeyFree(task[t].key)

\* Submission, validation, score, provenance, counts, verdict and receipt.
ProcessRun(t) ==
    LET r == task[t].run
        b == task[t].batch
    IN  /\ At(t, "process")
        /\ Processable(t)
        /\ run' = [run EXCEPT ![r] =
             [state |-> IF b.invalid = 0 THEN "validated" ELSE "quarantined", batch |-> b]]
        /\ receipts' = IF task[t].key = Null THEN receipts ELSE receipts \cup {<<task[t].key, r>>}
        /\ Return(t)
        /\ UNCHANGED <<package, crashed>>

ProcessingRejected(t) ==
    /\ At(t, "process")
    /\ ~Processable(t)
    /\ Goto(t, "failing")
    /\ UNCHANGED <<acquisition, crashed>>

\* The failure of the processing is not recorded (mutant of MarkRunFailed).
FailureSwallowed(t) ==
    /\ At(t, "failing")
    /\ Return(t)
    /\ UNCHANGED <<acquisition, crashed>>

\* markRunFailedSafely: a run that is no longer collecting is left as it is.
MarkRunFailed(t) ==
    LET r == task[t].run
    IN  /\ At(t, "failing")
        /\ IF Admits(r, "failed") THEN Transition(r, "failed") ELSE UNCHANGED run
        /\ Return(t)
        /\ UNCHANGED <<receipts, package, crashed>>

\* What a reviewer, or an operator, does to a run (no call of the service does).
MarkQuarantined(r) ==
    /\ Admits(r, "quarantined")
    /\ Transition(r, "quarantined")
    /\ UNCHANGED <<receipts, package, task, crashed>>

MarkValidated(r) ==
    /\ Admits(r, "validated")
    /\ Transition(r, "validated")
    /\ UNCHANGED <<receipts, package, task, crashed>>

MarkCancelled(r) ==
    /\ Admits(r, "cancelled")
    /\ Transition(r, "cancelled")
    /\ UNCHANGED <<receipts, package, task, crashed>>

-----------------------------------------------------------------------------
(* Publication packages.                                                    *)

\* One provenance record is kept for each accepted record of the run.
Provenance(r) == run[r].batch.valid

ProvenanceRead(r) == IF Provenance(r) < PageLimit THEN Provenance(r) ELSE PageLimit

\* assertReadyForPreparation, over what three transactions have read; score,
\* counts and provenance do not change once the run is processed.
ReadyForPreparation(r) ==
    /\ run[r].state = "validated"
    /\ ProvenanceRead(r) = run[r].batch.valid

PreparePackage(t, r) ==
    /\ ReadyForPreparation(r)
    /\ Begin(t, [NoTask EXCEPT !.pc = "create", !.run = r])
    /\ UNCHANGED <<acquisition, crashed>>

FreshPackages == {p \in Packages : package[p].status = "none"}
NewPackage == CHOOSE p \in FreshPackages : TRUE

\* draft and ready are one transaction, which does not look at the run again.
CreatePackage(t) ==
    /\ At(t, "create")
    /\ FreshPackages # {}
    /\ package' = [package EXCEPT ![NewPackage] =
         [status |-> "ready", run |-> task[t].run, issued |-> FALSE]]
    /\ Return(t)
    /\ UNCHANGED <<run, receipts, crashed>>

Quality(p) == run[package[p].run].batch.quality

\* assertReadyForPublish
PublishPackage(t, p) ==
    /\ package[p].status = "ready"
    /\ Quality(p) # "low"
    /\ Begin(t, [NoTask EXCEPT !.pc = "publish", !.package = p])
    /\ UNCHANGED <<acquisition, crashed>>

\* The run is published whatever its state (mutant of Publishable).
PackageReady(p) == package[p].status = "ready"

\* A run in quarantine is published as well (mutant of Publishable).
PublishableUnvalidated(p) ==
    /\ package[p].status = "ready"
    /\ run[package[p].run].state \in {"validated", "quarantined"}

Publishable(p) ==
    /\ package[p].status = "ready"
    /\ Admits(package[p].run, "published")

\* publishOn: the package and its run are published together, or neither is.
PublishOn(t) ==
    LET p == task[t].package
    IN  /\ At(t, "publish")
        /\ Publishable(p)
        /\ package' = [package EXCEPT ![p].status = "published", ![p].issued = TRUE]
        /\ Transition(package[p].run, "published")
        /\ Return(t)
        /\ UNCHANGED <<receipts, crashed>>

PublishRejected(t) ==
    /\ At(t, "publish")
    /\ ~Publishable(task[t].package)
    /\ Return(t)
    /\ UNCHANGED <<acquisition, crashed>>

Revoke(p) ==
    /\ package[p].status \in {"ready", "published"}
    /\ package' = [package EXCEPT ![p].status = "revoked"]
    /\ UNCHANGED <<run, receipts, task, crashed>>

-----------------------------------------------------------------------------
(* Faults.                                                                  *)

\* A transaction fails: runIntake turns to the failure of the run, every other
\* call ends, as it does when it is cut off.
Fault(t) ==
    /\ task[t].pc \notin {"idle", "failing"}
    /\ IF At(t, "process") THEN Goto(t, "failing") ELSE Return(t)
    /\ UNCHANGED <<acquisition, crashed>>

\* runIntake is cut off; or marking its run failed fails, which is swallowed.
Crash(t) ==
    /\ task[t].pc \in {"process", "failing"}
    /\ crashed' = TRUE
    /\ Return(t)
    /\ UNCHANGED acquisition

-----------------------------------------------------------------------------

AcquisitionStarts(t) ==
    \/ \E b \in Batches : SubmitManualIntake(t, b)
    \/ \E k \in Keys, b \in Batches : ReceiveWebhook(t, k, b)
    \/ \E r \in Runs : PreparePackage(t, r)
    \/ \E p \in Packages : PublishPackage(t, p)

AcquisitionProceeds(t) ==
    \/ ProcessRun(t)
    \/ ProcessingRejected(t)
    \/ MarkRunFailed(t)
    \/ CreatePackage(t)
    \/ PublishOn(t)
    \/ PublishRejected(t)

OperatorActs ==
    \/ \E r \in Runs : MarkQuarantined(r) \/ MarkValidated(r) \/ MarkCancelled(r)
    \/ \E p \in Packages : Revoke(p)

AcquisitionNext ==
    \/ \E t \in Tasks :
         AcquisitionStarts(t) \/ AcquisitionProceeds(t) \/ Fault(t) \/ Crash(t)
    \/ OperatorActs
=============================================================================
