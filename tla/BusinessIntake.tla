---------------------------- MODULE BusinessIntake ----------------------------
(***************************************************************************)
(* The layer that receives published packages: BusinessIntakeService and   *)
(* the inventory movements of OperationalCommandExecutor, composed with    *)
(* DataAcquisition into the path from a webhook delivery to the balance of *)
(* an inventory item.                                                      *)
(***************************************************************************)
EXTENDS DataAcquisition

CONSTANT InitialStock    \* the balance before any package is received

ASSUME StockAssumption == InitialStock \in Nat

VARIABLES
    delivery,  \* Packages -> status of the publication_deliveries row for this layer
    booked,    \* Runs -> how often the records of the run have been executed
    stock      \* quantity_on_hand of the item

operations == <<delivery, booked, stock>>
vars == <<acquisition, task, crashed, operations>>

Init ==
    /\ AcquisitionInit
    /\ delivery = [p \in Packages |-> "none"]
    /\ booked = [r \in Runs |-> 0]
    /\ stock = InitialStock

-----------------------------------------------------------------------------

\* processPublishedPackage builds the hand-off from the row and processHandoff
\* takes it from its caller, so its quality figures need not be the package's.
\* What the policy refuses goes straight to the record of the refusal.
ProcessHandoff(t, p, quality) ==
    /\ package[p].status = "published"
    /\ Begin(t, [NoTask EXCEPT !.package = p,
                               !.pc = IF quality = "good" THEN "deliver" ELSE "reject"])
    /\ UNCHANGED <<acquisition, crashed, operations>>

Batch(p) == run[package[p].run].batch

\* The balance is not looked at (mutant of Acceptable).
AcceptableOverdrawn(p) ==
    /\ package[p].status = "published"
    /\ Batch(p).mappable

\* FOR UPDATE of the package, then the checks inside the transaction; the last
\* two are the errors of the mapper and of recordInventoryMovement.
Acceptable(p) ==
    /\ package[p].status = "published"
    /\ Batch(p).mappable
    /\ stock + Batch(p).change >= 0

Delivered(p) == delivery[p] = "delivered"

\* A delivered package is executed again (mutant of Undelivered).
AnyPackage(p) == TRUE

Undelivered(p) == ~Delivered(p)

DeliveredReplay(t) ==
    /\ At(t, "deliver")
    /\ package[task[t].package].status = "published"
    /\ Delivered(task[t].package)
    /\ Return(t)
    /\ UNCHANGED <<acquisition, crashed, operations>>

Deliver(t) ==
    LET p == task[t].package
    IN  /\ At(t, "deliver")
        /\ Undelivered(p)
        /\ Acceptable(p)
        /\ delivery' = [delivery EXCEPT ![p] = "delivered"]
        /\ booked' = [booked EXCEPT ![package[p].run] = @ + 1]
        /\ stock' = stock + Batch(p).change
        /\ Return(t)
        /\ UNCHANGED <<acquisition, crashed>>

\* The promise of the transaction is returned, not awaited: its rejection passes
\* by the catch block, and no refusal is recorded.
DeliveryRefused(t) ==
    LET p == task[t].package
    IN  /\ At(t, "deliver")
        /\ \/ package[p].status # "published"
           \/ Undelivered(p) /\ ~Acceptable(p)
        /\ Return(t)
        /\ UNCHANGED <<acquisition, crashed, operations>>

\* A success is not looked for (mutant of FailDelivery).
FailAnyDelivery(p) == delivery' = [delivery EXCEPT ![p] = "failed"]

FailDelivery(p) ==
    IF Delivered(p)
    THEN UNCHANGED delivery
    ELSE delivery' = [delivery EXCEPT ![p] = "failed"]

RecordRejectedDelivery(t) ==
    /\ At(t, "reject")
    /\ FailDelivery(task[t].package)
    /\ Return(t)
    /\ UNCHANGED <<acquisition, crashed, booked, stock>>

-----------------------------------------------------------------------------

Proceed(t) ==
    \/ AcquisitionProceeds(t) /\ UNCHANGED operations
    \/ DeliveredReplay(t)
    \/ Deliver(t)
    \/ DeliveryRefused(t)
    \/ RecordRejectedDelivery(t)

Next ==
    \/ AcquisitionNext /\ UNCHANGED operations
    \/ \E t \in Tasks :
         \/ \E p \in Packages, q \in {"fair", "good"} : ProcessHandoff(t, p, q)
         \/ Proceed(t)

Spec == Init /\ [][Next]_vars

\* A call that has begun goes on, as long as its process lives.
FairSpec == Spec /\ \A t \in Tasks : WF_vars(Proceed(t))

-----------------------------------------------------------------------------

RunStates == {"none", "collecting", "validated", "quarantined",
              "published", "failed", "cancelled"}

TypeOK ==
    /\ run \in [Runs -> [state : RunStates, batch : Batches \cup {Null}]]
    /\ receipts \in SUBSET (Keys \X Runs)
    /\ package \in [Packages -> [status : {"none", "ready", "published", "revoked"},
                                 run : Runs \cup {Null}, issued : BOOLEAN]]
    /\ task \in [Tasks ->
         [pc : {"idle", "process", "failing", "create", "publish", "deliver", "reject"},
          run : Runs \cup {Null}, key : Keys \cup {Null}, batch : Batches \cup {Null},
          package : Packages \cup {Null}]]
    /\ crashed \in BOOLEAN
    /\ delivery \in [Packages -> {"none", "failed", "delivered"}]
    /\ booked \in [Runs -> Nat]
    /\ stock \in Nat

Issuers(r) == {p \in Packages : package[p].run = r /\ package[p].issued}

\* A run is published by exactly one package, however many were prepared for it
\* and whoever publishes them at once; it is published out of validated, whatever
\* a reviewer does to it while the call is on its way, and for good
\* (publishOn, PublicationPackageRepository.ts:272-301).
PublishedOnce ==
    /\ [](\A r \in Runs : Cardinality(Issuers(r)) = IF run[r].state = "published" THEN 1 ELSE 0)
    /\ [][\A r \in Runs :
            /\ run'[r].state = "published" => run[r].state \in {"validated", "published"}
            /\ run[r].state = "published" => run'[r] = run[r]]_vars

\* However often a webhook is delivered, and whatever calls race, fail or are
\* cut off on the way, its records move the balance at most once
\* (receiveWebhook, WebhookReceiptRepository.ts:5-14; processHandoff).
BookedOnce ==
    \A k \in Keys, r, s \in Runs :
      /\ booked[r] <= 1
      /\ {<<k, r>>, <<k, s>>} \subseteq receipts /\ booked[r] > 0 /\ booked[s] > 0 => r = s

\* What is recorded as delivered has been executed, and nothing else has: there is
\* no half-executed package, and a refusal that is recorded late does not turn a
\* delivery into a failed one (BusinessIntakeService.ts:199, 242-460).
DeliveriesAreBooked ==
    \A r \in Runs :
      booked[r] = Cardinality({p \in Packages : package[p].run = r /\ Delivered(p)})

\* The balance is the book of the runs that were executed.
Book == INSTANCE StockBook
    WITH entries <- [r \in Runs |-> IF booked[r] > 0 THEN run[r].batch.change ELSE Null],
         Changes <- {b.change : b \in Batches}, Unbooked <- Null
BookSpec == Book!Spec

\* Unless its call is cut off, a run that was started does not stay in
\* collection, although its processing may fail or be refused
\* (runIntake and markRunFailedSafely).
RunSettles ==
    []~crashed =>
      \A r \in Runs : run[r].state = "collecting" ~> run[r].state # "collecting"
=============================================================================
