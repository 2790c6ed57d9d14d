---------------------------- MODULE EventDelivery ----------------------------
(***************************************************************************)
(* Canonical eventing: the transactional outbox, the relay that claims its *)
(* rows and publishes them into the immutable business event ledger, the   *)
(* dead letters, the history of delivery attempts, and the inbox through   *)
(* which consumers handle what was published (packages/database/src/       *)
(* eventing over migrations 0007, 0172 and 0173).                          *)
(*                                                                         *)
(* A relay worker is a process: it claims a batch, then takes its rows one *)
(* by one; each of its steps is one transaction, apart from the append to  *)
(* the ledger, whose look-up and INSERT are told apart because two workers *)
(* can be between them.  The repository holds no worker: the order of its  *)
(* steps is the one CanonicalEventPublisher and the repositories imply.    *)
(***************************************************************************)
EXTENDS Naturals, FiniteSets

CONSTANTS
    Events,       \* outbox rows, told apart by their event id
    KeyOf,        \* Events -> idempotency key
    Contents,     \* what an event tells of, its payload included
    IdentityOf,   \* Contents -> what makes two events the same: not the payload
    Unpublishable,\* contents that no contract or legacy profile admits
    Workers,      \* relay workers
    Handlers,     \* processes of one consumer
    Null,         \* no event, no content
    MaxAttempts,  \* attempts after which the relay no longer retries a row
    BatchSize,    \* rows a claim takes at most
    MaxFaults,    \* bound on transactions that fail, or whose commit is not seen
    MaxCrashes    \* bound on workers and handlers that die

ASSUME EventAssumption ==
    /\ MaxAttempts \in Nat
    /\ Unpublishable \subseteq Contents
    /\ Null \notin Events \cup Contents

Keys == {KeyOf[e] : e \in Events}

VARIABLES
    outbox,    \* Events -> row of events.outbox_events
    ledger,    \* Keys -> content of the row of events.business_event_ledger
    letters,   \* Events -> number of rows of events.dead_letter_events
    attempts,  \* rows of events.event_delivery_attempts
    worker,    \* Workers -> claimed rows, and progress with the current one
    inbox,     \* Events -> status of the consumer's row of events.inbox_events
    effects,   \* Events -> how often the consumer has acted upon the event
    handler,   \* Handlers -> progress with an event
    faults,    \* failed transactions so far
    crashes    \* crashes so far

relay == <<outbox, ledger, letters, attempts, worker>>
consumer == <<inbox, effects, handler>>
vars == <<relay, consumer, faults, crashes>>

NoRow == [status |-> "none", content |-> Null, count |-> 0, delayed |-> FALSE]

NoWork == [pc |-> "idle", batch |-> {}, event |-> Null, attempt |-> 0, result |-> Null]

NoHandling == [pc |-> "idle", event |-> Null]

Init ==
    /\ outbox = [e \in Events |-> NoRow]
    /\ ledger = [k \in Keys |-> Null]
    /\ letters = [e \in Events |-> 0]
    /\ attempts = {}
    /\ worker = [w \in Workers |-> NoWork]
    /\ inbox = [e \in Events |-> "none"]
    /\ effects = [e \in Events |-> 0]
    /\ handler = [h \in Handlers |-> NoHandling]
    /\ faults = 0
    /\ crashes = 0

At(w, pc) == worker[w].pc = pc

Goto(w, pc) == worker' = [worker EXCEPT ![w].pc = pc]

\* The attempt is over: it is recorded next.
Conclude(w, result) == worker' = [worker EXCEPT ![w].pc = "record", ![w].result = result]

\* The worker is done with its current row.
Done(w) == worker' = [worker EXCEPT ![w] = [NoWork EXCEPT !.batch = worker[w].batch]]

-----------------------------------------------------------------------------
(* Outbox                                                                   *)

\* enqueue; a producer that does not see its commit may enqueue the same fact
\* again, as another row under the same key.
Enqueue(e, content) ==
    /\ outbox[e].status = "none"
    /\ outbox' = [outbox EXCEPT ![e].status = "pending", ![e].content = content]
    /\ UNCHANGED <<ledger, letters, attempts, worker, consumer, faults, crashes>>

\* available_at of a postponed row is reached.
BecomeDue(e) ==
    /\ outbox[e].delayed
    /\ outbox' = [outbox EXCEPT ![e].delayed = FALSE]
    /\ UNCHANGED <<ledger, letters, attempts, worker, consumer, faults, crashes>>

Claimable(e) ==
    /\ outbox[e].status \in {"pending", "failed"}
    /\ ~outbox[e].delayed

\* claimBatch: rows that other transactions hold are skipped, so any of the
\* claimable rows may be the ones a worker gets.
ClaimBatch(w, batch) ==
    /\ At(w, "idle")
    /\ worker[w].batch = {}
    /\ Cardinality(batch) \in 1..BatchSize
    /\ \A e \in batch : Claimable(e)
    /\ outbox' = [e \in Events |->
         IF e \in batch THEN [outbox[e] EXCEPT !.status = "processing", !.count = @ + 1]
         ELSE outbox[e]]
    /\ worker' = [worker EXCEPT ![w].batch = {[event |-> e, attempt |-> outbox[e].count + 1] : e \in batch}]
    /\ UNCHANGED <<ledger, letters, attempts, consumer, faults, crashes>>

\* A row of the batch is given to publishClaimed.
Take(w) ==
    /\ At(w, "idle")
    /\ \E row \in worker[w].batch :
         worker' = [worker EXCEPT ![w] =
           [pc |-> "find", batch |-> @.batch \ {row}, event |-> row.event,
            attempt |-> row.attempt, result |-> Null]]
    /\ UNCHANGED <<outbox, ledger, letters, attempts, consumer, faults, crashes>>

-----------------------------------------------------------------------------
(* CanonicalEventPublisher.publishClaimed                                   *)

Row(w) == outbox[worker[w].event]
Key(w) == KeyOf[worker[w].event]

\* The ledger has an entry of the event under its key: the same type, version,
\* aggregate, correlation and evidence class, whatever the payload.
Told(e) ==
    /\ ledger[KeyOf[e]] # Null
    /\ IdentityOf[ledger[KeyOf[e]]] = IdentityOf[outbox[e].content]

\* Any entry under the key is taken for the event's own (mutant of SameLogicalEvent).
AnyEntry(w) == TRUE

SameLogicalEvent(w) == Told(worker[w].event)

\* Validation and findIdempotent: an inadmissible event and one whose key tells of
\* something else are refused; an entry of the same event is reused.
Find(w) ==
    /\ At(w, "find")
    /\ CASE Row(w).content \in Unpublishable -> Conclude(w, "rejected")
         [] Row(w).content \notin Unpublishable /\ ledger[Key(w)] = Null -> Goto(w, "insert")
         [] Row(w).content \notin Unpublishable /\ ledger[Key(w)] # Null ->
              IF SameLogicalEvent(w) THEN Goto(w, "mark") ELSE Conclude(w, "failed")
    /\ UNCHANGED <<outbox, ledger, letters, attempts, consumer, faults, crashes>>

\* business_event_ledger_idempotency_idx
KeyFree(w) == ledger[Key(w)] = Null

\* The INSERT, or a unique violation: it has aborted the transaction, so the
\* look-up that its handler issues fails as well, and append throws.
Append(w) ==
    /\ At(w, "insert")
    /\ IF KeyFree(w)
       THEN /\ ledger' = [ledger EXCEPT ![Key(w)] = Row(w).content]
            /\ Goto(w, "mark")
       ELSE Conclude(w, "failed") /\ UNCHANGED ledger
    /\ UNCHANGED <<outbox, letters, attempts, consumer, faults, crashes>>

MayPublish(e) == outbox[e].status = "processing"

\* markPublished; INVALID_OUTBOX_TRANSITION when the row was moved meanwhile.
MarkPublished(w) ==
    LET e == worker[w].event IN
    /\ At(w, "mark")
    /\ IF MayPublish(e)
       THEN /\ outbox' = [outbox EXCEPT ![e].status = "published"]
            /\ Conclude(w, "succeeded")
       ELSE Conclude(w, "failed") /\ UNCHANGED outbox
    /\ UNCHANGED <<ledger, letters, attempts, consumer, faults, crashes>>

\* A transaction of publishClaimed fails, before its commit or with the commit
\* done and its acknowledgement lost.
Fault(w) ==
    LET e == worker[w].event IN
    /\ worker[w].pc \in {"find", "insert", "mark"}
    /\ faults < MaxFaults
    /\ faults' = faults + 1
    /\ Conclude(w, "failed")
    /\ \/ UNCHANGED <<outbox, ledger>>
       \/ /\ At(w, "insert") /\ KeyFree(w)
          /\ ledger' = [ledger EXCEPT ![Key(w)] = Row(w).content]
          /\ UNCHANGED outbox
       \/ /\ At(w, "mark") /\ MayPublish(e)
          /\ outbox' = [outbox EXCEPT ![e].status = "published"]
          /\ UNCHANGED ledger
    /\ UNCHANGED <<letters, attempts, consumer, crashes>>

-----------------------------------------------------------------------------
(* What follows an attempt                                                  *)

\* EventDeliveryAttemptRepository.record: one row per attempt number.
RecordAttempt(w) ==
    LET a == [event |-> worker[w].event, number |-> worker[w].attempt,
              succeeded |-> worker[w].result = "succeeded"]
    IN
    /\ At(w, "record")
    /\ attempts' = attempts \cup {a}
    /\ CASE worker[w].result = "succeeded" -> Done(w)
         [] worker[w].result = "rejected"  -> Goto(w, "bury")
         [] worker[w].result = "failed"    -> Goto(w, "fail")
    /\ UNCHANGED <<outbox, ledger, letters, consumer, faults, crashes>>

\* A status the table does not know (mutant of Failed).
FailedMisspelt(row) == [row EXCEPT !.status = "error"]

\* Only the failure is noted, in the headers (mutant of Failed).
FailureNoted(row) == row

Failed(row) == [row EXCEPT !.status = "failed"]

\* markFailed; it throws when the row is no longer in processing.
MarkFailed(w) ==
    LET e == worker[w].event IN
    /\ At(w, "fail")
    /\ IF outbox[e].status = "processing"
       THEN /\ outbox' = [outbox EXCEPT ![e] = Failed(@)]
            /\ Goto(w, IF outbox[e].count < MaxAttempts THEN "retry" ELSE "bury")
       ELSE Done(w) /\ UNCHANGED outbox
    /\ UNCHANGED <<ledger, letters, attempts, consumer, faults, crashes>>

\* scheduleRetry; it throws when the failed row has been claimed again already.
ScheduleRetry(w) ==
    LET e == worker[w].event IN
    /\ At(w, "retry")
    /\ outbox' = IF outbox[e].status = "failed"
                 THEN [outbox EXCEPT ![e].status = "pending", ![e].delayed = TRUE]
                 ELSE outbox
    /\ Done(w)
    /\ UNCHANGED <<ledger, letters, attempts, consumer, faults, crashes>>

\* The status is not looked at (mutant of MayBury).
MayBuryAny(e) == TRUE

MayBury(e) == outbox[e].status \in {"processing", "failed"}

\* createFromOutbox: the letter is written whatever the status of the row is, the
\* row changes only if it is in processing or failed.
CreateDeadLetter(w) ==
    LET e == worker[w].event IN
    /\ \/ At(w, "bury")
       \/ At(w, "retry")    \* the relay gives up
    /\ letters' = [letters EXCEPT ![e] = @ + 1]
    /\ outbox' = IF MayBury(e) THEN [outbox EXCEPT ![e].status = "dead_lettered"] ELSE outbox
    /\ Done(w)
    /\ UNCHANGED <<ledger, attempts, consumer, faults, crashes>>

\* A worker dies and is started again: what it had claimed stays in processing.
CrashWorker(w) ==
    /\ worker[w] # NoWork
    /\ crashes < MaxCrashes
    /\ crashes' = crashes + 1
    /\ worker' = [worker EXCEPT ![w] = NoWork]
    /\ UNCHANGED <<outbox, ledger, letters, attempts, consumer, faults>>

-----------------------------------------------------------------------------
(* Inbox                                                                    *)

\* The consumer starts whatever its row says (mutant of MayBegin).
MayBeginAny(e) == TRUE

\* started or retry_allowed; a row in processing or processed is not handled.
MayBegin(e) == inbox[e] \in {"none", "failed"}

\* beginProcessing of an event that was published, as often as it is delivered.
\* A handler that loses the INSERT of the row to another one gets an error
\* instead of already_processing, and handles the event no more than that.
BeginProcessing(h, e) ==
    /\ handler[h].pc = "idle"
    /\ outbox[e].status = "published"
    /\ MayBegin(e)
    /\ inbox' = [inbox EXCEPT ![e] = "processing"]
    /\ handler' = [handler EXCEPT ![h] = [pc |-> "act", event |-> e]]
    /\ UNCHANGED <<relay, effects, faults, crashes>>

Act(h) ==
    /\ handler[h].pc = "act"
    /\ effects' = [effects EXCEPT ![handler[h].event] = @ + 1]
    /\ handler' = [handler EXCEPT ![h].pc = "mark"]
    /\ UNCHANGED <<relay, inbox, faults, crashes>>

\* markProcessed, guarded by the status.
MarkProcessed(h) ==
    /\ handler[h].pc = "mark"
    /\ inbox' = IF inbox[handler[h].event] = "processing"
                THEN [inbox EXCEPT ![handler[h].event] = "processed"] ELSE inbox
    /\ handler' = [handler EXCEPT ![h] = NoHandling]
    /\ UNCHANGED <<relay, effects, faults, crashes>>

\* The handler throws or dies; no code turns its row into a failed one.
StopHandler(h) ==
    /\ handler[h] # NoHandling
    /\ crashes < MaxCrashes
    /\ crashes' = crashes + 1
    /\ handler' = [handler EXCEPT ![h] = NoHandling]
    /\ UNCHANGED <<relay, inbox, effects, faults>>

-----------------------------------------------------------------------------
Work(w) ==
    \/ \E batch \in SUBSET Events : ClaimBatch(w, batch)
    \/ Take(w)
    \/ Find(w)
    \/ Append(w)
    \/ MarkPublished(w)
    \/ RecordAttempt(w)
    \/ MarkFailed(w)
    \/ ScheduleRetry(w)
    \/ CreateDeadLetter(w)

Handle(h) == (\E e \in Events : BeginProcessing(h, e)) \/ Act(h) \/ MarkProcessed(h)

Next ==
    \/ \E e \in Events : BecomeDue(e) \/ \E content \in Contents : Enqueue(e, content)
    \/ \E w \in Workers : Work(w) \/ Fault(w) \/ CrashWorker(w)
    \/ \E h \in Handlers : Handle(h) \/ StopHandler(h)

Spec == Init /\ [][Next]_vars

\* Workers go on claiming and working, and time passes.
FairSpec ==
    /\ Spec
    /\ \A w \in Workers : WF_vars(Work(w))
    /\ \A e \in Events : WF_vars(BecomeDue(e))

-----------------------------------------------------------------------------
RowType == [status : {"none", "pending", "processing", "published", "failed", "dead_lettered"},
            content : Contents \cup {Null}, count : Nat, delayed : BOOLEAN]

WorkType ==
    [pc : {"idle", "find", "insert", "mark", "record", "fail", "retry", "bury"},
     batch : SUBSET [event : Events, attempt : Nat],
     event : Events \cup {Null}, attempt : Nat,
     result : {Null, "succeeded", "failed", "rejected"}]

TypeOK ==
    /\ outbox \in [Events -> RowType]
    /\ ledger \in [Keys -> Contents \cup {Null}]
    /\ letters \in [Events -> Nat]
    /\ attempts \subseteq [event : Events, number : Nat, succeeded : BOOLEAN]
    /\ worker \in [Workers -> WorkType]
    /\ inbox \in [Events -> {"none", "processing", "processed", "failed"}]
    /\ effects \in [Events -> Nat]
    /\ handler \in [Handlers -> [pc : {"idle", "act", "mark"}, event : Events \cup {Null}]]
    /\ faults \in Nat
    /\ crashes \in Nat

\* The log promises what EventLog says, whatever workers race, fail or die: a row
\* is published only once the ledger holds an entry of the same logical event under
\* its key (whose payload is the one first recorded, not always the row's own), a
\* published or dead-lettered row stays so, and an entry is never replaced.
StatusOf(e) ==
    CASE outbox[e].status = "none"          -> "none"
      [] outbox[e].status = "published"     -> "published"
      [] outbox[e].status = "dead_lettered" -> "buried"
      [] outbox[e].status \in {"pending", "processing", "failed"} -> "open"

Log == INSTANCE EventLog
    WITH log <- ledger,
         fate <- [e \in Events |-> [content |-> outbox[e].content, status |-> StatusOf(e)]]
LogSpec == Log!Spec

\* However often an event is delivered and however its handlers race or stop, the
\* consumer acts upon it at most once, only after it was published, and a row
\* marked processed means that it did act (BUILD-33 "idempotent consumer effects").
ActedAtMostOnce ==
    \A e \in Events :
      /\ effects[e] <= 1
      /\ effects[e] = 1 => outbox[e].status = "published" /\ inbox[e] # "none"
      /\ inbox[e] = "processed" => effects[e] = 1

\* The history of attempts tells the truth: one row per attempt number, at most
\* one of an event succeeded, and that one published it; a row that left the
\* outbox as a dead letter has a letter.
HistoryIsTrue ==
    /\ \A a, b \in attempts :
         a.event = b.event =>
           /\ a.number = b.number => a = b
           /\ a.succeeded /\ b.succeeded => a = b
    /\ \A a \in attempts : a.succeeded => outbox[a.event].status = "published"
    /\ \A e \in Events : outbox[e].status = "dead_lettered" => letters[e] > 0

Settled(e) == outbox[e].status \in {"published", "dead_lettered"}

\* As long as no process dies, every event that was enqueued is published or
\* dead-lettered in the end, through faults, refusals, conflicts and lost races.
EventSettles ==
    [](crashes = 0) => \A e \in Events : outbox[e].status = "pending" ~> Settled(e)

\* BUILD-33 section 13: at-least-once delivery.  A worker that dies with a claimed
\* row has the row retried by the workers that are left.
ClaimedIsRetried ==
    \A e \in Events : outbox[e].status = "processing" ~> outbox[e].status # "processing"
=============================================================================
