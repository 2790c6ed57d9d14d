------------------------ MODULE EventDelivery_proofs ------------------------
(* Theorems about EventDelivery, for every value of its constants.          *)
EXTENDS EventDelivery, TLAPS

-----------------------------------------------------------------------------
(* How the record of a worker changes: the shapes its steps are built from. *)

WorkerTyped == worker \in [Workers -> WorkType]

WorkPC == {"idle", "find", "insert", "mark", "record", "fail", "retry", "bury"}

LEMMA GotoType ==
  ASSUME WorkerTyped, NEW w \in Workers, NEW pc \in WorkPC, Goto(w, pc)
  PROVE  WorkerTyped'
  BY DEF WorkerTyped, WorkType, WorkPC, Goto

LEMMA ConcludeType ==
  ASSUME WorkerTyped, NEW w \in Workers, NEW result \in {"succeeded", "failed", "rejected"},
         Conclude(w, result)
  PROVE  WorkerTyped'
  BY DEF WorkerTyped, WorkType, Conclude

LEMMA DoneType ==
  ASSUME WorkerTyped, NEW w \in Workers, Done(w)
  PROVE  WorkerTyped'
  BY DEF WorkerTyped, WorkType, Done, NoWork

LEMMA TakeType ==
  ASSUME WorkerTyped, NEW w \in Workers, Take(w)
  PROVE  WorkerTyped'
<1>1. PICK row \in worker[w].batch :
        worker' = [worker EXCEPT ![w] =
          [pc |-> "find", batch |-> @.batch \ {row}, event |-> row.event,
           attempt |-> row.attempt, result |-> Null]]
  BY DEF Take
<1>2. row \in [event : Events, attempt : Nat]
  BY DEF WorkerTyped, WorkType
<1>3. worker[w].batch \ {row} \in SUBSET [event : Events, attempt : Nat]
  BY DEF WorkerTyped, WorkType
<1>4. [pc |-> "find", batch |-> worker[w].batch \ {row}, event |-> row.event,
       attempt |-> row.attempt, result |-> Null] \in WorkType
  BY <1>2, <1>3 DEF WorkType
<1> QED
  BY <1>1, <1>4 DEF WorkerTyped

LEMMA ClaimWorkerType ==
  ASSUME TypeOK, NEW w \in Workers, NEW batch \in SUBSET Events, ClaimBatch(w, batch)
  PROVE  WorkerTyped'
<1> DEFINE rows == {[event |-> e, attempt |-> outbox[e].count + 1] : e \in batch}
<1>1. \A e \in batch : outbox[e].count + 1 \in Nat
  BY DEF TypeOK, RowType
<1>2. rows \in SUBSET [event : Events, attempt : Nat]
  BY <1>1
<1>3. [worker[w] EXCEPT !.batch = rows] \in WorkType
  BY <1>2 DEF TypeOK, WorkType
<1>4. worker' = [worker EXCEPT ![w] = [worker[w] EXCEPT !.batch = rows]]
  BY DEF ClaimBatch, TypeOK, WorkType
<1> QED
  BY <1>3, <1>4 DEF TypeOK, WorkerTyped

-----------------------------------------------------------------------------
(* The inductive invariant.                                                 *)

\* A row has a content from its insertion on.
RowsFilled ==
    \A e \in Events : outbox[e].status # "none" => outbox[e].content \in Contents

\* The ledger tells of what was published.
PublishedIsRecorded == \A e \in Events : outbox[e].status = "published" => Told(e)

\* What a worker has claimed exists, and what it is about to mark is recorded.
WorkerSound(x) ==
    /\ \A row \in x.batch : outbox[row.event].status # "none"
    /\ x.pc # "idle" => x.event \in Events /\ outbox[x.event].status # "none"
    /\ x.pc = "mark" => Told(x.event)
    /\ x.pc = "record" => x.result \in {"succeeded", "failed", "rejected"}

WorkersSound == \A w \in Workers : WorkerSound(worker[w])

\* Each row in processing of the inbox has at most one handler, and what the
\* status of a row says about the effects is true.
HandlerSound ==
    \A h \in Handlers : handler[h].pc # "idle" =>
      /\ handler[h].event \in Events
      /\ outbox[handler[h].event].status = "published"
      /\ inbox[handler[h].event] = "processing"
      /\ effects[handler[h].event] = IF handler[h].pc = "act" THEN 0 ELSE 1

HandlersApart ==
    \A g, h \in Handlers :
      handler[g].pc # "idle" /\ handler[h].pc # "idle" /\ handler[g].event = handler[h].event
        => g = h

InboxTrue ==
    \A e \in Events :
      /\ inbox[e] # "failed"
      /\ inbox[e] = "none" => effects[e] = 0
      /\ inbox[e] # "none" => outbox[e].status = "published"
      /\ inbox[e] = "processed" => effects[e] = 1
      /\ effects[e] \in {0, 1}

RelayInv == RowsFilled /\ PublishedIsRecorded /\ WorkersSound

InboxInv == HandlerSound /\ HandlersApart /\ InboxTrue

Inv == TypeOK /\ RelayInv /\ InboxInv

LEMMA InitInv == Init => Inv
<1> SUFFICES ASSUME Init PROVE Inv
  OBVIOUS
<1>1. TypeOK
  BY DEF Init, TypeOK, RowType, WorkType, NoRow, NoWork, NoHandling
<1>2. RelayInv
  BY DEF Init, RelayInv, RowsFilled, PublishedIsRecorded, WorkersSound, WorkerSound, NoRow, NoWork
<1>3. InboxInv
  BY DEF Init, InboxInv, HandlerSound, HandlersApart, InboxTrue, NoRow, NoHandling
<1> QED
  BY <1>1, <1>2, <1>3 DEF Inv

-----------------------------------------------------------------------------
(* What no step of the relay undoes, and what follows from that.            *)

Grows ==
    /\ \A e \in Events : outbox[e].status # "none" =>
         outbox'[e].status # "none" /\ outbox'[e].content = outbox[e].content
    /\ \A e \in Events : outbox[e].status = "published" => outbox'[e].status = "published"
    /\ \A k \in Keys : ledger[k] # Null => ledger'[k] = ledger[k]

OutboxTyped == outbox \in [Events -> RowType]
LedgerTyped == ledger \in [Keys -> Contents \cup {Null}]

\* A step of the relay that grows and is well typed.
RelayStep ==
    /\ Grows
    /\ OutboxTyped' /\ LedgerTyped' /\ WorkerTyped'
    /\ letters' \in [Events -> Nat]
    /\ attempts' \subseteq [event : Events, number : Nat, succeeded : BOOLEAN]
    /\ UNCHANGED consumer
    /\ faults' \in Nat /\ crashes' \in Nat

LEMMA KeyKnown ==
  ASSUME NEW e \in Events
  PROVE  KeyOf[e] \in Keys
  BY DEF Keys

LEMMA ToldKept ==
  ASSUME Grows, NEW e \in Events, outbox[e].status # "none", Told(e)
  PROVE  Told(e)'
  BY KeyKnown DEF Grows, Told

LEMMA WrittenIsTold ==
  ASSUME NEW e \in Events, outbox[e].content \in Contents, outbox' = outbox,
         ledger'[KeyOf[e]] = outbox[e].content
  PROVE  Told(e)'
  BY EventAssumption DEF Told

LEMMA WorkerKept ==
  ASSUME Inv, Grows, NEW v \in Workers, worker'[v] = worker[v]
  PROVE  WorkerSound(worker[v])'
<1> DEFINE x == worker[v]
<1>1. WorkerSound(x)
  BY DEF Inv, RelayInv, WorkersSound
<1>2. x.batch \in SUBSET [event : Events, attempt : Nat]
  BY DEF Inv, TypeOK, WorkType
<1>3. \A row \in x.batch : outbox'[row.event].status # "none"
  BY <1>1, <1>2 DEF WorkerSound, Grows
<1>4. x.pc # "idle" => x.event \in Events /\ outbox'[x.event].status # "none"
  BY <1>1 DEF WorkerSound, Grows
<1>5. ASSUME x.pc = "mark" PROVE Told(x.event)'
  <2>1. x.event \in Events /\ outbox[x.event].status # "none" /\ Told(x.event)
    BY <1>1, <1>5 DEF WorkerSound
  <2> QED
    BY <2>1, ToldKept
<1>6. x.pc = "record" => x.result \in {"succeeded", "failed", "rejected"}
  BY <1>1 DEF WorkerSound
<1> QED
  BY <1>3, <1>4, <1>5, <1>6 DEF WorkerSound

LEMMA InboxKept ==
  ASSUME Inv, Grows, UNCHANGED consumer
  PROVE  InboxInv'
<1>1. inbox' = inbox /\ effects' = effects /\ handler' = handler
  BY DEF consumer
<1>2. HandlerSound'
  BY <1>1 DEF Inv, InboxInv, HandlerSound, Grows
<1>3. HandlersApart'
  BY <1>1 DEF Inv, InboxInv, HandlersApart
<1>4. InboxTrue'
  BY <1>1 DEF Inv, InboxInv, InboxTrue, Grows
<1> QED
  BY <1>2, <1>3, <1>4 DEF InboxInv

\* What is left to show of a step: the worker it changes, the rows that it fills
\* and those that it publishes.
LEMMA RelayStepInv ==
  ASSUME Inv, RelayStep,
         \A v \in Workers : worker'[v] = worker[v] \/ WorkerSound(worker[v])',
         \A e \in Events : outbox'[e].status # "none" /\ outbox[e].status = "none"
           => outbox'[e].content \in Contents,
         \A e \in Events : outbox'[e].status = "published" /\ outbox[e].status # "published"
           => Told(e)'
  PROVE  Inv'
<1>1. TypeOK'
  BY DEF Inv, RelayStep, OutboxTyped, LedgerTyped, WorkerTyped, TypeOK, consumer
<1>2. RowsFilled'
  BY DEF Inv, RelayInv, RowsFilled, RelayStep, Grows
<1>3. PublishedIsRecorded'
  <2> SUFFICES ASSUME NEW e \in Events, outbox'[e].status = "published"
               PROVE  Told(e)'
    BY DEF PublishedIsRecorded
  <2>1. CASE outbox[e].status = "published"
    <3>1. Told(e)
      BY <2>1 DEF Inv, RelayInv, PublishedIsRecorded
    <3> QED
      BY <2>1, <3>1, ToldKept DEF RelayStep
  <2> QED
    BY <2>1
<1>4. WorkersSound'
  <2>1. ASSUME NEW v \in Workers PROVE WorkerSound(worker[v])'
    BY <2>1, WorkerKept DEF RelayStep
  <2> QED
    BY <2>1 DEF WorkersSound
<1>5. InboxInv'
  BY InboxKept DEF RelayStep
<1> QED
  BY <1>1, <1>2, <1>3, <1>4, <1>5 DEF Inv, RelayInv

-----------------------------------------------------------------------------
(* The steps of the relay.                                                  *)

RowStatuses == {"none", "pending", "processing", "published", "failed", "dead_lettered"}

\* Only the status of the row e, and whether it is postponed, change.
Moves(e, status) ==
    /\ OutboxTyped'
    /\ outbox'[e].status = status
    /\ outbox'[e].content = outbox[e].content
    /\ \A x \in Events \ {e} : outbox'[x] = outbox[x]

LEMMA StatusMoves ==
  ASSUME TypeOK, NEW e \in Events, NEW status \in RowStatuses,
         outbox' = [outbox EXCEPT ![e].status = status]
  PROVE  Moves(e, status)
<1>1. outbox[e] \in RowType
  BY DEF TypeOK
<1>2. [outbox[e] EXCEPT !.status = status] \in RowType
  BY <1>1 DEF RowType, RowStatuses
<1>3. outbox' = [outbox EXCEPT ![e] = [outbox[e] EXCEPT !.status = status]]
  OBVIOUS
<1> QED
  BY <1>1, <1>2, <1>3 DEF TypeOK, OutboxTyped, Moves, RowType

LEMMA StatusPostponed ==
  ASSUME TypeOK, NEW e \in Events, NEW status \in RowStatuses,
         outbox' = [outbox EXCEPT ![e].status = status, ![e].delayed = TRUE]
  PROVE  Moves(e, status)
<1>1. outbox[e] \in RowType
  BY DEF TypeOK
<1>2. [outbox[e] EXCEPT !.status = status, !.delayed = TRUE] \in RowType
  BY <1>1 DEF RowType, RowStatuses
<1>3. outbox' = [outbox EXCEPT ![e] = [outbox[e] EXCEPT !.status = status, !.delayed = TRUE]]
  BY <1>1 DEF TypeOK, RowType
<1> QED
  BY <1>1, <1>2, <1>3 DEF TypeOK, OutboxTyped, Moves, RowType

\* A move of a row that is there, other than out of publication, grows.
LEMMA MoveGrows ==
  ASSUME Inv, NEW e \in Events, NEW status \in RowStatuses \ {"none"}, Moves(e, status),
         outbox[e].status # "none",
         outbox[e].status = "published" => status = "published",
         ledger' = ledger
  PROVE  /\ Grows
         /\ \A x \in Events : outbox'[x].status # "none" => outbox[x].status # "none"
         /\ \A x \in Events : outbox'[x].status = "published" /\ outbox[x].status # "published"
              => x = e /\ status = "published"
  BY DEF Moves, Grows

LEMMA SameOutboxGrows ==
  ASSUME outbox' = outbox, \A k \in Keys : ledger[k] # Null => ledger'[k] = ledger[k]
  PROVE  Grows
  BY DEF Grows

\* What the worker w is busy with exists.
LEMMA BusyWorker ==
  ASSUME Inv, NEW w \in Workers, worker[w].pc # "idle"
  PROVE  /\ worker[w].event \in Events
         /\ outbox[worker[w].event].status # "none"
         /\ outbox[worker[w].event].content \in Contents
  BY DEF Inv, RelayInv, WorkersSound, WorkerSound, RowsFilled

\* A worker goes on with the same row and batch, to any step but the mark.
LEMMA WorkerGoesOn ==
  ASSUME Inv, Grows, NEW w \in Workers, worker[w].pc # "idle",
         worker'[w].event = worker[w].event, worker'[w].batch = worker[w].batch,
         worker'[w].pc # "mark",
         worker'[w].pc = "record" => worker'[w].result \in {"succeeded", "failed", "rejected"}
  PROVE  WorkerSound(worker[w])'
<1>1. WorkerSound(worker[w])
  BY DEF Inv, RelayInv, WorkersSound
<1>2. worker[w].batch \in SUBSET [event : Events, attempt : Nat]
  BY DEF Inv, TypeOK, WorkType
<1> QED
  BY <1>1, <1>2 DEF WorkerSound, Grows

LEMMA WorkerRests ==
  ASSUME Inv, Grows, NEW w \in Workers, worker'[w].batch \subseteq worker[w].batch,
         worker'[w].pc = "idle"
  PROVE  WorkerSound(worker[w])'
<1>1. WorkerSound(worker[w])
  BY DEF Inv, RelayInv, WorkersSound
<1>2. worker[w].batch \in SUBSET [event : Events, attempt : Nat]
  BY DEF Inv, TypeOK, WorkType
<1> QED
  BY <1>1, <1>2 DEF WorkerSound, Grows

LEMMA GotoShape ==
  ASSUME TypeOK, NEW w \in Workers, NEW pc \in WorkPC, Goto(w, pc)
  PROVE  /\ WorkerTyped'
         /\ \A v \in Workers \ {w} : worker'[v] = worker[v]
         /\ worker'[w].pc = pc
         /\ worker'[w].event = worker[w].event /\ worker'[w].batch = worker[w].batch
         /\ worker'[w].attempt = worker[w].attempt
<1>1. WorkerTyped'
  BY GotoType DEF TypeOK, WorkerTyped
<1> QED
  BY <1>1 DEF TypeOK, Goto, WorkType

LEMMA ConcludeShape ==
  ASSUME TypeOK, NEW w \in Workers, NEW result \in {"succeeded", "failed", "rejected"},
         Conclude(w, result)
  PROVE  /\ WorkerTyped'
         /\ \A v \in Workers \ {w} : worker'[v] = worker[v]
         /\ worker'[w].pc = "record" /\ worker'[w].result = result
         /\ worker'[w].event = worker[w].event /\ worker'[w].batch = worker[w].batch
         /\ worker'[w].attempt = worker[w].attempt
<1>1. WorkerTyped'
  BY ConcludeType DEF TypeOK, WorkerTyped
<1> QED
  BY <1>1 DEF TypeOK, Conclude, WorkType

LEMMA StatusNames ==
  {"published", "failed", "pending", "dead_lettered"} \subseteq RowStatuses \ {"none"}
  BY DEF RowStatuses

LEMMA DoneShape ==
  ASSUME TypeOK, NEW w \in Workers, Done(w)
  PROVE  /\ WorkerTyped'
         /\ \A v \in Workers \ {w} : worker'[v] = worker[v]
         /\ worker'[w].pc = "idle" /\ worker'[w].batch = worker[w].batch
<1>1. WorkerTyped'
  BY DoneType DEF TypeOK, WorkerTyped
<1> QED
  BY <1>1 DEF TypeOK, Done, NoWork, WorkType

LEMMA ClaimInv ==
  ASSUME Inv, NEW w \in Workers, NEW batch \in SUBSET Events, ClaimBatch(w, batch)
  PROVE  Inv'
<1> DEFINE rows == {[event |-> e, attempt |-> outbox[e].count + 1] : e \in batch}
<1>1. WorkerTyped'
  BY ClaimWorkerType DEF Inv
<1>2. \A e \in Events : /\ outbox'[e].content = outbox[e].content
                        /\ e \in batch => outbox'[e].status = "processing"
                        /\ e \notin batch => outbox'[e] = outbox[e]
  BY DEF Inv, TypeOK, RowType, ClaimBatch
<1>3. OutboxTyped'
  <2>1. \A e \in Events : outbox[e] \in RowType
    BY DEF Inv, TypeOK
  <2>2. ASSUME NEW e \in Events
        PROVE  [outbox[e] EXCEPT !.status = "processing", !.count = @ + 1] \in RowType
    <3>1. outbox[e] \in RowType
      BY <2>1
    <3>2. outbox[e].count + 1 \in Nat
      BY <3>1 DEF RowType
    <3>3. [outbox[e] EXCEPT !.status = "processing"] \in RowType
      BY <3>1 DEF RowType
    <3>4. [[outbox[e] EXCEPT !.status = "processing"] EXCEPT !.count = outbox[e].count + 1]
            \in RowType
      BY <3>2, <3>3 DEF RowType
    <3>5. [outbox[e] EXCEPT !.status = "processing", !.count = @ + 1]
            = [[outbox[e] EXCEPT !.status = "processing"] EXCEPT !.count = outbox[e].count + 1]
      BY <3>1 DEF RowType
    <3> QED
      BY <3>4, <3>5
  <2>3. outbox' = [e \in Events |->
           IF e \in batch THEN [outbox[e] EXCEPT !.status = "processing", !.count = @ + 1]
           ELSE outbox[e]]
    BY DEF ClaimBatch
  <2> QED
    BY <2>1, <2>2, <2>3 DEF OutboxTyped
<1>4. \A e \in batch : outbox[e].status \in {"pending", "failed"}
  BY DEF ClaimBatch, Claimable
<1>5. Grows
  BY <1>2, <1>4 DEF Grows, ClaimBatch
<1>6. worker'[w].batch = rows /\ worker'[w].pc = "idle"
      /\ \A v \in Workers \ {w} : worker'[v] = worker[v]
  BY DEF Inv, TypeOK, WorkType, ClaimBatch, At
<1>7. WorkerSound(worker[w])'
  BY <1>2, <1>6 DEF WorkerSound
<1>8. RelayStep
  BY <1>1, <1>3, <1>5, <1>6 DEF RelayStep, LedgerTyped, Inv, TypeOK, ClaimBatch
<1>9. \A e \in Events : outbox'[e].status # "none" => outbox[e].status # "none"
  BY <1>2, <1>4
<1>10. \A e \in Events : outbox'[e].status = "published" => outbox[e].status = "published"
  BY <1>2
<1>11. \A v \in Workers : worker'[v] = worker[v] \/ WorkerSound(worker[v])'
  BY <1>6, <1>7
<1> QED
  BY <1>8, <1>9, <1>10, <1>11, RelayStepInv

LEMMA TakeInv ==
  ASSUME Inv, NEW w \in Workers, Take(w)
  PROVE  Inv'
<1>1. PICK row \in worker[w].batch :
        worker' = [worker EXCEPT ![w] =
          [pc |-> "find", batch |-> @.batch \ {row}, event |-> row.event,
           attempt |-> row.attempt, result |-> Null]]
  BY DEF Take
<1>2. WorkerTyped'
  BY TakeType DEF Inv, TypeOK, WorkerTyped
<1>3. Grows
  BY SameOutboxGrows DEF Take
<1>4. WorkerSound(worker[w])
  BY DEF Inv, RelayInv, WorkersSound
<1>5. row.event \in Events
  BY DEF Inv, TypeOK, WorkType
<1>6. WorkerSound(worker[w])'
  <2>1. /\ worker'[w].batch = worker[w].batch \ {row}
        /\ worker'[w].event = row.event /\ worker'[w].pc = "find"
    BY <1>1 DEF Inv, TypeOK
  <2> QED
    BY <2>1, <1>4, <1>5 DEF WorkerSound, Take
<1>7. RelayStep
  BY <1>1, <1>2, <1>3 DEF RelayStep, LedgerTyped, OutboxTyped, Inv, TypeOK, Take
<1> QED
  BY <1>6, <1>7, RelayStepInv DEF Take

LEMMA EnqueueInv ==
  ASSUME Inv, NEW e \in Events, NEW content \in Contents, Enqueue(e, content)
  PROVE  Inv'
<1>1. outbox[e] \in RowType
  BY DEF Inv, TypeOK
<1>2. [outbox[e] EXCEPT !.status = "pending", !.content = content] \in RowType
  BY <1>1 DEF RowType
<1>3. outbox' = [outbox EXCEPT ![e] = [outbox[e] EXCEPT !.status = "pending", !.content = content]]
  BY <1>1 DEF Inv, TypeOK, Enqueue, RowType
<1>4. OutboxTyped' /\ outbox'[e].status = "pending" /\ outbox'[e].content = content
      /\ \A x \in Events \ {e} : outbox'[x] = outbox[x]
  BY <1>1, <1>2, <1>3 DEF OutboxTyped, Inv, TypeOK, RowType
<1>5. Grows
  BY <1>4 DEF Grows, Enqueue
<1>6. RelayStep
  BY <1>4, <1>5 DEF RelayStep, LedgerTyped, WorkerTyped, Inv, TypeOK, Enqueue
<1> QED
  BY <1>4, <1>6, RelayStepInv DEF Enqueue

LEMMA BecomeDueInv ==
  ASSUME Inv, NEW e \in Events, BecomeDue(e)
  PROVE  Inv'
<1>1. outbox[e] \in RowType
  BY DEF Inv, TypeOK
<1>2. [outbox[e] EXCEPT !.delayed = FALSE] \in RowType
  BY <1>1 DEF RowType
<1>3. outbox' = [outbox EXCEPT ![e] = [outbox[e] EXCEPT !.delayed = FALSE]]
  BY DEF BecomeDue
<1>4. OutboxTyped' /\ outbox'[e].status = outbox[e].status /\ outbox'[e].content = outbox[e].content
      /\ \A x \in Events \ {e} : outbox'[x] = outbox[x]
  BY <1>1, <1>2, <1>3 DEF OutboxTyped, Inv, TypeOK, RowType
<1>5. Grows
  BY <1>4 DEF Grows, BecomeDue
<1>6. RelayStep
  BY <1>4, <1>5 DEF RelayStep, LedgerTyped, WorkerTyped, Inv, TypeOK, BecomeDue
<1> QED
  BY <1>4, <1>6, RelayStepInv DEF BecomeDue

LEMMA FindInv ==
  ASSUME Inv, NEW w \in Workers, Find(w)
  PROVE  Inv'
<1>1. Grows
  BY SameOutboxGrows DEF Find
<1>2. worker[w].pc # "idle"
  BY DEF Find, At
<1>3. /\ WorkerTyped'
      /\ \A v \in Workers \ {w} : worker'[v] = worker[v]
      /\ worker'[w].event = worker[w].event /\ worker'[w].batch = worker[w].batch
      /\ worker'[w].pc = "mark" => SameLogicalEvent(w)
      /\ worker'[w].pc = "record" => worker'[w].result \in {"succeeded", "failed", "rejected"}
  BY GotoShape, ConcludeShape DEF Inv, Find, WorkPC
<1>4. WorkerSound(worker[w])'
  <2>1. CASE worker'[w].pc # "mark"
    BY <1>1, <1>2, <1>3, <2>1, WorkerGoesOn
  <2>2. CASE worker'[w].pc = "mark"
    <3>1. PICK e : e = worker[w].event
      OBVIOUS
    <3>2. Told(e)'
      BY <1>1, <1>2, <1>3, <2>2, <3>1, BusyWorker, ToldKept DEF SameLogicalEvent
    <3> QED
      BY <1>2, <1>3, <2>2, <3>1, <3>2, BusyWorker
      DEF WorkerSound, Find, Inv, RelayInv, WorkersSound
  <2> QED
    BY <2>1, <2>2
<1>5. RelayStep
  BY <1>1, <1>3 DEF RelayStep, LedgerTyped, OutboxTyped, Inv, TypeOK, Find
<1> QED
  BY <1>3, <1>4, <1>5, RelayStepInv DEF Find

LEMMA AppendInv ==
  ASSUME Inv, NEW w \in Workers, Append(w)
  PROVE  Inv'
<1> SUFFICES ASSUME NEW e, e = worker[w].event PROVE Inv'
  OBVIOUS
<1> DEFINE k == KeyOf[e]
<1>1. worker[w].pc # "idle"
  BY DEF Append, At
<1>2. e \in Events /\ k \in Keys /\ outbox[e].status # "none" /\ outbox[e].content \in Contents
  BY <1>1, BusyWorker, KeyKnown
<1>3. \/ /\ ledger[k] = Null /\ ledger' = [ledger EXCEPT ![k] = outbox[e].content]
         /\ Goto(w, "mark")
      \/ ledger' = ledger /\ Conclude(w, "failed")
  BY DEF Append, KeyFree, Key, Row
<1>4. LedgerTyped'
  BY <1>2, <1>3 DEF LedgerTyped, Inv, TypeOK
<1>5. Grows
  <2>1. \A x \in Keys : ledger[x] # Null => ledger'[x] = ledger[x]
    BY <1>3 DEF Inv, TypeOK
  <2> QED
    BY <2>1, SameOutboxGrows DEF Append
<1>6. /\ WorkerTyped'
      /\ \A v \in Workers \ {w} : worker'[v] = worker[v]
      /\ worker'[w].event = e /\ worker'[w].batch = worker[w].batch
      /\ worker'[w].pc = "mark" => ledger' = [ledger EXCEPT ![k] = outbox[e].content]
      /\ worker'[w].pc = "record" => worker'[w].result \in {"succeeded", "failed", "rejected"}
  BY <1>3, GotoShape, ConcludeShape DEF Inv, WorkPC
<1>7. WorkerSound(worker[w])'
  <2>1. CASE worker'[w].pc # "mark"
    BY <1>1, <1>5, <1>6, <2>1, WorkerGoesOn
  <2>2. CASE worker'[w].pc = "mark"
    <3>1. ledger'[k] = outbox[e].content /\ outbox' = outbox
      BY <1>2, <1>6, <2>2 DEF Inv, TypeOK, Append
    <3>2. Told(e)'
      BY <1>2, <3>1, WrittenIsTold
    <3> QED
      BY <1>2, <1>6, <2>2, <3>2 DEF WorkerSound, Append, Inv, RelayInv, WorkersSound
  <2> QED
    BY <2>1, <2>2
<1>8. RelayStep
  BY <1>4, <1>5, <1>6 DEF RelayStep, OutboxTyped, Inv, TypeOK, Append
<1> QED
  BY <1>6, <1>7, <1>8, RelayStepInv DEF Append

LEMMA MarkPublishedInv ==
  ASSUME Inv, NEW w \in Workers, MarkPublished(w)
  PROVE  Inv'
<1> SUFFICES ASSUME NEW e, e = worker[w].event PROVE Inv'
  OBVIOUS
<1>1. worker[w].pc = "mark"
  BY DEF MarkPublished, At
<1>2. e \in Events /\ outbox[e].status # "none" /\ Told(e)
  BY <1>1 DEF Inv, RelayInv, WorkersSound, WorkerSound
<1>3. \/ outbox[e].status = "processing" /\ outbox' = [outbox EXCEPT ![e].status = "published"]
      \/ outbox' = outbox
  BY DEF MarkPublished, MayPublish
<1>4. /\ WorkerTyped'
      /\ \A v \in Workers \ {w} : worker'[v] = worker[v]
      /\ worker'[w].event = e /\ worker'[w].batch = worker[w].batch /\ worker'[w].pc = "record"
      /\ worker'[w].result \in {"succeeded", "failed", "rejected"}
  BY ConcludeShape DEF Inv, MarkPublished
<1>5. CASE outbox' = outbox
  <2>1. Grows
    BY <1>5, SameOutboxGrows DEF MarkPublished
  <2>2. WorkerSound(worker[w])'
    BY <1>1, <1>4, <2>1, WorkerGoesOn
  <2>3. RelayStep
    BY <1>4, <1>5, <2>1 DEF RelayStep, OutboxTyped, LedgerTyped, Inv, TypeOK, MarkPublished
  <2> QED
    BY <1>4, <1>5, <2>2, <2>3, RelayStepInv
<1>6. CASE outbox[e].status = "processing" /\ outbox' = [outbox EXCEPT ![e].status = "published"]
  <2>1. Moves(e, "published")
    BY <1>2, <1>6, StatusMoves DEF Inv, RowStatuses
  <2>2. Grows
    BY <1>2, <1>6, <2>1, MoveGrows DEF MarkPublished, RowStatuses
  <2>3. WorkerSound(worker[w])'
    BY <1>1, <1>4, <2>2, WorkerGoesOn
  <2>4. RelayStep
    BY <1>4, <2>1, <2>2 DEF RelayStep, Moves, LedgerTyped, Inv, TypeOK, MarkPublished
  <2>5. \A x \in Events : outbox'[x].status = "published" /\ outbox[x].status # "published" => x = e
    BY <2>1 DEF Moves
  <2>6. \A x \in Events : outbox'[x].status # "none" => outbox[x].status # "none"
    BY <1>2, <2>1 DEF Moves
  <2>7. Told(e)'
    BY <1>2, <2>2, ToldKept
  <2> QED
    BY <1>4, <2>3, <2>4, <2>5, <2>6, <2>7, RelayStepInv
<1> QED
  BY <1>3, <1>5, <1>6

\* The steps that leave the ledger alone, move the row of a busy worker at most,
\* and turn the worker to any step but the mark, or let it rest.
LEMMA RowStepInv ==
  ASSUME Inv, NEW w \in Workers, NEW e \in Events, NEW status \in RowStatuses \ {"none"},
         worker[w].pc # "idle", e = worker[w].event,
         \/ outbox' = outbox
         \/ /\ Moves(e, status)
            /\ outbox[e].status = "published" => status = "published"
            /\ status = "published" => outbox[e].status = "published" \/ worker[w].pc = "mark",
         ledger' = ledger, UNCHANGED consumer,
         letters' \in [Events -> Nat],
         attempts' \subseteq [event : Events, number : Nat, succeeded : BOOLEAN],
         faults' \in Nat, crashes' \in Nat,
         WorkerTyped',
         \A v \in Workers \ {w} : worker'[v] = worker[v],
         worker'[w].batch = worker[w].batch,
         worker'[w].pc = "idle" \/ (worker'[w].event = e /\ worker'[w].pc # "mark"),
         worker'[w].pc = "record" => worker'[w].result \in {"succeeded", "failed", "rejected"}
  PROVE  Inv'
<1>1. outbox[e].status # "none"
  BY BusyWorker
<1>2. Grows
  BY <1>1, SameOutboxGrows, MoveGrows
<1>3. WorkerSound(worker[w])'
  BY <1>2, WorkerGoesOn, WorkerRests
<1>4. OutboxTyped'
  BY DEF Moves, OutboxTyped, Inv, TypeOK
<1>5. RelayStep
  BY <1>2, <1>4 DEF RelayStep, LedgerTyped, Inv, TypeOK
<1>6. \A x \in Events : outbox'[x].status # "none" => outbox[x].status # "none"
  BY <1>1 DEF Moves
<1>7. ASSUME NEW x \in Events, outbox'[x].status = "published", outbox[x].status # "published"
      PROVE  Told(x)'
  <2>1. x = e /\ status = "published"
    BY <1>7 DEF Moves
  <2>2. worker[w].pc = "mark"
    BY <1>7, <2>1
  <2>3. Told(e)
    BY <2>2 DEF Inv, RelayInv, WorkersSound, WorkerSound
  <2> QED
    BY <1>1, <1>2, <2>1, <2>3, ToldKept
<1> QED
  BY <1>3, <1>5, <1>6, <1>7, RelayStepInv

LEMMA UnmovedInv ==
  ASSUME Inv, NEW w \in Workers,
         worker[w].pc # "idle",
         UNCHANGED <<outbox, ledger>>, UNCHANGED consumer,
         letters' \in [Events -> Nat],
         attempts' \subseteq [event : Events, number : Nat, succeeded : BOOLEAN],
         faults' \in Nat, crashes' \in Nat,
         WorkerTyped',
         \A v \in Workers \ {w} : worker'[v] = worker[v],
         worker'[w].batch = worker[w].batch,
         worker'[w].pc = "idle" \/ (worker'[w].event = worker[w].event /\ worker'[w].pc # "mark"),
         worker'[w].pc = "record" => worker'[w].result \in {"succeeded", "failed", "rejected"}
  PROVE  Inv'
<1>1. worker[w].event \in Events
  BY BusyWorker
<1>2. "failed" \in RowStatuses \ {"none"}
  BY DEF RowStatuses
<1> QED
  BY <1>1, <1>2, RowStepInv

LEMMA FaultInv ==
  ASSUME Inv, NEW w \in Workers, Fault(w)
  PROVE  Inv'
<1> DEFINE e == worker[w].event
           k == KeyOf[e]
<1>1. worker[w].pc \in {"find", "insert", "mark"}
  BY DEF Fault
<1>2. e \in Events /\ k \in Keys /\ outbox[e].status # "none" /\ outbox[e].content \in Contents
  BY <1>1, BusyWorker, KeyKnown
<1>3. /\ WorkerTyped'
      /\ \A v \in Workers \ {w} : worker'[v] = worker[v]
      /\ worker'[w].event = e /\ worker'[w].batch = worker[w].batch /\ worker'[w].pc = "record"
      /\ worker'[w].result \in {"succeeded", "failed", "rejected"}
  BY ConcludeShape DEF Inv, Fault
<1>4. faults' \in Nat /\ letters' = letters /\ attempts' = attempts /\ crashes' = crashes
      /\ UNCHANGED consumer
  BY DEF Fault, Inv, TypeOK
<1>5. CASE UNCHANGED <<outbox, ledger>>
  BY <1>1, <1>3, <1>4, <1>5, UnmovedInv DEF Inv, TypeOK
<1>6. CASE worker[w].pc = "mark" /\ outbox[e].status = "processing" /\ ledger' = ledger
           /\ outbox' = [outbox EXCEPT ![e].status = "published"]
  <2>1. Moves(e, "published")
    BY <1>2, <1>6, StatusMoves DEF Inv, RowStatuses
  <2> QED
    BY <1>2, <1>3, <1>4, <1>6, <2>1, RowStepInv, StatusNames DEF Inv, TypeOK
<1>7. CASE ledger[k] = Null /\ ledger' = [ledger EXCEPT ![k] = outbox[e].content]
           /\ outbox' = outbox
  <2>1. LedgerTyped'
    BY <1>2, <1>7 DEF LedgerTyped, Inv, TypeOK
  <2>2. Grows
    BY <1>7, SameOutboxGrows DEF Inv, TypeOK
  <2>3. WorkerSound(worker[w])'
    BY <1>1, <1>3, <2>2, WorkerGoesOn
  <2>4. RelayStep
    BY <1>3, <1>4, <1>7, <2>1, <2>2 DEF RelayStep, OutboxTyped, Inv, TypeOK
  <2> QED
    BY <1>3, <1>7, <2>3, <2>4, RelayStepInv
<1> QED
  BY <1>5, <1>6, <1>7 DEF Fault, At, KeyFree, Key, Row, MayPublish

LEMMA RecordAttemptInv ==
  ASSUME Inv, NEW w \in Workers, RecordAttempt(w)
  PROVE  Inv'
<1>1. worker[w].pc # "idle"
  BY DEF RecordAttempt, At
<1>2. worker[w].event \in Events /\ worker[w].attempt \in Nat
  BY <1>1, BusyWorker DEF Inv, TypeOK, WorkType
<1>3. worker[w].result \in {"succeeded", "failed", "rejected"}
  BY DEF RecordAttempt, At, Inv, RelayInv, WorkersSound, WorkerSound
<1>4. /\ WorkerTyped'
      /\ \A v \in Workers \ {w} : worker'[v] = worker[v]
      /\ worker'[w].batch = worker[w].batch
      /\ \/ worker'[w].pc = "idle"
         \/ worker'[w].event = worker[w].event /\ worker'[w].pc \in {"bury", "fail"}
  BY <1>3, GotoShape, DoneShape DEF Inv, RecordAttempt, WorkPC
<1>5. attempts' \subseteq [event : Events, number : Nat, succeeded : BOOLEAN]
  <2>1. [event |-> worker[w].event, number |-> worker[w].attempt,
         succeeded |-> worker[w].result = "succeeded"]
           \in [event : Events, number : Nat, succeeded : BOOLEAN]
    BY <1>2
  <2> QED
    BY <2>1 DEF RecordAttempt, Inv, TypeOK
<1> QED
  BY <1>1, <1>4, <1>5, UnmovedInv DEF RecordAttempt, Inv, TypeOK

LEMMA MarkFailedInv ==
  ASSUME Inv, NEW w \in Workers, MarkFailed(w)
  PROVE  Inv'
<1> DEFINE e == worker[w].event
<1>1. worker[w].pc # "idle"
  BY DEF MarkFailed, At
<1>2. e \in Events /\ outbox[e].status # "none"
  BY <1>1, BusyWorker
<1>3. /\ WorkerTyped'
      /\ \A v \in Workers \ {w} : worker'[v] = worker[v]
      /\ worker'[w].batch = worker[w].batch
      /\ \/ worker'[w].pc = "idle"
         \/ worker'[w].event = e /\ worker'[w].pc \in {"retry", "bury"}
  BY GotoShape, DoneShape DEF Inv, MarkFailed, WorkPC
<1>4. CASE outbox[e].status = "processing"
  <2>1. Moves(e, "failed")
    BY <1>2, <1>4, StatusMoves DEF Inv, MarkFailed, Failed, RowStatuses
  <2> QED
    BY <1>1, <1>2, <1>3, <1>4, <2>1, RowStepInv, StatusNames DEF MarkFailed, Inv, TypeOK
<1>5. CASE outbox[e].status # "processing"
  <2>1. outbox' = outbox
    BY <1>5 DEF MarkFailed
  <2> QED
    BY <1>1, <1>3, <2>1, UnmovedInv DEF MarkFailed, Inv, TypeOK
<1> QED
  BY <1>4, <1>5

LEMMA ScheduleRetryInv ==
  ASSUME Inv, NEW w \in Workers, ScheduleRetry(w)
  PROVE  Inv'
<1> DEFINE e == worker[w].event
<1>1. worker[w].pc # "idle"
  BY DEF ScheduleRetry, At
<1>2. e \in Events /\ outbox[e].status # "none"
  BY <1>1, BusyWorker
<1>3. /\ WorkerTyped'
      /\ \A v \in Workers \ {w} : worker'[v] = worker[v]
      /\ worker'[w].batch = worker[w].batch /\ worker'[w].pc = "idle"
  BY DoneShape DEF Inv, ScheduleRetry
<1>4. CASE outbox[e].status = "failed"
  <2>1. Moves(e, "pending")
    BY <1>2, <1>4, StatusPostponed DEF Inv, ScheduleRetry, RowStatuses
  <2> QED
    BY <1>1, <1>2, <1>3, <1>4, <2>1, RowStepInv, StatusNames DEF ScheduleRetry, Inv, TypeOK
<1>5. CASE outbox[e].status # "failed"
  <2>1. outbox' = outbox
    BY <1>5 DEF ScheduleRetry
  <2> QED
    BY <1>1, <1>3, <2>1, UnmovedInv DEF ScheduleRetry, Inv, TypeOK
<1> QED
  BY <1>4, <1>5

LEMMA CreateDeadLetterInv ==
  ASSUME Inv, NEW w \in Workers, CreateDeadLetter(w)
  PROVE  Inv'
<1> DEFINE e == worker[w].event
<1>1. worker[w].pc # "idle"
  BY DEF CreateDeadLetter, At
<1>2. e \in Events /\ outbox[e].status # "none"
  BY <1>1, BusyWorker
<1>3. /\ WorkerTyped'
      /\ \A v \in Workers \ {w} : worker'[v] = worker[v]
      /\ worker'[w].batch = worker[w].batch /\ worker'[w].pc = "idle"
  BY DoneShape DEF Inv, CreateDeadLetter
<1>4. letters' \in [Events -> Nat]
  BY <1>2 DEF CreateDeadLetter, Inv, TypeOK
<1>5. CASE MayBury(e)
  <2>1. Moves(e, "dead_lettered")
    BY <1>2, <1>5, StatusMoves DEF Inv, CreateDeadLetter, RowStatuses
  <2> QED
    BY <1>1, <1>2, <1>3, <1>4, <1>5, <2>1, RowStepInv, StatusNames
    DEF CreateDeadLetter, Inv, TypeOK, MayBury
<1>6. CASE ~MayBury(e)
  <2>1. outbox' = outbox
    BY <1>6 DEF CreateDeadLetter
  <2> QED
    BY <1>1, <1>3, <1>4, <2>1, UnmovedInv DEF CreateDeadLetter, Inv, TypeOK
<1> QED
  BY <1>5, <1>6

LEMMA CrashWorkerInv ==
  ASSUME Inv, NEW w \in Workers, CrashWorker(w)
  PROVE  Inv'
<1>1. Grows
  BY SameOutboxGrows DEF CrashWorker
<1>2. WorkerTyped' /\ worker'[w] = NoWork /\ \A v \in Workers \ {w} : worker'[v] = worker[v]
  BY DEF WorkerTyped, Inv, TypeOK, CrashWorker, NoWork, WorkType
<1>3. WorkerSound(worker[w])'
  BY <1>2 DEF WorkerSound, NoWork
<1>4. RelayStep
  BY <1>1, <1>2 DEF RelayStep, OutboxTyped, LedgerTyped, Inv, TypeOK, CrashWorker
<1> QED
  BY <1>2, <1>3, <1>4, RelayStepInv DEF CrashWorker

-----------------------------------------------------------------------------
(* The steps of the consumer.                                               *)

\* The relay does not notice the consumer.
LEMMA ConsumerStepInv ==
  ASSUME Inv, UNCHANGED relay, faults' \in Nat, crashes' \in Nat,
         inbox' \in [Events -> {"none", "processing", "processed", "failed"}],
         effects' \in [Events -> Nat],
         handler' \in [Handlers -> [pc : {"idle", "act", "mark"}, event : Events \cup {Null}]],
         InboxInv'
  PROVE  Inv'
<1>1. /\ outbox' = outbox /\ ledger' = ledger /\ letters' = letters
      /\ attempts' = attempts /\ worker' = worker
  BY DEF relay
<1>2. TypeOK'
  BY <1>1 DEF Inv, TypeOK
<1>3. RelayInv'
  BY <1>1 DEF Inv, RelayInv, RowsFilled, PublishedIsRecorded, WorkersSound, WorkerSound, Told
<1> QED
  BY <1>2, <1>3 DEF Inv

LEMMA BeginInv ==
  ASSUME Inv, NEW h \in Handlers, NEW e \in Events, BeginProcessing(h, e)
  PROVE  Inv'
<1>1. outbox' = outbox /\ effects' = effects
  BY DEF BeginProcessing, relay
<1>2. /\ inbox' = [inbox EXCEPT ![e] = "processing"]
      /\ handler' = [handler EXCEPT ![h] = [pc |-> "act", event |-> e]]
      /\ handler[h].pc = "idle" /\ outbox[e].status = "published" /\ inbox[e] = "none"
  BY DEF BeginProcessing, MayBegin, Inv, InboxInv, InboxTrue
<1>3. effects[e] = 0
  BY <1>2 DEF Inv, InboxInv, InboxTrue
<1>4. /\ inbox' \in [Events -> {"none", "processing", "processed", "failed"}]
      /\ handler' \in [Handlers -> [pc : {"idle", "act", "mark"}, event : Events \cup {Null}]]
  BY <1>2 DEF Inv, TypeOK
<1>5. /\ handler'[h] = [pc |-> "act", event |-> e] /\ inbox'[e] = "processing"
      /\ \A g \in Handlers \ {h} : handler'[g] = handler[g]
      /\ \A x \in Events \ {e} : inbox'[x] = inbox[x]
  BY <1>2 DEF Inv, TypeOK
<1>6. \A g \in Handlers : handler[g].pc # "idle" => handler[g].event # e
  BY <1>2 DEF Inv, InboxInv, HandlerSound
<1>7. HandlerSound'
  <2> SUFFICES ASSUME NEW g \in Handlers, handler'[g].pc # "idle"
               PROVE  /\ handler'[g].event \in Events
                      /\ outbox'[handler'[g].event].status = "published"
                      /\ inbox'[handler'[g].event] = "processing"
                      /\ effects'[handler'[g].event] = IF handler'[g].pc = "act" THEN 0 ELSE 1
    BY DEF HandlerSound
  <2>1. CASE g = h
    BY <1>1, <1>2, <1>3, <1>5, <2>1
  <2>2. CASE g # h
    BY <1>1, <1>5, <1>6, <2>2 DEF Inv, InboxInv, HandlerSound
  <2> QED
    BY <2>1, <2>2
<1>8. HandlersApart'
  BY <1>5, <1>6 DEF Inv, InboxInv, HandlersApart
<1>9. InboxTrue'
  BY <1>1, <1>2, <1>3, <1>5 DEF Inv, InboxInv, InboxTrue
<1> QED
  BY <1>4, <1>7, <1>8, <1>9, ConsumerStepInv DEF BeginProcessing, InboxInv, Inv, TypeOK

LEMMA ActInv ==
  ASSUME Inv, NEW h \in Handlers, Act(h)
  PROVE  Inv'
<1> DEFINE e == handler[h].event
<1>1. outbox' = outbox /\ inbox' = inbox
  BY DEF Act, relay
<1>2. /\ effects' = [effects EXCEPT ![e] = @ + 1]
      /\ handler' = [handler EXCEPT ![h].pc = "mark"] /\ handler[h].pc = "act"
  BY DEF Act
<1>3. e \in Events /\ outbox[e].status = "published" /\ inbox[e] = "processing" /\ effects[e] = 0
  BY <1>2 DEF Inv, InboxInv, HandlerSound
<1>4. /\ effects' \in [Events -> Nat]
      /\ handler' \in [Handlers -> [pc : {"idle", "act", "mark"}, event : Events \cup {Null}]]
  <2>1. effects[e] + 1 \in Nat
    BY <1>3
  <2>2. effects' \in [Events -> Nat]
    BY <1>2, <2>1 DEF Inv, TypeOK
  <2>3. [handler[h] EXCEPT !.pc = "mark"] \in [pc : {"idle", "act", "mark"}, event : Events \cup {Null}]
    BY DEF Inv, TypeOK
  <2>4. handler' = [handler EXCEPT ![h] = [handler[h] EXCEPT !.pc = "mark"]]
    BY <1>2 DEF Inv, TypeOK
  <2> QED
    BY <2>2, <2>3, <2>4 DEF Inv, TypeOK
<1>5. /\ handler'[h].pc = "mark" /\ handler'[h].event = e /\ effects'[e] = 1
      /\ \A g \in Handlers \ {h} : handler'[g] = handler[g]
      /\ \A x \in Events \ {e} : effects'[x] = effects[x]
  BY <1>2, <1>3 DEF Inv, TypeOK
<1>6. \A g \in Handlers \ {h} : handler[g].pc # "idle" => handler[g].event # e
  BY <1>2 DEF Inv, InboxInv, HandlersApart
<1>7. HandlerSound'
  <2> SUFFICES ASSUME NEW g \in Handlers, handler'[g].pc # "idle"
               PROVE  /\ handler'[g].event \in Events
                      /\ outbox'[handler'[g].event].status = "published"
                      /\ inbox'[handler'[g].event] = "processing"
                      /\ effects'[handler'[g].event] = IF handler'[g].pc = "act" THEN 0 ELSE 1
    BY DEF HandlerSound
  <2>1. CASE g = h
    BY <1>1, <1>3, <1>5, <2>1
  <2>2. CASE g # h
    BY <1>1, <1>5, <1>6, <2>2 DEF Inv, InboxInv, HandlerSound
  <2> QED
    BY <2>1, <2>2
<1>8. HandlersApart'
  BY <1>2, <1>5 DEF Inv, InboxInv, HandlersApart
<1>9. InboxTrue'
  BY <1>1, <1>3, <1>5 DEF Inv, InboxInv, InboxTrue
<1> QED
  BY <1>4, <1>7, <1>8, <1>9, ConsumerStepInv DEF Act, InboxInv, Inv, TypeOK

LEMMA MarkProcessedInv ==
  ASSUME Inv, NEW h \in Handlers, MarkProcessed(h)
  PROVE  Inv'
<1> DEFINE e == handler[h].event
<1>1. outbox' = outbox /\ effects' = effects
  BY DEF MarkProcessed, relay
<1>2. handler[h].pc = "mark" /\ handler' = [handler EXCEPT ![h] = NoHandling]
  BY DEF MarkProcessed
<1>3. e \in Events /\ outbox[e].status = "published" /\ inbox[e] = "processing" /\ effects[e] = 1
  BY <1>2 DEF Inv, InboxInv, HandlerSound
<1>4. inbox' = [inbox EXCEPT ![e] = "processed"]
  BY <1>3 DEF MarkProcessed
<1>5. /\ inbox' \in [Events -> {"none", "processing", "processed", "failed"}]
      /\ handler' \in [Handlers -> [pc : {"idle", "act", "mark"}, event : Events \cup {Null}]]
  BY <1>2, <1>4 DEF Inv, TypeOK, NoHandling
<1>6. /\ handler'[h].pc = "idle" /\ inbox'[e] = "processed"
      /\ \A g \in Handlers \ {h} : handler'[g] = handler[g]
      /\ \A x \in Events \ {e} : inbox'[x] = inbox[x]
  BY <1>2, <1>3, <1>4 DEF Inv, TypeOK, NoHandling
<1>7. \A g \in Handlers \ {h} : handler[g].pc # "idle" => handler[g].event # e
  BY <1>2 DEF Inv, InboxInv, HandlersApart
<1>8. HandlerSound'
  BY <1>1, <1>6, <1>7 DEF Inv, InboxInv, HandlerSound
<1>9. HandlersApart'
  BY <1>6 DEF Inv, InboxInv, HandlersApart
<1>10. InboxTrue'
  BY <1>1, <1>3, <1>6 DEF Inv, InboxInv, InboxTrue
<1> QED
  BY <1>5, <1>8, <1>9, <1>10, ConsumerStepInv DEF MarkProcessed, InboxInv, Inv, TypeOK

LEMMA StopHandlerInv ==
  ASSUME Inv, NEW h \in Handlers, StopHandler(h)
  PROVE  Inv'
<1>1. outbox' = outbox /\ effects' = effects /\ inbox' = inbox
  BY DEF StopHandler, relay
<1>2. handler' \in [Handlers -> [pc : {"idle", "act", "mark"}, event : Events \cup {Null}]]
  BY DEF Inv, TypeOK, StopHandler, NoHandling
<1>3. handler'[h].pc = "idle" /\ \A g \in Handlers \ {h} : handler'[g] = handler[g]
  BY DEF Inv, TypeOK, StopHandler, NoHandling
<1>4. HandlerSound' /\ HandlersApart' /\ InboxTrue'
  BY <1>1, <1>3 DEF Inv, InboxInv, HandlerSound, HandlersApart, InboxTrue
<1> QED
  BY <1>2, <1>4, ConsumerStepInv DEF StopHandler, InboxInv, Inv, TypeOK

-----------------------------------------------------------------------------

LEMMA WorkInv ==
  ASSUME Inv, NEW w \in Workers, Work(w)
  PROVE  Inv'
  BY ClaimInv, TakeInv, FindInv, AppendInv, MarkPublishedInv, RecordAttemptInv, MarkFailedInv,
     ScheduleRetryInv, CreateDeadLetterInv DEF Work

LEMMA HandleInv ==
  ASSUME Inv, NEW h \in Handlers, Handle(h)
  PROVE  Inv'
  BY BeginInv, ActInv, MarkProcessedInv DEF Handle

LEMMA StutterInv ==
  ASSUME Inv, UNCHANGED vars
  PROVE  Inv'
<1>1. UNCHANGED relay /\ UNCHANGED consumer /\ faults' = faults /\ crashes' = crashes
  BY DEF vars
<1>2. Grows
  BY <1>1, SameOutboxGrows DEF relay
<1>3. InboxInv'
  BY <1>1, <1>2, InboxKept
<1> QED
  BY <1>1, <1>3, ConsumerStepInv DEF consumer, Inv, TypeOK

LEMMA StepInv == Inv /\ [Next]_vars => Inv'
<1> SUFFICES ASSUME Inv, [Next]_vars PROVE Inv'
  OBVIOUS
<1>1. ASSUME NEW e \in Events, BecomeDue(e) \/ \E content \in Contents : Enqueue(e, content)
      PROVE  Inv'
  BY <1>1, BecomeDueInv, EnqueueInv
<1>2. ASSUME NEW w \in Workers, Work(w) \/ Fault(w) \/ CrashWorker(w) PROVE Inv'
  BY <1>2, WorkInv, FaultInv, CrashWorkerInv
<1>3. ASSUME NEW h \in Handlers, Handle(h) \/ StopHandler(h) PROVE Inv'
  BY <1>3, HandleInv, StopHandlerInv
<1> QED
  BY <1>1, <1>2, <1>3, StutterInv DEF Next

LEMMA AlwaysInv == Spec => []Inv
  BY InitInv, StepInv, PTL DEF Spec

\* Every state of outbox, ledger, dead letters and inbox is well typed, whatever
\* fails, races or dies (packages/database/src/eventing).
THEOREM TypeCorrect == Spec => []TypeOK
  BY AlwaysInv, PTL DEF Inv

\* The consumer acts at most once upon an event, only when it was published, and
\* a processed row is no lie (InboxRepository.beginProcessing, markProcessed).
THEOREM ActsAtMostOnce == Spec => []ActedAtMostOnce
<1>1. Inv => ActedAtMostOnce
  BY DEF Inv, InboxInv, InboxTrue, ActedAtMostOnce
<1> QED
  BY <1>1, AlwaysInv, PTL

-----------------------------------------------------------------------------
(* The refinement: the fate of an event, and the steps that change it.      *)

Fates == [e \in Events |-> [content |-> outbox[e].content, status |-> StatusOf(e)]]

Open == {"pending", "processing", "failed"}

LEMMA SameRowsSameFates ==
  ASSUME outbox' = outbox
  PROVE  Fates' = Fates
  BY DEF Fates, StatusOf

\* An open row that stays open keeps its fate.
LEMMA OpenKept ==
  ASSUME TypeOK, OutboxTyped',
         \A e \in Events :
           /\ outbox'[e].content = outbox[e].content
           /\ \/ outbox'[e].status = outbox[e].status
              \/ outbox[e].status \in Open /\ outbox'[e].status \in Open
  PROVE  Fates' = Fates
<1>1. ASSUME NEW e \in Events PROVE StatusOf(e)' = StatusOf(e)
  <2>1. CASE outbox'[e].status = outbox[e].status
    BY <2>1 DEF StatusOf
  <2>2. CASE outbox[e].status \in Open /\ outbox'[e].status \in Open
    BY <2>2 DEF StatusOf, Open
  <2> QED
    BY <2>1, <2>2
<1> QED
  BY <1>1 DEF Fates

LEMMA MovedFate ==
  ASSUME TypeOK, NEW e \in Events, NEW status \in RowStatuses, Moves(e, status)
  PROVE  Fates' = [Fates EXCEPT ![e].status = StatusOf(e)']
<1>1. \A x \in Events \ {e} : StatusOf(x)' = StatusOf(x) /\ outbox'[x].content = outbox[x].content
  BY DEF Moves, StatusOf
<1>2. [content |-> outbox'[e].content, status |-> StatusOf(e)']
        = [Fates[e] EXCEPT !.status = StatusOf(e)']
  BY DEF Moves, Fates
<1> HIDE DEF StatusOf
<1> QED
  BY <1>1, <1>2 DEF Fates

LEMMA EnqueueRaises ==
  ASSUME Inv, NEW e \in Events, NEW content \in Contents, Enqueue(e, content)
  PROVE  Log!Raise(e, content)
<1>1. outbox[e] \in RowType /\ outbox[e].status = "none"
  BY DEF Inv, TypeOK, Enqueue
<1>2. outbox' = [outbox EXCEPT ![e] = [outbox[e] EXCEPT !.status = "pending", !.content = content]]
  BY <1>1 DEF Inv, TypeOK, Enqueue, RowType
<1>3. outbox'[e].status = "pending" /\ outbox'[e].content = content
  BY <1>1, <1>2 DEF Inv, TypeOK, RowType
<1>4. \A x \in Events \ {e} : outbox'[x] = outbox[x]
  BY <1>2 DEF Inv, TypeOK
<1>5. StatusOf(e) = "none" /\ StatusOf(e)' = "open"
  BY <1>1, <1>3 DEF StatusOf
<1>6. \A x \in Events \ {e} : StatusOf(x)' = StatusOf(x)
  BY <1>4 DEF StatusOf
<1>7. Fates' = [Fates EXCEPT ![e] = [content |-> content, status |-> "open"]]
  BY <1>3, <1>4, <1>5, <1>6 DEF Fates
<1>8. Fates[e].status = "none" /\ ledger' = ledger
  BY <1>5 DEF Fates, Enqueue
<1> QED
  BY <1>7, <1>8 DEF Log!Raise, Fates

LEMMA RecordsFact ==
  ASSUME Inv, NEW e \in Events, outbox[e].status # "none", outbox' = outbox,
         ledger[KeyOf[e]] = Null, ledger' = [ledger EXCEPT ![KeyOf[e]] = outbox[e].content]
  PROVE  Log!Record(e)
<1>1. outbox[e].status # "published"
  BY DEF Inv, RelayInv, PublishedIsRecorded, Told
<1>2. outbox[e].status \in RowStatuses
  BY DEF Inv, TypeOK, RowType, RowStatuses
<1>3. StatusOf(e) \in {"open", "buried"}
  BY <1>1, <1>2 DEF StatusOf, RowStatuses
<1>4. Fates[e].status \in {"open", "buried"} /\ Fates[e].content = outbox[e].content
  BY <1>3 DEF Fates
<1>5. Fates' = Fates
  BY SameRowsSameFates
<1> QED
  BY <1>4, <1>5 DEF Log!Record, Fates

LEMMA PublishesFact ==
  ASSUME Inv, NEW e \in Events, outbox[e].status = "processing",
         outbox' = [outbox EXCEPT ![e].status = "published"],
         Told(e), ledger' = ledger
  PROVE  Log!Publish(e)
<1>1. Moves(e, "published")
  BY StatusMoves DEF Inv, RowStatuses
<1>2. StatusOf(e) = "open" /\ StatusOf(e)' = "published"
  BY <1>1 DEF StatusOf, Moves
<1>3. Fates' = [Fates EXCEPT ![e].status = "published"]
  BY <1>1, <1>2, MovedFate DEF Inv, RowStatuses
<1>4. Fates[e].status = "open" /\ Fates[e].content = outbox[e].content
  BY <1>2 DEF Fates
<1> QED
  BY <1>3, <1>4 DEF Log!Publish, Fates, Told

LEMMA LetterBuries ==
  ASSUME Inv, NEW e \in Events, MayBury(e), ledger' = ledger,
         outbox' = [outbox EXCEPT ![e].status = "dead_lettered"]
  PROVE  Log!Bury(e)
<1>1. Moves(e, "dead_lettered")
  BY StatusMoves DEF Inv, RowStatuses
<1>2. StatusOf(e) = "open" /\ StatusOf(e)' = "buried"
  BY <1>1 DEF StatusOf, Moves, MayBury
<1>3. Fates' = [Fates EXCEPT ![e].status = "buried"]
  BY <1>1, <1>2, MovedFate DEF Inv, RowStatuses
<1>4. Fates[e].status = "open"
  BY <1>2 DEF Fates
<1> QED
  BY <1>3, <1>4 DEF Log!Bury, Fates

\* The steps that only move open rows among the open statuses.
LEMMA OpenSteps ==
  ASSUME Inv, NEW w \in Workers,
         MarkFailed(w) \/ ScheduleRetry(w) \/ \E batch \in SUBSET Events : ClaimBatch(w, batch)
  PROVE  Fates' = Fates /\ ledger' = ledger
<1> DEFINE e == worker[w].event
<1>1. CASE MarkFailed(w)
  <2>1. e \in Events
    BY <1>1, BusyWorker DEF MarkFailed, At
  <2>2. CASE outbox[e].status = "processing"
    <3>1. Moves(e, "failed")
      BY <1>1, <2>1, <2>2, StatusMoves DEF Inv, MarkFailed, Failed, RowStatuses
    <3> QED
      BY <1>1, <2>1, <2>2, <3>1, OpenKept DEF Moves, Open, Inv, MarkFailed
  <2>3. CASE outbox[e].status # "processing"
    BY <1>1, <2>3, SameRowsSameFates DEF MarkFailed
  <2> QED
    BY <2>2, <2>3
<1>2. CASE ScheduleRetry(w)
  <2>1. e \in Events
    BY <1>2, BusyWorker DEF ScheduleRetry, At
  <2>2. CASE outbox[e].status = "failed"
    <3>1. Moves(e, "pending")
      BY <1>2, <2>1, <2>2, StatusPostponed DEF Inv, ScheduleRetry, RowStatuses
    <3> QED
      BY <1>2, <2>1, <2>2, <3>1, OpenKept DEF Moves, Open, Inv, ScheduleRetry
  <2>3. CASE outbox[e].status # "failed"
    BY <1>2, <2>3, SameRowsSameFates DEF ScheduleRetry
  <2> QED
    BY <2>2, <2>3
<1>3. ASSUME NEW batch \in SUBSET Events, ClaimBatch(w, batch)
      PROVE  Fates' = Fates /\ ledger' = ledger
  <2>1. Inv'
    BY <1>3, ClaimInv
  <2>2. ASSUME NEW x \in Events
        PROVE  /\ outbox'[x].content = outbox[x].content
               /\ \/ outbox'[x].status = outbox[x].status
                  \/ outbox[x].status \in Open /\ outbox'[x].status \in Open
    <3>1. outbox[x] \in RowType
      BY DEF Inv, TypeOK
    <3>2. CASE x \in batch
      <4>1. outbox'[x] = [outbox[x] EXCEPT !.status = "processing", !.count = @ + 1]
        BY <1>3, <3>2 DEF ClaimBatch
      <4>2. outbox[x].status \in Open
        BY <1>3, <3>2 DEF ClaimBatch, Claimable, Open
      <4> QED
        BY <3>1, <4>1, <4>2 DEF RowType, Open
    <3>3. CASE x \notin batch
      BY <1>3, <3>3 DEF ClaimBatch
    <3> QED
      BY <3>2, <3>3
  <2> QED
    BY <1>3, <2>1, <2>2, OpenKept DEF OutboxTyped, Inv, TypeOK, ClaimBatch
<1> QED
  BY <1>1, <1>2, <1>3

LEMMA DueKept ==
  ASSUME Inv, NEW e \in Events, BecomeDue(e)
  PROVE  Fates' = Fates /\ ledger' = ledger
<1>1. outbox[e] \in RowType
  BY DEF Inv, TypeOK
<1>2. \A x \in Events : outbox'[x].status = outbox[x].status /\ outbox'[x].content = outbox[x].content
  BY <1>1 DEF BecomeDue, Inv, TypeOK, RowType
<1>3. Inv'
  BY BecomeDueInv
<1> QED
  BY <1>2, <1>3, OpenKept DEF OutboxTyped, Inv, TypeOK, BecomeDue

LogStep == Log!Next \/ (Fates' = Fates /\ ledger' = ledger)

LEMMA FaultLogs ==
  ASSUME Inv, NEW w \in Workers, Fault(w)
  PROVE  LogStep
<1> DEFINE e == worker[w].event
<1>1. worker[w].pc # "idle"
  BY DEF Fault
<1>2. e \in Events /\ outbox[e].status # "none"
  BY <1>1, BusyWorker
<1>3. CASE UNCHANGED <<outbox, ledger>>
  BY <1>3, SameRowsSameFates DEF LogStep
<1>4. CASE ledger[KeyOf[e]] = Null /\ outbox' = outbox
           /\ ledger' = [ledger EXCEPT ![KeyOf[e]] = outbox[e].content]
  BY <1>2, <1>4, RecordsFact DEF LogStep, Log!Next
<1>5. CASE worker[w].pc = "mark" /\ outbox[e].status = "processing" /\ ledger' = ledger
           /\ outbox' = [outbox EXCEPT ![e].status = "published"]
  <2>1. Told(e)
    BY <1>5 DEF Inv, RelayInv, WorkersSound, WorkerSound
  <2> QED
    BY <1>2, <1>5, <2>1, PublishesFact DEF LogStep, Log!Next
<1> QED
  BY <1>3, <1>4, <1>5 DEF Fault, At, KeyFree, Key, Row, MayPublish

LEMMA WorkLogs ==
  ASSUME Inv, NEW w \in Workers, Work(w)
  PROVE  LogStep
<1> DEFINE e == worker[w].event
<1>1. ASSUME worker[w].pc # "idle" PROVE e \in Events /\ outbox[e].status # "none"
  BY <1>1, BusyWorker
<1>2. CASE Take(w) \/ Find(w) \/ RecordAttempt(w)
  BY <1>2, SameRowsSameFates DEF Take, Find, RecordAttempt, LogStep
<1>3. CASE MarkFailed(w) \/ ScheduleRetry(w) \/ \E batch \in SUBSET Events : ClaimBatch(w, batch)
  BY <1>3, OpenSteps DEF LogStep
<1>4. CASE Append(w)
  <2>1. e \in Events /\ outbox[e].status # "none"
    BY <1>1, <1>4 DEF Append, At
  <2>2. CASE ledger[KeyOf[e]] = Null
    BY <1>4, <2>1, <2>2, RecordsFact DEF LogStep, Log!Next, Append, KeyFree, Key, Row
  <2>3. CASE ledger[KeyOf[e]] # Null
    BY <1>4, <2>3, SameRowsSameFates DEF LogStep, Append, KeyFree, Key
  <2> QED
    BY <2>2, <2>3
<1>5. CASE MarkPublished(w)
  <2>1. e \in Events /\ Told(e)
    BY <1>5 DEF MarkPublished, At, Inv, RelayInv, WorkersSound, WorkerSound
  <2>2. CASE outbox[e].status = "processing"
    BY <1>5, <2>1, <2>2, PublishesFact DEF LogStep, Log!Next, MarkPublished, MayPublish
  <2>3. CASE outbox[e].status # "processing"
    BY <1>5, <2>3, SameRowsSameFates DEF LogStep, MarkPublished, MayPublish
  <2> QED
    BY <2>2, <2>3
<1>6. CASE CreateDeadLetter(w)
  <2>1. e \in Events
    BY <1>1, <1>6 DEF CreateDeadLetter, At
  <2>2. CASE MayBury(e)
    BY <1>6, <2>1, <2>2, LetterBuries DEF LogStep, Log!Next, CreateDeadLetter
  <2>3. CASE ~MayBury(e)
    BY <1>6, <2>3, SameRowsSameFates DEF LogStep, CreateDeadLetter
  <2> QED
    BY <2>2, <2>3
<1> QED
  BY <1>2, <1>3, <1>4, <1>5, <1>6 DEF Work

LEMMA NextLogs ==
  ASSUME Inv, [Next]_vars
  PROVE  LogStep
<1>1. ASSUME NEW e \in Events, NEW content \in Contents, Enqueue(e, content) PROVE LogStep
  BY <1>1, EnqueueRaises DEF LogStep, Log!Next
<1>2. ASSUME NEW e \in Events, BecomeDue(e) PROVE LogStep
  BY <1>2, DueKept DEF LogStep
<1>3. ASSUME NEW w \in Workers, Work(w) \/ Fault(w) \/ CrashWorker(w) PROVE LogStep
  <2>1. CASE CrashWorker(w)
    BY <2>1, SameRowsSameFates DEF LogStep, CrashWorker
  <2> QED
    BY <1>3, <2>1, WorkLogs, FaultLogs
<1>4. ASSUME NEW h \in Handlers, Handle(h) \/ StopHandler(h) PROVE LogStep
  <2>1. outbox' = outbox /\ ledger' = ledger
    BY <1>4 DEF Handle, StopHandler, BeginProcessing, Act, MarkProcessed, relay
  <2> QED
    BY <2>1, SameRowsSameFates DEF LogStep
<1>5. CASE UNCHANGED vars
  BY <1>5, SameRowsSameFates DEF LogStep, vars, relay
<1> QED
  BY <1>1, <1>2, <1>3, <1>4, <1>5 DEF Next

\* The eventing implements EventLog: an event is published only once an entry of
\* the same logical event is recorded under its key, and neither a published nor a dead-lettered event, nor an entry
\* of the ledger, ever changes (OutboxRepository, EventLedgerRepository).
THEOREM LogImplemented == Spec => LogSpec
<1>1. Init => Log!Init
  BY DEF Init, Log!Init, Log!Keys, Keys, NoRow, StatusOf
<1>2. Inv /\ [Next]_vars => [Log!Next]_<<ledger, Fates>>
  BY NextLogs DEF LogStep
<1> QED
  BY <1>1, <1>2, AlwaysInv, PTL DEF Spec, LogSpec, Log!Spec, Fates

-----------------------------------------------------------------------------
(* The history of attempts: what its rows and the claims that are still to  *)
(* be recorded say of each other.                                           *)

\* The steps from the taking of a row up to the record of the attempt.
Publishing == {"find", "insert", "mark", "record"}

Current(x) == [event |-> x.event, attempt |-> x.attempt]

\* The attempts that a worker has claimed and not yet recorded.
Held(x) == x.batch \cup (IF x.pc \in Publishing THEN {Current(x)} ELSE {})

ClaimsCounted ==
    \A w \in Workers : \A r \in Held(worker[w]) : r.attempt <= outbox[r.event].count

ClaimsApart ==
    \A v, w \in Workers : v # w => Held(worker[v]) \cap Held(worker[w]) = {}

CurrentTaken ==
    \A w \in Workers : worker[w].pc \in Publishing => Current(worker[w]) \notin worker[w].batch

\* A claim is for an attempt that no row of the history tells of.
ClaimsNew ==
    \A w \in Workers : \A r \in Held(worker[w]) : \A a \in attempts :
      r.event = a.event => r.attempt # a.number

AttemptsCounted == \A a \in attempts : a.number <= outbox[a.event].count

NumbersApart ==
    \A a, b \in attempts : a.event = b.event /\ a.number = b.number => a = b

ClaimsInv ==
    /\ ClaimsCounted /\ ClaimsApart /\ CurrentTaken
    /\ ClaimsNew /\ AttemptsCounted /\ NumbersApart

\* A worker that has published its row and is about to record so.
Succeeding(x) == x.pc = "record" /\ x.result = "succeeded"

SuccessApart ==
    \A v, w \in Workers :
      Succeeding(worker[v]) /\ Succeeding(worker[w]) /\ worker[v].event = worker[w].event => v = w

SuccessPublished ==
    /\ \A w \in Workers : Succeeding(worker[w]) => outbox[worker[w].event].status = "published"
    /\ \A a \in attempts : a.succeeded => outbox[a.event].status = "published"

SuccessNew ==
    \A w \in Workers : \A a \in attempts :
      Succeeding(worker[w]) /\ a.succeeded => a.event # worker[w].event

SuccessOnce ==
    \A a, b \in attempts : a.event = b.event /\ a.succeeded /\ b.succeeded => a = b

SuccessInv == SuccessApart /\ SuccessPublished /\ SuccessNew /\ SuccessOnce

LettersTold == \A e \in Events : outbox[e].status = "dead_lettered" => letters[e] > 0

HistoryInv == ClaimsInv /\ SuccessInv /\ LettersTold

-----------------------------------------------------------------------------
(* What no step does to a row: count, publication and letters only grow, and *)
(* a row is buried with a letter.                                            *)

RowsAdvance ==
    \A e \in Events :
      /\ outbox[e].count <= outbox'[e].count
      /\ outbox[e].status = "published" => outbox'[e].status = "published"
      /\ letters[e] <= letters'[e]
      /\ outbox'[e].status = "dead_lettered" => outbox[e].status = "dead_lettered" \/ letters'[e] > 0

LEMMA SameRowsAdvance ==
  ASSUME TypeOK, outbox' = outbox, letters' = letters
  PROVE  RowsAdvance
<1>1. \A e \in Events : outbox[e].count \in Nat /\ letters[e] \in Nat
  BY DEF TypeOK, RowType
<1> QED
  BY <1>1 DEF RowsAdvance

\* A row changes alone, to a status other than dead_lettered, out of another
\* than published.
LEMMA OneRowAdvances ==
  ASSUME TypeOK, NEW e \in Events, NEW row \in RowType,
         outbox' = [outbox EXCEPT ![e] = row], letters' = letters,
         row.count = outbox[e].count, row.status # "dead_lettered",
         outbox[e].status # "published"
  PROVE  RowsAdvance
<1>1. \A x \in Events : outbox[x].count \in Nat /\ letters[x] \in Nat
  BY DEF TypeOK, RowType
<1>2. outbox'[e] = row /\ \A x \in Events \ {e} : outbox'[x] = outbox[x]
  BY DEF TypeOK
<1> QED
  BY <1>1, <1>2 DEF RowsAdvance

LEMMA StatusAdvances ==
  ASSUME TypeOK, NEW e \in Events, NEW status \in RowStatuses \ {"dead_lettered"},
         outbox' = [outbox EXCEPT ![e].status = status], letters' = letters,
         outbox[e].status # "published"
  PROVE  RowsAdvance
<1>1. outbox[e] \in RowType
  BY DEF TypeOK
<1>2. [outbox[e] EXCEPT !.status = status] \in RowType
  BY <1>1 DEF RowType, RowStatuses
<1>3. [outbox[e] EXCEPT !.status = status].count = outbox[e].count
      /\ [outbox[e] EXCEPT !.status = status].status = status
  BY <1>1 DEF RowType
<1>4. outbox' = [outbox EXCEPT ![e] = [outbox[e] EXCEPT !.status = status]]
  OBVIOUS
<1> QED
  BY <1>2, <1>3, <1>4, OneRowAdvances

LEMMA EnqueueAdvances ==
  ASSUME Inv, NEW e \in Events, NEW content \in Contents, Enqueue(e, content)
  PROVE  RowsAdvance
<1>1. outbox[e] \in RowType
  BY DEF Inv, TypeOK
<1> DEFINE row == [outbox[e] EXCEPT !.status = "pending", !.content = content]
<1>2. row \in RowType /\ row.count = outbox[e].count /\ row.status = "pending"
  BY <1>1 DEF RowType
<1>3. outbox' = [outbox EXCEPT ![e] = row]
  BY <1>1 DEF Inv, TypeOK, Enqueue, RowType
<1> HIDE DEF row
<1> QED
  BY <1>2, <1>3, OneRowAdvances DEF Inv, Enqueue

LEMMA BecomeDueAdvances ==
  ASSUME Inv, NEW e \in Events, BecomeDue(e)
  PROVE  RowsAdvance
<1>1. \A x \in Events : outbox[x].count \in Nat /\ letters[x] \in Nat /\ outbox[x] \in RowType
  BY DEF Inv, TypeOK, RowType
<1>2. \A x \in Events : outbox'[x].count = outbox[x].count /\ outbox'[x].status = outbox[x].status
  BY <1>1 DEF BecomeDue, Inv, TypeOK, RowType
<1> QED
  BY <1>1, <1>2 DEF RowsAdvance, BecomeDue

LEMMA ClaimedRows ==
  ASSUME Inv, NEW w \in Workers, NEW batch \in SUBSET Events, ClaimBatch(w, batch),
         NEW e \in Events
  PROVE  /\ outbox[e].count \in Nat
         /\ e \in batch => /\ outbox'[e].count = outbox[e].count + 1
                           /\ outbox'[e].status = "processing"
                           /\ outbox[e].status \in {"pending", "failed"}
         /\ e \notin batch => outbox'[e] = outbox[e]
<1>1. outbox[e] \in RowType
  BY DEF Inv, TypeOK
<1>2. CASE e \in batch
  <2>1. outbox'[e] = [outbox[e] EXCEPT !.status = "processing", !.count = @ + 1]
    BY <1>2 DEF ClaimBatch
  <2>2. outbox'[e].count = outbox[e].count + 1 /\ outbox'[e].status = "processing"
    BY <1>1, <2>1 DEF RowType
  <2>3. outbox[e].status \in {"pending", "failed"}
    BY <1>2 DEF ClaimBatch, Claimable
  <2> QED
    BY <1>1, <1>2, <2>2, <2>3 DEF RowType
<1>3. CASE e \notin batch
  BY <1>1, <1>3 DEF ClaimBatch, RowType
<1> QED
  BY <1>2, <1>3

LEMMA ClaimAdvances ==
  ASSUME Inv, NEW w \in Workers, NEW batch \in SUBSET Events, ClaimBatch(w, batch)
  PROVE  RowsAdvance
<1>1. letters' = letters /\ \A e \in Events : letters[e] \in Nat
  BY DEF ClaimBatch, Inv, TypeOK
<1> SUFFICES ASSUME NEW e \in Events
             PROVE  /\ outbox[e].count <= outbox'[e].count
                    /\ outbox[e].status = "published" => outbox'[e].status = "published"
                    /\ outbox'[e].status = "dead_lettered" => outbox[e].status = "dead_lettered"
  BY <1>1 DEF RowsAdvance
<1>2. CASE e \in batch
  BY <1>2, ClaimedRows
<1>3. CASE e \notin batch
  BY <1>3, ClaimedRows
<1> QED
  BY <1>2, <1>3

LEMMA PublishingAdvances ==
  ASSUME Inv, NEW w \in Workers, MarkPublished(w) \/ Fault(w)
  PROVE  RowsAdvance
<1> DEFINE e == worker[w].event
<1>1. e \in Events
  BY BusyWorker DEF MarkPublished, Fault, At
<1>2. letters' = letters
  BY DEF MarkPublished, Fault
<1>3. \/ outbox' = outbox
      \/ outbox[e].status = "processing" /\ outbox' = [outbox EXCEPT ![e].status = "published"]
  BY DEF MarkPublished, Fault, MayPublish
<1>4. CASE outbox' = outbox
  BY <1>2, <1>4, SameRowsAdvance DEF Inv
<1>5. CASE outbox[e].status = "processing" /\ outbox' = [outbox EXCEPT ![e].status = "published"]
  BY <1>1, <1>2, <1>5, StatusAdvances DEF Inv, RowStatuses
<1> QED
  BY <1>3, <1>4, <1>5

LEMMA MarkFailedAdvances ==
  ASSUME Inv, NEW w \in Workers, MarkFailed(w)
  PROVE  RowsAdvance
<1> DEFINE e == worker[w].event
<1>1. e \in Events /\ letters' = letters
  BY BusyWorker DEF MarkFailed, At
<1>2. CASE outbox[e].status = "processing"
  BY <1>1, <1>2, StatusAdvances DEF Inv, RowStatuses, MarkFailed, Failed
<1>3. CASE outbox[e].status # "processing"
  BY <1>1, <1>3, SameRowsAdvance DEF Inv, MarkFailed
<1> QED
  BY <1>2, <1>3

LEMMA ScheduleRetryAdvances ==
  ASSUME Inv, NEW w \in Workers, ScheduleRetry(w)
  PROVE  RowsAdvance
<1> DEFINE e == worker[w].event
           row == [outbox[e] EXCEPT !.status = "pending", !.delayed = TRUE]
<1>1. e \in Events /\ letters' = letters
  BY BusyWorker DEF ScheduleRetry, At
<1>2. CASE outbox[e].status = "failed"
  <2>1. outbox[e] \in RowType
    BY <1>1 DEF Inv, TypeOK
  <2>2. row \in RowType /\ row.count = outbox[e].count /\ row.status = "pending"
    BY <2>1 DEF RowType
  <2>3. outbox' = [outbox EXCEPT ![e] = row]
    BY <1>1, <1>2, <2>1 DEF Inv, TypeOK, ScheduleRetry, RowType
  <2> HIDE DEF row
  <2> QED
    BY <1>1, <1>2, <2>2, <2>3, OneRowAdvances DEF Inv
<1>3. CASE outbox[e].status # "failed"
  BY <1>1, <1>3, SameRowsAdvance DEF Inv, ScheduleRetry
<1> QED
  BY <1>2, <1>3

LEMMA CreateDeadLetterAdvances ==
  ASSUME Inv, NEW w \in Workers, CreateDeadLetter(w)
  PROVE  RowsAdvance
<1> DEFINE e == worker[w].event
<1>1. e \in Events
  BY BusyWorker DEF CreateDeadLetter, At
<1>2. \A x \in Events : letters[x] \in Nat /\ outbox[x].count \in Nat /\ outbox[x] \in RowType
  BY DEF Inv, TypeOK, RowType
<1>3. /\ \A x \in Events : letters[x] <= letters'[x]
      /\ letters'[e] > 0
  BY <1>1, <1>2 DEF CreateDeadLetter, Inv, TypeOK
<1>4. CASE MayBury(e)
  <2>1. outbox' = [outbox EXCEPT ![e].status = "dead_lettered"]
    BY <1>4 DEF CreateDeadLetter
  <2>2. outbox'[e].count = outbox[e].count /\ \A x \in Events \ {e} : outbox'[x] = outbox[x]
    BY <1>1, <1>2, <2>1 DEF Inv, TypeOK, RowType
  <2>3. outbox[e].status # "published"
    BY <1>4 DEF MayBury
  <2> QED
    BY <1>2, <1>3, <2>2, <2>3 DEF RowsAdvance
<1>5. CASE ~MayBury(e)
  <2>1. outbox' = outbox
    BY <1>5 DEF CreateDeadLetter
  <2> QED
    BY <1>2, <1>3, <2>1 DEF RowsAdvance
<1> QED
  BY <1>4, <1>5

LEMMA NextAdvances ==
  ASSUME Inv, [Next]_vars
  PROVE  RowsAdvance
<1>1. ASSUME NEW e \in Events, BecomeDue(e) \/ \E content \in Contents : Enqueue(e, content)
      PROVE  RowsAdvance
  BY <1>1, EnqueueAdvances, BecomeDueAdvances
<1>2. ASSUME NEW w \in Workers, Work(w) \/ Fault(w) \/ CrashWorker(w) PROVE RowsAdvance
  <2>1. CASE Take(w) \/ Find(w) \/ Append(w) \/ RecordAttempt(w) \/ CrashWorker(w)
    <3>1. outbox' = outbox /\ letters' = letters
      BY <2>1 DEF Take, Find, Append, RecordAttempt, CrashWorker
    <3> QED
      BY <3>1, SameRowsAdvance DEF Inv
  <2> QED
    BY <1>2, <2>1, ClaimAdvances, PublishingAdvances, MarkFailedAdvances,
       ScheduleRetryAdvances, CreateDeadLetterAdvances DEF Work
<1>3. ASSUME NEW h \in Handlers, Handle(h) \/ StopHandler(h) PROVE RowsAdvance
  <2>1. outbox' = outbox /\ letters' = letters
    BY <1>3 DEF Handle, StopHandler, BeginProcessing, Act, MarkProcessed, relay
  <2> QED
    BY <2>1, SameRowsAdvance DEF Inv
<1>4. CASE UNCHANGED vars
  BY <1>4, SameRowsAdvance DEF Inv, vars, relay
<1> QED
  BY <1>1, <1>2, <1>3, <1>4 DEF Next

-----------------------------------------------------------------------------
(* Claims                                                                   *)

\* What a worker holds of an event it is busy with, is a claim for one of Events.
LEMMA HeldOfEvents ==
  ASSUME Inv, NEW w \in Workers
  PROVE  \A r \in Held(worker[w]) : r \in [event : Events, attempt : Nat]
<1>1. worker[w] \in WorkType
  BY DEF Inv, TypeOK
<1>2. CASE worker[w].pc \in Publishing
  <2>1. worker[w].event \in Events
    BY <1>2, BusyWorker DEF Publishing
  <2> QED
    BY <1>1, <2>1 DEF WorkType, Held, Current
<1>3. CASE worker[w].pc \notin Publishing
  BY <1>1, <1>3 DEF WorkType, Held
<1> QED
  BY <1>2, <1>3

\* Nothing is claimed and nothing recorded, whatever is given up.
LEMMA HeldShrinks ==
  ASSUME Inv, ClaimsInv, RowsAdvance, TypeOK', attempts' = attempts,
         \A v \in Workers : Held(worker'[v]) \subseteq Held(worker[v]),
         \A v \in Workers : worker'[v].pc \in Publishing => Current(worker'[v]) \notin worker'[v].batch
  PROVE  ClaimsInv'
<1>1. \A e \in Events : outbox[e].count \in Nat /\ outbox'[e].count \in Nat
  BY DEF Inv, TypeOK, RowType
<1>2. ClaimsCounted'
  <2> SUFFICES ASSUME NEW v \in Workers, NEW r \in Held(worker'[v])
               PROVE  r.attempt <= outbox'[r.event].count
    BY DEF ClaimsCounted
  <2>1. r \in Held(worker[v])
    OBVIOUS
  <2>2. r.event \in Events /\ r.attempt \in Nat
    BY <2>1, HeldOfEvents
  <2>3. r.attempt <= outbox[r.event].count
    BY <2>1 DEF ClaimsInv, ClaimsCounted
  <2> QED
    BY <1>1, <2>2, <2>3 DEF RowsAdvance
<1>3. ClaimsApart'
  <2> SUFFICES ASSUME NEW v \in Workers, NEW w \in Workers, v # w
               PROVE  Held(worker'[v]) \cap Held(worker'[w]) = {}
    BY DEF ClaimsApart
  <2>1. Held(worker[v]) \cap Held(worker[w]) = {}
    BY DEF ClaimsInv, ClaimsApart
  <2> QED
    BY <2>1
<1>4. CurrentTaken'
  BY DEF CurrentTaken
<1>5. ClaimsNew'
  <2> SUFFICES ASSUME NEW v \in Workers, NEW r \in Held(worker'[v]), NEW a \in attempts,
                      r.event = a.event
               PROVE  r.attempt # a.number
    BY DEF ClaimsNew
  <2>1. r \in Held(worker[v])
    OBVIOUS
  <2> QED
    BY <2>1 DEF ClaimsInv, ClaimsNew
<1>6. AttemptsCounted'
  <2> SUFFICES ASSUME NEW a \in attempts
               PROVE  a.number <= outbox'[a.event].count
    BY DEF AttemptsCounted
  <2>1. a.event \in Events /\ a.number \in Nat
    BY DEF Inv, TypeOK
  <2>2. a.number <= outbox[a.event].count
    BY DEF ClaimsInv, AttemptsCounted
  <2> QED
    BY <1>1, <2>1, <2>2 DEF RowsAdvance
<1>7. NumbersApart'
  BY DEF ClaimsInv, NumbersApart
<1> QED
  BY <1>2, <1>3, <1>4, <1>5, <1>6, <1>7 DEF ClaimsInv

\* A worker goes on with its row, records nothing, or drops what it holds.
WorkerKeeps(w) ==
    /\ \A v \in Workers \ {w} : worker'[v] = worker[v]
    /\ worker'[w].batch \subseteq worker[w].batch
    /\ worker'[w].pc \in Publishing =>
         /\ worker[w].pc \in Publishing
         /\ worker'[w].event = worker[w].event /\ worker'[w].attempt = worker[w].attempt

LEMMA KeepsClaims ==
  ASSUME Inv, ClaimsInv, RowsAdvance, TypeOK', attempts' = attempts,
         NEW w \in Workers, WorkerKeeps(w)
  PROVE  ClaimsInv'
<1>1. ASSUME NEW v \in Workers
      PROVE  /\ Held(worker'[v]) \subseteq Held(worker[v])
             /\ worker'[v].pc \in Publishing => Current(worker'[v]) \notin worker'[v].batch
  <2>1. CASE v # w
    <3>1. worker'[v] = worker[v]
      BY <2>1 DEF WorkerKeeps
    <3> QED
      BY <3>1 DEF ClaimsInv, CurrentTaken
  <2>2. CASE v = w
    <3>1. worker'[w].pc \in Publishing =>
            worker[w].pc \in Publishing /\ Current(worker'[w]) = Current(worker[w])
      BY DEF WorkerKeeps, Current
    <3>2. worker'[w].batch \subseteq worker[w].batch
      BY DEF WorkerKeeps
    <3>3. Held(worker'[w]) \subseteq Held(worker[w])
      BY <3>1, <3>2 DEF Held
    <3>4. worker[w].pc \in Publishing => Current(worker[w]) \notin worker[w].batch
      BY DEF ClaimsInv, CurrentTaken
    <3> QED
      BY <2>2, <3>1, <3>2, <3>3, <3>4
  <2> QED
    BY <2>1, <2>2
<1> QED
  BY <1>1, HeldShrinks

LEMMA SameWorkersClaims ==
  ASSUME Inv, ClaimsInv, RowsAdvance, TypeOK', attempts' = attempts, worker' = worker
  PROVE  ClaimsInv'
<1>1. \A v \in Workers : worker[v].pc \in Publishing => Current(worker[v]) \notin worker[v].batch
  BY DEF ClaimsInv, CurrentTaken
<1> QED
  BY <1>1, HeldShrinks

\* The steps of a worker with the row it is busy with, up to the record and from it on.
LEMMA BusyKeeps ==
  ASSUME Inv, NEW w \in Workers,
         \/ Find(w) \/ Append(w) \/ MarkPublished(w) \/ Fault(w) \/ MarkFailed(w)
         \/ ScheduleRetry(w) \/ CreateDeadLetter(w) \/ CrashWorker(w)
  PROVE  WorkerKeeps(w)
<1>1. CASE Find(w)
  <2>1. worker[w].pc \in Publishing
    BY <1>1 DEF Find, At, Publishing
  <2>2. Goto(w, "insert") \/ Goto(w, "mark") \/ Conclude(w, "rejected") \/ Conclude(w, "failed")
    BY <1>1 DEF Find
  <2> QED
    BY <2>1, <2>2, GotoShape, ConcludeShape DEF Inv, WorkPC, WorkerKeeps
<1>2. CASE Append(w)
  <2>1. worker[w].pc \in Publishing
    BY <1>2 DEF Append, At, Publishing
  <2>2. Goto(w, "mark") \/ Conclude(w, "failed")
    BY <1>2 DEF Append
  <2> QED
    BY <2>1, <2>2, GotoShape, ConcludeShape DEF Inv, WorkPC, WorkerKeeps
<1>3. CASE MarkPublished(w) \/ Fault(w)
  <2>1. worker[w].pc \in Publishing
    BY <1>3 DEF MarkPublished, Fault, At, Publishing
  <2>2. Conclude(w, "succeeded") \/ Conclude(w, "failed")
    BY <1>3 DEF MarkPublished, Fault
  <2> QED
    BY <2>1, <2>2, ConcludeShape DEF Inv, WorkerKeeps
<1>4. CASE MarkFailed(w)
  <2>1. Goto(w, "retry") \/ Goto(w, "bury") \/ Done(w)
    BY <1>4 DEF MarkFailed
  <2>2. "retry" \notin Publishing /\ "bury" \notin Publishing /\ "idle" \notin Publishing
    BY DEF Publishing
  <2> QED
    BY <2>1, <2>2, GotoShape, DoneShape DEF Inv, WorkPC, WorkerKeeps
<1>5. CASE ScheduleRetry(w) \/ CreateDeadLetter(w)
  <2>1. Done(w) /\ "idle" \notin Publishing
    BY <1>5 DEF ScheduleRetry, CreateDeadLetter, Publishing
  <2> QED
    BY <2>1, DoneShape DEF Inv, WorkerKeeps
<1>6. CASE CrashWorker(w)
  <2>1. worker'[w] = NoWork /\ \A v \in Workers \ {w} : worker'[v] = worker[v]
    BY <1>6 DEF CrashWorker, Inv, TypeOK
  <2> QED
    BY <2>1 DEF WorkerKeeps, NoWork, Publishing
<1> QED
  BY <1>1, <1>2, <1>3, <1>4, <1>5, <1>6

LEMMA TakeClaims ==
  ASSUME Inv, ClaimsInv, RowsAdvance, TypeOK', NEW w \in Workers, Take(w)
  PROVE  ClaimsInv'
<1>1. PICK row \in worker[w].batch :
        worker' = [worker EXCEPT ![w] =
          [pc |-> "find", batch |-> @.batch \ {row}, event |-> row.event,
           attempt |-> row.attempt, result |-> Null]]
  BY DEF Take
<1>2. row = [event |-> row.event, attempt |-> row.attempt]
  BY DEF Inv, TypeOK, WorkType
<1>3. /\ worker'[w].batch = worker[w].batch \ {row} /\ worker'[w].pc = "find"
      /\ worker'[w].event = row.event /\ worker'[w].attempt = row.attempt
      /\ \A v \in Workers \ {w} : worker'[v] = worker[v]
  BY <1>1 DEF Inv, TypeOK
<1>4. Current(worker'[w]) = row
  BY <1>2, <1>3 DEF Current
<1>5. Held(worker'[w]) \subseteq Held(worker[w]) /\ Current(worker'[w]) \notin worker'[w].batch
  BY <1>3, <1>4 DEF Held, Publishing
<1>6. ASSUME NEW v \in Workers \ {w}
      PROVE  /\ Held(worker'[v]) \subseteq Held(worker[v])
             /\ worker'[v].pc \in Publishing => Current(worker'[v]) \notin worker'[v].batch
  <2>1. worker'[v] = worker[v]
    BY <1>3
  <2> QED
    BY <2>1 DEF ClaimsInv, CurrentTaken
<1>7. attempts' = attempts
  BY DEF Take
<1> QED
  BY <1>5, <1>6, <1>7, HeldShrinks

\* The numbers that a claim gives its rows are new: the claim raises the counts.
LEMMA ClaimClaims ==
  ASSUME Inv, ClaimsInv, RowsAdvance, NEW w \in Workers, NEW batch \in SUBSET Events,
         ClaimBatch(w, batch)
  PROVE  ClaimsInv'
<1> DEFINE rows == {[event |-> e, attempt |-> outbox[e].count + 1] : e \in batch}
<1>1. /\ worker'[w].batch = rows /\ worker'[w].pc = "idle"
      /\ \A v \in Workers \ {w} : worker'[v] = worker[v]
  BY DEF Inv, TypeOK, WorkType, ClaimBatch, At
<1>2. Held(worker'[w]) = rows
  BY <1>1 DEF Held, Publishing
<1>3. \A e \in Events : outbox[e].count \in Nat
  BY DEF Inv, TypeOK, RowType
<1>4. \A r \in rows : /\ r.event \in Events
                      /\ r.attempt = outbox[r.event].count + 1
                      /\ outbox'[r.event].count = outbox[r.event].count + 1
  BY ClaimedRows
<1>5. \A e \in Events : outbox[e].count <= outbox'[e].count /\ outbox'[e].count \in Nat
  <2>1. ASSUME NEW e \in Events PROVE outbox'[e].count \in Nat
    <3>1. outbox'[e].count = outbox[e].count + 1 \/ outbox'[e].count = outbox[e].count
      BY ClaimedRows
    <3> QED
      BY <1>3, <3>1
  <2> QED
    BY <2>1 DEF RowsAdvance
<1>6. attempts' = attempts
  BY DEF ClaimBatch
<1> HIDE DEF rows
<1>7. \A v \in Workers \ {w} : Held(worker'[v]) = Held(worker[v])
  BY <1>1
<1>8. ClaimsCounted'
  <2> SUFFICES ASSUME NEW v \in Workers, NEW r \in Held(worker'[v])
               PROVE  r.attempt <= outbox'[r.event].count
    BY DEF ClaimsCounted
  <2>1. CASE v = w
    BY <1>2, <1>3, <1>4, <2>1
  <2>2. CASE v # w
    <3>1. r \in Held(worker[v])
      BY <1>7, <2>2
    <3>2. r.event \in Events /\ r.attempt \in Nat
      BY <3>1, HeldOfEvents
    <3>3. r.attempt <= outbox[r.event].count
      BY <3>1 DEF ClaimsInv, ClaimsCounted
    <3> QED
      BY <1>3, <1>5, <3>2, <3>3
  <2> QED
    BY <2>1, <2>2
<1>9. \A v \in Workers \ {w} : Held(worker'[v]) \cap rows = {}
  <2> SUFFICES ASSUME NEW v \in Workers \ {w}, NEW r \in Held(worker[v]), r \in rows
               PROVE  FALSE
    BY <1>7
  <2>1. r.attempt <= outbox[r.event].count
    BY DEF ClaimsInv, ClaimsCounted
  <2> QED
    BY <1>3, <1>4, <2>1
<1>10. ClaimsApart'
  <2> SUFFICES ASSUME NEW u \in Workers, NEW v \in Workers, u # v
               PROVE  Held(worker'[u]) \cap Held(worker'[v]) = {}
    BY DEF ClaimsApart
  <2>1. CASE u = w
    BY <1>2, <1>9, <2>1
  <2>2. CASE v = w
    BY <1>2, <1>9, <2>2
  <2>3. CASE u # w /\ v # w
    <3>1. Held(worker[u]) \cap Held(worker[v]) = {}
      BY DEF ClaimsInv, ClaimsApart
    <3> QED
      BY <1>7, <2>3, <3>1
  <2> QED
    BY <2>1, <2>2, <2>3
<1>11. CurrentTaken'
  <2>1. "idle" \notin Publishing
    BY DEF Publishing
  <2>2. \A v \in Workers : worker[v].pc \in Publishing => Current(worker[v]) \notin worker[v].batch
    BY DEF ClaimsInv, CurrentTaken
  <2> SUFFICES ASSUME NEW v \in Workers, worker'[v].pc \in Publishing
               PROVE  Current(worker'[v]) \notin worker'[v].batch
    BY DEF CurrentTaken
  <2>3. v # w
    BY <1>1, <2>1
  <2>4. worker'[v] = worker[v]
    BY <1>1, <2>3
  <2> QED
    BY <2>2, <2>4
<1>12. ClaimsNew'
  <2> SUFFICES ASSUME NEW v \in Workers, NEW r \in Held(worker'[v]), NEW a \in attempts,
                      r.event = a.event
               PROVE  r.attempt # a.number
    BY <1>6 DEF ClaimsNew
  <2>1. CASE v = w
    <3>1. a.event \in Events /\ a.number \in Nat
      BY DEF Inv, TypeOK
    <3>2. a.number <= outbox[a.event].count
      BY DEF ClaimsInv, AttemptsCounted
    <3>3. r.attempt = outbox[a.event].count + 1
      BY <1>2, <1>4, <2>1
    <3> QED
      BY <1>3, <3>1, <3>2, <3>3
  <2>2. CASE v # w
    <3>1. r \in Held(worker[v])
      BY <1>7, <2>2
    <3> QED
      BY <3>1 DEF ClaimsInv, ClaimsNew
  <2> QED
    BY <2>1, <2>2
<1>13. AttemptsCounted'
  <2> SUFFICES ASSUME NEW a \in attempts PROVE a.number <= outbox'[a.event].count
    BY <1>6 DEF AttemptsCounted
  <2>1. a.event \in Events /\ a.number \in Nat
    BY DEF Inv, TypeOK
  <2>2. a.number <= outbox[a.event].count
    BY DEF ClaimsInv, AttemptsCounted
  <2> QED
    BY <1>3, <1>5, <2>1, <2>2
<1>14. NumbersApart'
  BY <1>6 DEF ClaimsInv, NumbersApart
<1> QED
  BY <1>8, <1>10, <1>11, <1>12, <1>13, <1>14 DEF ClaimsInv

\* How the record of an attempt changes the history and the worker.
LEMMA Recorded ==
  ASSUME Inv, NEW w \in Workers, RecordAttempt(w)
  PROVE  /\ worker[w].pc = "record" /\ worker[w].event \in Events
         /\ attempts' = attempts \cup
              {[event |-> worker[w].event, number |-> worker[w].attempt,
                succeeded |-> worker[w].result = "succeeded"]}
         /\ \A v \in Workers \ {w} : worker'[v] = worker[v]
         /\ worker'[w].batch = worker[w].batch
         /\ worker'[w].pc \in {"idle", "bury", "fail"}
<1>1. worker[w].pc = "record"
  BY DEF RecordAttempt, At
<1>2. worker[w].event \in Events
  BY <1>1, BusyWorker
<1>3. worker[w].result \in {"succeeded", "failed", "rejected"}
  BY <1>1 DEF Inv, RelayInv, WorkersSound, WorkerSound
<1>4. Done(w) \/ Goto(w, "bury") \/ Goto(w, "fail")
  BY <1>3 DEF RecordAttempt
<1>5. /\ \A v \in Workers \ {w} : worker'[v] = worker[v]
      /\ worker'[w].batch = worker[w].batch
      /\ worker'[w].pc \in {"idle", "bury", "fail"}
  BY <1>4, GotoShape, DoneShape DEF Inv, WorkPC
<1> QED
  BY <1>1, <1>2, <1>5 DEF RecordAttempt

LEMMA RecordClaims ==
  ASSUME Inv, ClaimsInv, RowsAdvance, TypeOK', NEW w \in Workers, RecordAttempt(w)
  PROVE  ClaimsInv'
<1> DEFINE c == Current(worker[w])
           new == [event |-> worker[w].event, number |-> worker[w].attempt,
                   succeeded |-> worker[w].result = "succeeded"]
<1>1. /\ attempts' = attempts \cup {new}
      /\ \A v \in Workers \ {w} : worker'[v] = worker[v]
      /\ worker'[w].batch = worker[w].batch
      /\ worker'[w].pc \notin Publishing /\ worker[w].pc \in Publishing
  BY Recorded DEF Publishing
<1>2. c \in Held(worker[w]) /\ c \notin worker[w].batch
      /\ c.event = worker[w].event /\ c.attempt = worker[w].attempt
  BY <1>1 DEF Held, Current, ClaimsInv, CurrentTaken
<1>3. new.event = c.event /\ new.number = c.attempt
  BY <1>2
<1> HIDE DEF c, new
<1>4. Held(worker'[w]) = worker[w].batch
  BY <1>1 DEF Held
<1>5. Held(worker'[w]) \subseteq Held(worker[w])
  BY <1>4 DEF Held
<1>6. \A v \in Workers : Held(worker'[v]) \subseteq Held(worker[v])
  BY <1>1, <1>5
<1>7. \A e \in Events : outbox[e].count \in Nat /\ outbox'[e].count = outbox[e].count
  BY DEF RecordAttempt, Inv, TypeOK, RowType
<1>8. ClaimsCounted'
  <2> SUFFICES ASSUME NEW v \in Workers, NEW r \in Held(worker'[v])
               PROVE  r.attempt <= outbox'[r.event].count
    BY DEF ClaimsCounted
  <2>1. r \in Held(worker[v])
    BY <1>6
  <2>2. r.event \in Events
    BY <2>1, HeldOfEvents
  <2> QED
    BY <1>7, <2>1, <2>2 DEF ClaimsInv, ClaimsCounted
<1>9. ClaimsApart'
  <2> SUFFICES ASSUME NEW u \in Workers, NEW v \in Workers, u # v
               PROVE  Held(worker'[u]) \cap Held(worker'[v]) = {}
    BY DEF ClaimsApart
  <2>1. Held(worker[u]) \cap Held(worker[v]) = {}
    BY DEF ClaimsInv, ClaimsApart
  <2> QED
    BY <1>6, <2>1
<1>10. CurrentTaken'
  <2> SUFFICES ASSUME NEW v \in Workers, worker'[v].pc \in Publishing
               PROVE  Current(worker'[v]) \notin worker'[v].batch
    BY DEF CurrentTaken
  <2>1. worker'[v] = worker[v]
    BY <1>1
  <2>2. worker[v].pc \in Publishing => Current(worker[v]) \notin worker[v].batch
    BY DEF ClaimsInv, CurrentTaken
  <2> QED
    BY <2>1, <2>2
<1>11. \A v \in Workers : \A r \in Held(worker'[v]) : r.event = c.event => r.attempt # c.attempt
  <2> SUFFICES ASSUME NEW v \in Workers, NEW r \in Held(worker'[v]), r.event = c.event,
                      r.attempt = c.attempt
               PROVE  FALSE
    OBVIOUS
  <2>1. r \in Held(worker[v])
    BY <1>6
  <2>2. r \in [event : Events, attempt : Nat] /\ c \in [event : Events, attempt : Nat]
    BY <1>2, <2>1, HeldOfEvents
  <2>3. r = c
    BY <2>2
  <2>4. CASE v = w
    BY <1>2, <1>4, <2>3, <2>4
  <2>5. CASE v # w
    <3>1. Held(worker[v]) \cap Held(worker[w]) = {}
      BY <2>5 DEF ClaimsInv, ClaimsApart
    <3> QED
      BY <1>2, <2>1, <2>3, <3>1
  <2> QED
    BY <2>4, <2>5
<1>12. ClaimsNew'
  <2> SUFFICES ASSUME NEW v \in Workers, NEW r \in Held(worker'[v]), NEW a \in attempts',
                      r.event = a.event
               PROVE  r.attempt # a.number
    BY DEF ClaimsNew
  <2>1. CASE a \in attempts
    <3>1. r \in Held(worker[v])
      BY <1>6
    <3> QED
      BY <2>1, <3>1 DEF ClaimsInv, ClaimsNew
  <2>2. CASE a = new
    BY <1>3, <1>11, <2>2
  <2> QED
    BY <1>1, <2>1, <2>2
<1>13. AttemptsCounted'
  <2> SUFFICES ASSUME NEW a \in attempts' PROVE a.number <= outbox'[a.event].count
    BY DEF AttemptsCounted
  <2>1. CASE a \in attempts
    <3>1. a.event \in Events /\ a.number <= outbox[a.event].count
      BY <2>1 DEF Inv, TypeOK, ClaimsInv, AttemptsCounted
    <3> QED
      BY <1>7, <3>1
  <2>2. CASE a = new
    <3>1. c.event \in Events /\ c.attempt <= outbox[c.event].count
      BY <1>2, HeldOfEvents DEF ClaimsInv, ClaimsCounted
    <3> QED
      BY <1>3, <1>7, <2>2, <3>1
  <2> QED
    BY <1>1, <2>1, <2>2
<1>14. NumbersApart'
  <2>1. \A a \in attempts : a.event = new.event => a.number # new.number
    BY <1>2, <1>3 DEF ClaimsInv, ClaimsNew
  <2>2. \A a, b \in attempts : a.event = b.event /\ a.number = b.number => a = b
    BY DEF ClaimsInv, NumbersApart
  <2> QED
    BY <1>1, <2>1, <2>2 DEF NumbersApart
<1> QED
  BY <1>8, <1>9, <1>10, <1>12, <1>13, <1>14 DEF ClaimsInv

LEMMA NextClaims ==
  ASSUME Inv, ClaimsInv, [Next]_vars
  PROVE  ClaimsInv'
<1>1. RowsAdvance /\ TypeOK'
  BY NextAdvances, StepInv DEF Inv
<1>2. ASSUME NEW e \in Events, BecomeDue(e) \/ \E content \in Contents : Enqueue(e, content)
      PROVE  ClaimsInv'
  <2>1. worker' = worker /\ attempts' = attempts
    BY <1>2 DEF BecomeDue, Enqueue
  <2> QED
    BY <1>1, <2>1, SameWorkersClaims
<1>3. ASSUME NEW w \in Workers, Work(w) \/ Fault(w) \/ CrashWorker(w) PROVE ClaimsInv'
  <2>1. CASE \/ Find(w) \/ Append(w) \/ MarkPublished(w) \/ Fault(w) \/ MarkFailed(w)
             \/ ScheduleRetry(w) \/ CreateDeadLetter(w) \/ CrashWorker(w)
    <3>1. attempts' = attempts
      BY <2>1 DEF Find, Append, MarkPublished, Fault, MarkFailed, ScheduleRetry,
                  CreateDeadLetter, CrashWorker
    <3>2. WorkerKeeps(w)
      BY <2>1, BusyKeeps
    <3> QED
      BY <1>1, <3>1, <3>2, KeepsClaims
  <2>2. CASE Take(w) \/ RecordAttempt(w) \/ \E batch \in SUBSET Events : ClaimBatch(w, batch)
    BY <1>1, <2>2, TakeClaims, RecordClaims, ClaimClaims
  <2> QED
    BY <1>3, <2>1, <2>2 DEF Work
<1>4. ASSUME NEW h \in Handlers, Handle(h) \/ StopHandler(h) PROVE ClaimsInv'
  <2>1. worker' = worker /\ attempts' = attempts
    BY <1>4 DEF Handle, StopHandler, BeginProcessing, Act, MarkProcessed, relay
  <2> QED
    BY <1>1, <2>1, SameWorkersClaims
<1>5. CASE UNCHANGED vars
  <2>1. worker' = worker /\ attempts' = attempts
    BY <1>5 DEF vars, relay
  <2> QED
    BY <1>1, <2>1, SameWorkersClaims
<1> QED
  BY <1>2, <1>3, <1>4, <1>5 DEF Next

-----------------------------------------------------------------------------
(* The attempt that succeeded                                               *)

LEMMA SuccessKept ==
  ASSUME Inv, SuccessInv, RowsAdvance, attempts' = attempts,
         \A v \in Workers : Succeeding(worker'[v]) =>
           Succeeding(worker[v]) /\ worker'[v].event = worker[v].event
  PROVE  SuccessInv'
<1>1. \A v \in Workers : Succeeding(worker[v]) => worker[v].event \in Events
  BY BusyWorker DEF Succeeding
<1>2. \A a \in attempts : a.event \in Events
  BY DEF Inv, TypeOK
<1> HIDE DEF Succeeding
<1>3. SuccessApart'
  BY DEF SuccessInv, SuccessApart
<1>4. SuccessPublished'
  BY <1>1, <1>2 DEF SuccessInv, SuccessPublished, RowsAdvance
<1>5. SuccessNew'
  BY DEF SuccessInv, SuccessNew
<1>6. SuccessOnce'
  BY DEF SuccessInv, SuccessOnce
<1> QED
  BY <1>3, <1>4, <1>5, <1>6 DEF SuccessInv

LEMMA SameWorkersSuccess ==
  ASSUME Inv, SuccessInv, RowsAdvance, attempts' = attempts, worker' = worker
  PROVE  SuccessInv'
  BY SuccessKept

LEMMA UnsuccessfulSteps ==
  ASSUME Inv, SuccessInv, RowsAdvance, attempts' = attempts, NEW w \in Workers,
         \A v \in Workers \ {w} : worker'[v] = worker[v],
         ~Succeeding(worker'[w])
  PROVE  SuccessInv'
<1>1. \A v \in Workers : Succeeding(worker'[v]) =>
        Succeeding(worker[v]) /\ worker'[v].event = worker[v].event
  OBVIOUS
<1> QED
  BY <1>1, SuccessKept

\* Only a row in processing is published, and no attempt of it has succeeded yet.
LEMMA PublishSuccess ==
  ASSUME Inv, SuccessInv, RowsAdvance, NEW w \in Workers, MarkPublished(w),
         MayPublish(worker[w].event)
  PROVE  SuccessInv'
<1> DEFINE e == worker[w].event
<1>1. e \in Events
  BY BusyWorker DEF MarkPublished, At
<1>2. outbox[e].status = "processing" /\ outbox'[e].status = "published" /\ attempts' = attempts
  BY <1>1 DEF MarkPublished, MayPublish, Inv, TypeOK, RowType
<1>3. /\ worker'[w].event = e /\ \A v \in Workers \ {w} : worker'[v] = worker[v]
      /\ Succeeding(worker'[w])
  BY ConcludeShape DEF MarkPublished, Inv, Succeeding
<1>4. \A v \in Workers : Succeeding(worker[v]) => worker[v].event # e
  BY <1>2 DEF SuccessInv, SuccessPublished
<1>5. \A a \in attempts : a.succeeded => a.event # e
  BY <1>2 DEF SuccessInv, SuccessPublished
<1>6. \A v \in Workers : Succeeding(worker[v]) => worker[v].event \in Events
  BY BusyWorker DEF Succeeding
<1>7. \A a \in attempts : a.event \in Events
  BY DEF Inv, TypeOK
<1>8. \A x \in Events : outbox[x].status = "published" => outbox'[x].status = "published"
  BY DEF RowsAdvance
<1> HIDE DEF e
<1>9. SuccessApart'
  BY <1>3, <1>4 DEF SuccessInv, SuccessApart
<1>10. SuccessPublished'
  <2>1. ASSUME NEW v \in Workers, Succeeding(worker'[v])
        PROVE  outbox'[worker'[v].event].status = "published"
    <3>1. CASE v = w
      BY <1>2, <1>3, <3>1
    <3>2. CASE v # w
      <4>1. worker'[v] = worker[v]
        BY <1>3, <3>2
      <4> QED
        BY <1>6, <1>8, <2>1, <4>1 DEF SuccessInv, SuccessPublished
    <3> QED
      BY <3>1, <3>2
  <2>2. ASSUME NEW a \in attempts, a.succeeded
        PROVE  outbox'[a.event].status = "published"
    BY <1>7, <1>8, <2>2 DEF SuccessInv, SuccessPublished
  <2> QED
    BY <1>2, <2>1, <2>2 DEF SuccessPublished
<1>11. SuccessNew'
  BY <1>2, <1>3, <1>5 DEF SuccessInv, SuccessNew
<1>12. SuccessOnce'
  BY <1>2 DEF SuccessInv, SuccessOnce
<1> QED
  BY <1>9, <1>10, <1>11, <1>12 DEF SuccessInv

LEMMA RecordSuccess ==
  ASSUME Inv, SuccessInv, RowsAdvance, NEW w \in Workers, RecordAttempt(w)
  PROVE  SuccessInv'
<1> DEFINE e == worker[w].event
           new == [event |-> e, number |-> worker[w].attempt,
                   succeeded |-> worker[w].result = "succeeded"]
<1>1. /\ worker[w].pc = "record" /\ e \in Events /\ attempts' = attempts \cup {new}
      /\ \A v \in Workers \ {w} : worker'[v] = worker[v]
      /\ ~Succeeding(worker'[w])
  BY Recorded DEF Succeeding
<1>2. new.event = e /\ (new.succeeded => Succeeding(worker[w]))
  BY <1>1 DEF Succeeding
<1>3. \A v \in Workers : Succeeding(worker[v]) => worker[v].event \in Events
  BY BusyWorker DEF Succeeding
<1>4. \A a \in attempts : a.event \in Events
  BY DEF Inv, TypeOK
<1>5. \A x \in Events : outbox[x].status = "published" => outbox'[x].status = "published"
  BY DEF RowsAdvance
<1>6. \A v \in Workers : Succeeding(worker'[v]) =>
        v # w /\ Succeeding(worker[v]) /\ worker'[v].event = worker[v].event
  BY <1>1
<1> HIDE DEF new
<1>7. SuccessApart'
  BY <1>6 DEF SuccessInv, SuccessApart
<1>8. SuccessPublished'
  <2>1. ASSUME NEW v \in Workers, Succeeding(worker'[v])
        PROVE  outbox'[worker'[v].event].status = "published"
    BY <1>3, <1>5, <1>6, <2>1 DEF SuccessInv, SuccessPublished
  <2>2. ASSUME NEW a \in attempts, a.succeeded
        PROVE  outbox'[a.event].status = "published"
    BY <1>4, <1>5, <2>2 DEF SuccessInv, SuccessPublished
  <2>3. new.succeeded => outbox'[new.event].status = "published"
    BY <1>1, <1>2, <1>5 DEF SuccessInv, SuccessPublished
  <2> QED
    BY <1>1, <2>1, <2>2, <2>3 DEF SuccessPublished
<1>9. SuccessNew'
  <2> SUFFICES ASSUME NEW v \in Workers, NEW a \in attempts', Succeeding(worker'[v]), a.succeeded
               PROVE  a.event # worker'[v].event
    BY DEF SuccessNew
  <2>1. CASE a \in attempts
    BY <1>6, <2>1 DEF SuccessInv, SuccessNew
  <2>2. CASE a = new
    BY <1>2, <1>6, <2>2 DEF SuccessInv, SuccessApart
  <2> QED
    BY <1>1, <2>1, <2>2
<1>10. SuccessOnce'
  <2>1. \A a \in attempts : a.succeeded /\ new.succeeded => a.event # new.event
    BY <1>2 DEF SuccessInv, SuccessNew
  <2>2. \A a, b \in attempts : a.event = b.event /\ a.succeeded /\ b.succeeded => a = b
    BY DEF SuccessInv, SuccessOnce
  <2> QED
    BY <1>1, <2>1, <2>2 DEF SuccessOnce
<1> QED
  BY <1>7, <1>8, <1>9, <1>10 DEF SuccessInv

LEMMA NextSuccess ==
  ASSUME Inv, SuccessInv, [Next]_vars
  PROVE  SuccessInv'
<1>1. RowsAdvance
  BY NextAdvances
<1>2. ASSUME NEW e \in Events, BecomeDue(e) \/ \E content \in Contents : Enqueue(e, content)
      PROVE  SuccessInv'
  <2>1. worker' = worker /\ attempts' = attempts
    BY <1>2 DEF BecomeDue, Enqueue
  <2> QED
    BY <1>1, <2>1, SameWorkersSuccess
<1>3. ASSUME NEW w \in Workers, Work(w) \/ Fault(w) \/ CrashWorker(w) PROVE SuccessInv'
  <2>1. CASE Find(w) \/ Append(w) \/ Fault(w) \/ (MarkPublished(w) /\ ~MayPublish(worker[w].event))
    <3>1. attempts' = attempts
      BY <2>1 DEF Find, Append, Fault, MarkPublished
    <3>2. \/ Goto(w, "insert") \/ Goto(w, "mark")
          \/ Conclude(w, "rejected") \/ Conclude(w, "failed")
      BY <2>1 DEF Find, Append, Fault, MarkPublished
    <3>3. ~Succeeding(worker'[w]) /\ \A v \in Workers \ {w} : worker'[v] = worker[v]
      BY <3>2, GotoShape, ConcludeShape DEF Inv, WorkPC, Succeeding
    <3> QED
      BY <1>1, <3>1, <3>3, UnsuccessfulSteps
  <2>2. CASE MarkFailed(w) \/ ScheduleRetry(w) \/ CreateDeadLetter(w)
    <3>1. attempts' = attempts
      BY <2>2 DEF MarkFailed, ScheduleRetry, CreateDeadLetter
    <3>2. Goto(w, "retry") \/ Goto(w, "bury") \/ Done(w)
      BY <2>2 DEF MarkFailed, ScheduleRetry, CreateDeadLetter
    <3>3. ~Succeeding(worker'[w]) /\ \A v \in Workers \ {w} : worker'[v] = worker[v]
      BY <3>2, GotoShape, DoneShape DEF Inv, WorkPC, Succeeding
    <3> QED
      BY <1>1, <3>1, <3>3, UnsuccessfulSteps
  <2>3. CASE Take(w) \/ CrashWorker(w) \/ \E batch \in SUBSET Events : ClaimBatch(w, batch)
    <3>1. attempts' = attempts
      BY <2>3 DEF Take, CrashWorker, ClaimBatch
    <3>2. /\ worker'[w].pc # "record"
          /\ \A v \in Workers \ {w} : worker'[v] = worker[v]
      <4>1. CASE Take(w)
        BY <4>1 DEF Take, Inv, TypeOK
      <4>2. CASE CrashWorker(w)
        BY <4>2 DEF CrashWorker, NoWork, Inv, TypeOK
      <4>3. ASSUME NEW batch \in SUBSET Events, ClaimBatch(w, batch)
            PROVE  /\ worker'[w].pc # "record"
                   /\ \A v \in Workers \ {w} : worker'[v] = worker[v]
        BY <4>3 DEF ClaimBatch, At, Inv, TypeOK, WorkType
      <4> QED
        BY <2>3, <4>1, <4>2, <4>3
    <3> QED
      BY <1>1, <3>1, <3>2, UnsuccessfulSteps DEF Succeeding
  <2> QED
    BY <1>1, <1>3, <2>1, <2>2, <2>3, PublishSuccess, RecordSuccess DEF Work
<1>4. ASSUME NEW h \in Handlers, Handle(h) \/ StopHandler(h) PROVE SuccessInv'
  <2>1. worker' = worker /\ attempts' = attempts
    BY <1>4 DEF Handle, StopHandler, BeginProcessing, Act, MarkProcessed, relay
  <2> QED
    BY <1>1, <2>1, SameWorkersSuccess
<1>5. CASE UNCHANGED vars
  <2>1. worker' = worker /\ attempts' = attempts
    BY <1>5 DEF vars, relay
  <2> QED
    BY <1>1, <2>1, SameWorkersSuccess
<1> QED
  BY <1>2, <1>3, <1>4, <1>5 DEF Next

-----------------------------------------------------------------------------

LEMMA InitHistory == Init => HistoryInv
<1> SUFFICES ASSUME Init PROVE HistoryInv
  OBVIOUS
<1>1. attempts = {} /\ \A w \in Workers : worker[w] = NoWork
  BY DEF Init
<1>2. \A w \in Workers : Held(worker[w]) = {} /\ ~Succeeding(worker[w]) /\ worker[w].pc = "idle"
  BY <1>1 DEF Held, Succeeding, NoWork, Publishing
<1>3. ClaimsInv
  BY <1>1, <1>2 DEF ClaimsInv, ClaimsCounted, ClaimsApart, CurrentTaken, ClaimsNew,
                    AttemptsCounted, NumbersApart, Publishing
<1>4. SuccessInv
  BY <1>1, <1>2 DEF SuccessInv, SuccessApart, SuccessPublished, SuccessNew, SuccessOnce
<1>5. LettersTold
  BY DEF Init, LettersTold, NoRow
<1> QED
  BY <1>3, <1>4, <1>5 DEF HistoryInv

LEMMA NextHistory ==
  ASSUME Inv, HistoryInv, [Next]_vars
  PROVE  HistoryInv'
<1>1. ClaimsInv' /\ SuccessInv'
  BY NextClaims, NextSuccess DEF HistoryInv
<1>2. LettersTold'
  <2> SUFFICES ASSUME NEW e \in Events, outbox'[e].status = "dead_lettered"
               PROVE  letters'[e] > 0
    BY DEF LettersTold
  <2>1. letters[e] \in Nat /\ letters'[e] \in Nat
    BY StepInv DEF Inv, TypeOK
  <2>2. letters[e] <= letters'[e] /\ (outbox[e].status = "dead_lettered" \/ letters'[e] > 0)
    BY NextAdvances DEF RowsAdvance
  <2>3. outbox[e].status = "dead_lettered" => letters[e] > 0
    BY DEF HistoryInv, LettersTold
  <2> QED
    BY <2>1, <2>2, <2>3
<1> QED
  BY <1>1, <1>2 DEF HistoryInv

\* The history of attempts tells the truth, whatever workers race, fail or die: no
\* two rows share an attempt number of an event, at most one of them succeeded and
\* its event is published, and a dead-lettered event has a letter
\* (EventDeliveryAttemptRepository.record, OutboxRepository, DeadLetterRepository).
THEOREM HistoryTrue == Spec => []HistoryIsTrue
<1>1. Inv /\ HistoryInv /\ [Next]_vars => HistoryInv'
  BY NextHistory
<1>2. HistoryInv => HistoryIsTrue
  BY DEF HistoryInv, ClaimsInv, NumbersApart, SuccessInv, SuccessPublished, SuccessOnce,
         LettersTold, HistoryIsTrue
<1> QED
  BY <1>1, <1>2, InitHistory, AlwaysInv, PTL DEF Spec

-----------------------------------------------------------------------------
(* A claim has no lease.                                                    *)

\* The row e is in the batch of x, or the one it is busy with.
Carries(x, e) == (\E row \in x.batch : row.event = e) \/ (x.pc # "idle" /\ x.event = e)

\* A claimed row whose worker is gone.
Abandoned(e) == outbox[e].status = "processing" /\ \A w \in Workers : ~Carries(worker[w], e)

\* Nobody takes the row up again, and it is given no further attempt.
LeftAlone(e) == Abandoned(e)' /\ outbox'[e].count = outbox[e].count

LEMMA CarriesKept ==
  ASSUME NEW w \in Workers, NEW e \in Events, Abandoned(e), outbox'[e] = outbox[e],
         \A v \in Workers \ {w} : worker'[v] = worker[v],
         ~Carries(worker'[w], e)
  PROVE  LeftAlone(e)
<1>1. \A v \in Workers : ~Carries(worker'[v], e)
  BY DEF Abandoned
<1> QED
  BY <1>1 DEF Abandoned, LeftAlone

\* A worker that does not carry a row writes no other row than its own, and goes
\* on without it.
LEMMA BusyAbandons ==
  ASSUME Inv, NEW w \in Workers, NEW e \in Events, Abandoned(e),
         \/ Find(w) \/ Append(w) \/ MarkPublished(w) \/ Fault(w) \/ RecordAttempt(w)
         \/ MarkFailed(w) \/ ScheduleRetry(w) \/ CreateDeadLetter(w)
  PROVE  LeftAlone(e)
<1> DEFINE x == worker[w].event
<1>1. worker[w].pc # "idle"
  BY DEF Find, Append, MarkPublished, Fault, RecordAttempt, MarkFailed, ScheduleRetry,
         CreateDeadLetter, At
<1>2. x \in Events /\ x # e
  BY <1>1, BusyWorker DEF Abandoned, Carries
<1>3. outbox'[e] = outbox[e]
  BY <1>2 DEF Find, Append, MarkPublished, Fault, RecordAttempt, MarkFailed, ScheduleRetry,
              CreateDeadLetter, Inv, TypeOK
<1>4. \/ \E pc \in WorkPC : Goto(w, pc)
      \/ \E result \in {"succeeded", "failed", "rejected"} : Conclude(w, result)
      \/ Done(w)
  <2>1. RecordAttempt(w) => worker[w].result \in {"succeeded", "failed", "rejected"}
    BY DEF RecordAttempt, At, Inv, RelayInv, WorkersSound, WorkerSound
  <2>2. {"insert", "mark", "fail", "retry", "bury"} \subseteq WorkPC
    BY DEF WorkPC
  <2> QED
    BY <2>1, <2>2 DEF Find, Append, MarkPublished, Fault, RecordAttempt, MarkFailed,
                      ScheduleRetry, CreateDeadLetter
<1>5. /\ \A v \in Workers \ {w} : worker'[v] = worker[v]
      /\ worker'[w].batch = worker[w].batch
      /\ worker'[w].pc = "idle" \/ worker'[w].event = x
  BY <1>4, GotoShape, ConcludeShape, DoneShape DEF Inv
<1>6. ~Carries(worker'[w], e)
  BY <1>2, <1>5 DEF Abandoned, Carries
<1> QED
  BY <1>3, <1>5, <1>6, CarriesKept

LEMMA BatchAbandons ==
  ASSUME Inv, NEW w \in Workers, NEW e \in Events, Abandoned(e),
         Take(w) \/ CrashWorker(w) \/ \E batch \in SUBSET Events : ClaimBatch(w, batch)
  PROVE  LeftAlone(e)
<1>1. CASE Take(w)
  <2>1. PICK row \in worker[w].batch :
          worker' = [worker EXCEPT ![w] =
            [pc |-> "find", batch |-> @.batch \ {row}, event |-> row.event,
             attempt |-> row.attempt, result |-> Null]]
    BY <1>1 DEF Take
  <2>2. /\ worker'[w].batch \subseteq worker[w].batch /\ worker'[w].event = row.event
        /\ \A v \in Workers \ {w} : worker'[v] = worker[v]
    BY <2>1 DEF Inv, TypeOK
  <2>3. ~Carries(worker'[w], e)
    BY <2>2 DEF Abandoned, Carries
  <2> QED
    BY <1>1, <2>2, <2>3, CarriesKept DEF Take
<1>2. CASE CrashWorker(w)
  <2>1. worker'[w] = NoWork /\ \A v \in Workers \ {w} : worker'[v] = worker[v]
    BY <1>2 DEF CrashWorker, Inv, TypeOK
  <2>2. ~Carries(worker'[w], e)
    BY <2>1 DEF Carries, NoWork
  <2> QED
    BY <1>2, <2>1, <2>2, CarriesKept DEF CrashWorker
<1>3. ASSUME NEW batch \in SUBSET Events, ClaimBatch(w, batch)
      PROVE  LeftAlone(e)
  <2>1. e \notin batch
    BY <1>3, ClaimedRows DEF Abandoned
  <2>2. outbox'[e] = outbox[e]
    BY <1>3, <2>1, ClaimedRows
  <2>3. /\ worker'[w].batch = {[event |-> x, attempt |-> outbox[x].count + 1] : x \in batch}
        /\ worker'[w].pc = "idle"
        /\ \A v \in Workers \ {w} : worker'[v] = worker[v]
    <3> DEFINE rows == {[event |-> x, attempt |-> outbox[x].count + 1] : x \in batch}
    <3>1. worker' = [worker EXCEPT ![w].batch = rows] /\ worker[w].pc = "idle"
      BY <1>3 DEF ClaimBatch, At
    <3> HIDE DEF rows
    <3>2. worker'[w].batch = rows /\ worker'[w].pc = "idle"
          /\ \A v \in Workers \ {w} : worker'[v] = worker[v]
      BY <3>1 DEF Inv, TypeOK, WorkType
    <3> QED
      BY <3>2 DEF rows
  <2>4. ~Carries(worker'[w], e)
    BY <2>1, <2>3 DEF Carries
  <2> QED
    BY <2>2, <2>3, <2>4, CarriesKept
<1> QED
  BY <1>1, <1>2, <1>3

LEMMA NextAbandons ==
  ASSUME Inv, NEW e \in Events, Abandoned(e), [Next]_vars
  PROVE  LeftAlone(e)
<1>1. ASSUME worker' = worker, outbox'[e].status = outbox[e].status,
             outbox'[e].count = outbox[e].count
      PROVE  LeftAlone(e)
  BY <1>1 DEF Abandoned, LeftAlone
<1>2. ASSUME NEW x \in Events, NEW content \in Contents, Enqueue(x, content)
      PROVE  LeftAlone(e)
  <2>1. x # e /\ worker' = worker
    BY <1>2 DEF Enqueue, Abandoned
  <2>2. outbox'[e] = outbox[e]
    BY <1>2, <2>1 DEF Enqueue, Inv, TypeOK
  <2> QED
    BY <1>1, <2>1, <2>2
<1>3. ASSUME NEW x \in Events, BecomeDue(x)
      PROVE  LeftAlone(e)
  <2>1. outbox[e] \in RowType
    BY DEF Inv, TypeOK
  <2>2. outbox'[e].status = outbox[e].status /\ outbox'[e].count = outbox[e].count
    BY <1>3, <2>1 DEF BecomeDue, Inv, TypeOK, RowType
  <2> QED
    BY <1>1, <1>3, <2>2 DEF BecomeDue
<1>4. ASSUME NEW w \in Workers, Work(w) \/ Fault(w) \/ CrashWorker(w)
      PROVE  LeftAlone(e)
  BY <1>4, BusyAbandons, BatchAbandons DEF Work
<1>5. ASSUME NEW h \in Handlers, Handle(h) \/ StopHandler(h)
      PROVE  LeftAlone(e)
  <2>1. worker' = worker /\ outbox' = outbox
    BY <1>5 DEF Handle, StopHandler, BeginProcessing, Act, MarkProcessed, relay
  <2> QED
    BY <1>1, <2>1
<1>6. CASE UNCHANGED vars
  BY <1>1, <1>6 DEF vars, relay
<1> QED
  BY <1>2, <1>3, <1>4, <1>5, <1>6 DEF Next

\* A claim has no lease: a row in processing that no worker carries, since the one
\* that had claimed it died, stays so for ever and is given no further attempt,
\* however many workers are left (claimBatch takes pending and failed rows only).
THEOREM AbandonedForGood ==
  Spec => [][\A e \in Events : Abandoned(e) => LeftAlone(e)]_vars
<1>1. Inv /\ [Next]_vars =>
        [\A e \in Events : Abandoned(e) => LeftAlone(e)]_vars
  BY NextAbandons
<1> QED
  BY <1>1, AlwaysInv, PTL DEF Spec
=============================================================================
