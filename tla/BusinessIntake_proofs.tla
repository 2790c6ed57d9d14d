------------------------ MODULE BusinessIntake_proofs ------------------------
(* Theorems about BusinessIntake, and with it DataAcquisition, for every    *)
(* value of the constants.                                                  *)
EXTENDS BusinessIntake, FiniteSetTheorems, TLAPS

-----------------------------------------------------------------------------
(* The inductive invariant.                                                 *)

\* A run that has been processed, and can be published some day.
Processed(r) ==
    run[r].state \in {"validated", "quarantined", "published"} /\ run[r].batch \in Batches

RunSound(r) == run[r].state \in {"validated", "quarantined", "published"} => Processed(r)

\* What a call may rely on at each of its steps.
TaskSound(x) ==
    /\ x.pc \in {"process", "failing"} => x.run \in Runs
    /\ x.pc = "process" => x.batch \in Batches
    /\ x.pc = "create" => x.run \in Runs /\ Processed(x.run)
    /\ x.pc \in {"publish", "deliver", "reject"} =>
         x.package \in Packages /\ package[x.package].status # "none"

PackageSound(p) ==
    /\ package[p].status = "none" => package[p].run = Null /\ ~package[p].issued
    /\ package[p].status # "none" => package[p].run \in Runs /\ Processed(package[p].run)
    /\ package[p].status = "ready" => ~package[p].issued
    /\ package[p].status = "published" => package[p].issued

\* The published runs and the packages that were issued correspond one to one.
IssuedSound ==
    /\ \A p \in Packages : package[p].issued => run[package[p].run].state = "published"
    /\ \A p, q \in Packages :
         package[p].issued /\ package[q].issued /\ package[p].run = package[q].run => p = q
    /\ \A r \in Runs : run[r].state = "published" =>
         \E p \in Packages : package[p].run = r /\ package[p].issued

\* A delivery leads to one run.
ReceiptSound ==
    \A k \in Keys, r, s \in Runs : <<k, r>> \in receipts /\ <<k, s>> \in receipts => r = s

\* A run is booked, once, when its package was delivered, and that was issued.
BookedSound ==
    /\ \A p \in Packages : Delivered(p) => package[p].issued
    /\ \A r \in Runs :
         /\ booked[r] \in {0, 1}
         /\ booked[r] = 1 <=> \E p \in Packages : package[p].run = r /\ Delivered(p)

Inv ==
    /\ TypeOK
    /\ \A t \in Tasks : TaskSound(task[t])
    /\ \A p \in Packages : PackageSound(p)
    /\ \A r \in Runs : RunSound(r)
    /\ IssuedSound
    /\ ReceiptSound
    /\ BookedSound

LEMMA InitInv == Init => Inv
<1> SUFFICES ASSUME Init PROVE Inv
  OBVIOUS
<1> USE DEF Init, AcquisitionInit, NoRun, NoPackage, NoTask
<1>1. TypeOK
  BY StockAssumption DEF TypeOK, RunStates
<1>2. (\A t \in Tasks : TaskSound(task[t])) /\ (\A p \in Packages : PackageSound(p))
  BY DEF TaskSound, PackageSound
<1>3. (\A r \in Runs : RunSound(r)) /\ IssuedSound /\ ReceiptSound /\ BookedSound
  BY DEF RunSound, IssuedSound, ReceiptSound, BookedSound, Delivered
<1> QED
  BY <1>1, <1>2, <1>3 DEF Inv

-----------------------------------------------------------------------------
(* How the record of a call changes.                                        *)

TaskType ==
    [pc : {"idle", "process", "failing", "create", "publish", "deliver", "reject"},
     run : Runs \cup {Null}, key : Keys \cup {Null}, batch : Batches \cup {Null},
     package : Packages \cup {Null}]

\* Runs stay processed, with the batch they have, and packages keep their run.
Grows ==
    /\ \A r \in Runs : Processed(r) => Processed(r)'
    /\ \A p \in Packages : package[p].status # "none" => package'[p].status # "none"

\* One call takes a step.
Steps(t, x) == task' = [task EXCEPT ![t] = x] /\ x \in TaskType /\ TaskSound(x)'

LEMMA TaskSteps ==
  ASSUME Inv, NEW t \in Tasks, NEW x, Steps(t, x), Grows
  PROVE  /\ task' \in [Tasks -> TaskType]
         /\ \A u \in Tasks : TaskSound(task[u])'
<1>1. task \in [Tasks -> TaskType] /\ \A u \in Tasks : TaskSound(task[u])
  BY DEF Inv, TypeOK, TaskType
<1>2. task' \in [Tasks -> TaskType]
  BY <1>1 DEF Steps
<1>3. ASSUME NEW u \in Tasks PROVE TaskSound(task[u])'
  <2>1. CASE u = t
    <3>1. task'[u] = x
      BY <1>1, <2>1 DEF Steps
    <3> QED
      BY <3>1 DEF Steps, TaskSound
  <2>2. CASE u # t
    <3>1. task'[u] = task[u]
      BY <1>1, <2>2 DEF Steps
    <3>2. TaskSound(task[u])
      BY <1>1
    <3> QED
      BY <3>1, <3>2 DEF TaskSound, Grows
  <2> QED
    BY <2>1, <2>2
<1> QED
  BY <1>2, <1>3

LEMMA ReturnSteps ==
  ASSUME NEW t \in Tasks, Return(t)
  PROVE  Steps(t, NoTask)
  BY DEF Return, Steps, NoTask, TaskType, TaskSound

LEMMA NothingMoves ==
  ASSUME UNCHANGED acquisition
  PROVE  Grows
  BY DEF acquisition, Grows, Processed

\* A step that changes no row.
LEMMA TaskStep ==
  ASSUME Inv, NEW t \in Tasks, NEW x, Steps(t, x), UNCHANGED <<acquisition, operations>>,
         crashed' \in BOOLEAN
  PROVE  Inv'
<1>1. /\ task' \in [Tasks -> TaskType]
      /\ \A u \in Tasks : TaskSound(task[u])'
  BY NothingMoves, TaskSteps
<1>2. TypeOK'
  BY <1>1 DEF Inv, TypeOK, TaskType, acquisition, operations
<1>3. IssuedSound' /\ ReceiptSound' /\ BookedSound'
  BY DEF Inv, IssuedSound, ReceiptSound, BookedSound, Delivered, acquisition, operations
<1>4. (\A p \in Packages : PackageSound(p)') /\ \A r \in Runs : RunSound(r)'
  BY DEF Inv, PackageSound, RunSound, Processed, acquisition
<1> QED
  BY <1>1, <1>2, <1>3, <1>4 DEF Inv

\* A step that changes one run: it does not unmake what was processed, and
\* publishes nothing.
RunStep(r, row) ==
    /\ run' = [run EXCEPT ![r] = row]
    /\ row \in [state : RunStates, batch : Batches \cup {Null}]
    /\ Processed(r) =>
         row.state \in {"validated", "quarantined", "published"} /\ row.batch = run[r].batch
    /\ row.state \in {"validated", "quarantined"} => row.batch \in Batches
    /\ row.state = "published" <=> run[r].state = "published"

LEMMA RunMoves ==
  ASSUME Inv, NEW r \in Runs, NEW row, RunStep(r, row), UNCHANGED package
  PROVE  /\ run' \in [Runs -> [state : RunStates, batch : Batches \cup {Null}]]
         /\ Grows
         /\ \A p \in Packages : PackageSound(p)'
         /\ \A s \in Runs : RunSound(s)'
         /\ IssuedSound'
<1>1. /\ run \in [Runs -> [state : RunStates, batch : Batches \cup {Null}]]
      /\ \A s \in Runs : RunSound(s)
  BY DEF Inv, TypeOK
<1>2. run' \in [Runs -> [state : RunStates, batch : Batches \cup {Null}]]
  BY <1>1 DEF RunStep
<1>3. \A s \in Runs : /\ run'[s].state = "published" <=> run[s].state = "published"
                      /\ Processed(s) => Processed(s)'
                      /\ RunSound(s)'
  BY <1>1 DEF RunStep, RunSound, Processed
<1>4. Grows
  BY <1>3 DEF Grows
<1>5. \A p \in Packages : PackageSound(p)'
  BY <1>3 DEF Inv, PackageSound
<1>6. IssuedSound'
  <2>1. \A p \in Packages : package[p].issued => package[p].run \in Runs
    BY DEF Inv, PackageSound
  <2> QED
    BY <1>3, <2>1 DEF Inv, IssuedSound
<1> QED
  BY <1>2, <1>3, <1>4, <1>5, <1>6

LEMMA RunStepInv ==
  ASSUME Inv, NEW r \in Runs, NEW row, RunStep(r, row), UNCHANGED <<package, operations>>,
         receipts' \in SUBSET (Keys \X Runs), ReceiptSound', UNCHANGED crashed,
         UNCHANGED task \/ \E t \in Tasks : \E x : Steps(t, x)
  PROVE  Inv'
<1>1. /\ run' \in [Runs -> [state : RunStates, batch : Batches \cup {Null}]]
      /\ Grows
      /\ \A p \in Packages : PackageSound(p)'
      /\ \A s \in Runs : RunSound(s)'
      /\ IssuedSound'
  BY RunMoves
<1>2. /\ task' \in [Tasks -> TaskType]
      /\ \A u \in Tasks : TaskSound(task[u])'
  <2>1. CASE UNCHANGED task
    BY <1>1, <2>1 DEF Inv, TypeOK, TaskType, TaskSound, Grows
  <2>2. CASE \E t \in Tasks : \E x : Steps(t, x)
    BY <1>1, <2>2, TaskSteps
  <2> QED
    BY <2>1, <2>2
<1>3. TypeOK'
  BY <1>1, <1>2 DEF Inv, TypeOK, TaskType, operations
<1>4. BookedSound'
  BY DEF Inv, BookedSound, Delivered, operations
<1> QED
  BY <1>1, <1>2, <1>3, <1>4 DEF Inv

-----------------------------------------------------------------------------
(* Collection runs.                                                         *)

LEMMA RowKept ==
  ASSUME Inv, NEW r \in Runs
  PROVE  run[r] \in [state : RunStates, batch : Batches \cup {Null}]
  BY DEF Inv, TypeOK

LEMMA StartRunInv ==
  ASSUME Inv, NEW t \in Tasks, NEW k \in Keys \cup {Null}, NEW b \in Batches,
         StartRun(t, k, b), UNCHANGED operations
  PROVE  Inv'
<1>1. NewRun \in Runs /\ run[NewRun].state = "none"
  <2>1. NewRun \in FreshRuns
    BY DEF StartRun, NewRun
  <2> QED
    BY <2>1 DEF FreshRuns
<1>2. PICK r \in Runs : r = NewRun
  BY <1>1
<1>3. PICK row : row = [run[r] EXCEPT !.state = "collecting"]
  OBVIOUS
<1>4. RunStep(r, row)
  BY <1>1, <1>2, <1>3, RowKept DEF StartRun, Transition, RunStep, Processed, RunStates
<1>5. PICK x : x = [NoTask EXCEPT !.pc = "process", !.run = r, !.key = k, !.batch = b]
  OBVIOUS
<1>6. Steps(t, x)
  BY <1>2, <1>5 DEF StartRun, Begin, Steps, NoTask, TaskType, TaskSound
<1>7. receipts' \in SUBSET (Keys \X Runs) /\ ReceiptSound' /\ UNCHANGED <<package, crashed>>
  BY DEF StartRun, Inv, TypeOK, ReceiptSound
<1> QED
  BY <1>4, <1>6, <1>7, RunStepInv

LEMMA ProcessRunInv ==
  ASSUME Inv, NEW t \in Tasks, ProcessRun(t), UNCHANGED operations
  PROVE  Inv'
<1> DEFINE b == task[t].batch
<1>1. /\ task[t] \in TaskType /\ TaskSound(task[t]) /\ task[t].pc = "process"
  BY DEF ProcessRun, At, Inv, TypeOK, TaskType
<1>2. PICK r \in Runs : r = task[t].run
  BY <1>1 DEF TaskSound
<1>3. b \in Batches /\ run[r].state = "collecting"
  BY <1>1, <1>2 DEF TaskSound, ProcessRun, Processable, Admits, MayBecome
<1>4. PICK row : row = [state |-> IF b.invalid = 0 THEN "validated" ELSE "quarantined",
                        batch |-> b]
  OBVIOUS
<1>5. RunStep(r, row)
  <2>1. run' = [run EXCEPT ![r] = row]
    BY <1>2, <1>4 DEF ProcessRun
  <2> QED
    BY <1>3, <1>4, <2>1 DEF RunStep, Processed, RunStates
<1>6. Steps(t, NoTask)
  BY ReturnSteps DEF ProcessRun
<1>7. receipts' \in SUBSET (Keys \X Runs) /\ ReceiptSound'
  <2>1. CASE task[t].key = Null
    BY <2>1 DEF ProcessRun, Inv, TypeOK, ReceiptSound
  <2>2. CASE task[t].key # Null
    <3>1. task[t].key \in Keys /\ KeyFree(task[t].key)
      BY <1>1, <2>2 DEF TaskType, ProcessRun, Processable
    <3>2. receipts' = receipts \cup {<<task[t].key, r>>}
      BY <1>2, <2>2 DEF ProcessRun
    <3>3. receipts' \in SUBSET (Keys \X Runs)
      BY <3>1, <3>2 DEF Inv, TypeOK
    <3>4. ReceiptSound'
      BY <3>1, <3>2 DEF Inv, ReceiptSound, KeyFree
    <3> QED
      BY <3>3, <3>4
  <2> QED
    BY <2>1, <2>2
<1>8. UNCHANGED <<package, crashed>>
  BY DEF ProcessRun
<1> QED
  BY <1>5, <1>6, <1>7, <1>8, RunStepInv

\* The other transitions of a run, by its call or by a reviewer.
LEMMA TransitionInv ==
  ASSUME Inv, NEW r \in Runs, NEW next \in {"failed", "validated", "quarantined", "cancelled"},
         Admits(r, next), Transition(r, next),
         UNCHANGED <<receipts, package, crashed, operations>>,
         UNCHANGED task \/ \E t \in Tasks : Return(t)
  PROVE  Inv'
<1>1. PICK row : row = [run[r] EXCEPT !.state = next]
  OBVIOUS
<1>2. RunStep(r, row)
  <2>1. run' = [run EXCEPT ![r] = row]
    BY <1>1 DEF Transition
  <2>2. row.state = next /\ row.batch = run[r].batch
        /\ row \in [state : RunStates, batch : Batches \cup {Null}]
    BY <1>1, RowKept DEF RunStates
  <2>3. RunSound(r)
    BY DEF Inv
  <2>4. CASE next \in {"failed", "cancelled"}
    <3>1. run[r].state = "collecting"
      BY <2>4 DEF Admits, MayBecome
    <3> QED
      BY <2>1, <2>2, <2>4, <3>1 DEF RunStep, Processed
  <2>5. CASE next \in {"validated", "quarantined"}
    <3>1. run[r].state \in {"collected", "quarantined", "validated"}
      BY <2>5 DEF Admits, MayBecome
    <3>2. run[r].state # "collected"
      BY DEF Inv, TypeOK, RunStates
    <3> QED
      BY <2>1, <2>2, <2>3, <2>5, <3>1, <3>2 DEF RunStep, RunSound, Processed
  <2> QED
    BY <2>4, <2>5
<1>3. receipts' \in SUBSET (Keys \X Runs) /\ ReceiptSound'
  BY DEF Inv, TypeOK, ReceiptSound
<1>4. UNCHANGED task \/ \E t \in Tasks : \E x : Steps(t, x)
  BY ReturnSteps
<1> QED
  BY <1>2, <1>3, <1>4, RunStepInv

\* The fault or the end of a call.
LEMMA ReturnInv ==
  ASSUME Inv, NEW t \in Tasks, Return(t), UNCHANGED <<acquisition, operations>>,
         crashed' \in BOOLEAN
  PROVE  Inv'
<1>1. PICK x : x = NoTask
  OBVIOUS
<1> QED
  BY <1>1, ReturnSteps, TaskStep

LEMMA CrashedKept == Inv /\ UNCHANGED crashed => crashed' \in BOOLEAN
  BY DEF Inv, TypeOK

\* runIntake goes on to record the failure of its run.
LEMMA FailingInv ==
  ASSUME Inv, NEW t \in Tasks, At(t, "process"), Goto(t, "failing"),
         UNCHANGED <<acquisition, crashed, operations>>
  PROVE  Inv'
<1>1. PICK x : x = [task[t] EXCEPT !.pc = "failing"]
  OBVIOUS
<1>2. task[t] \in TaskType /\ TaskSound(task[t]) /\ task[t].pc = "process"
  BY DEF At, Inv, TypeOK, TaskType
<1>3. Steps(t, x)
  BY <1>1, <1>2 DEF Goto, Steps, TaskType, TaskSound
<1> QED
  BY <1>3, TaskStep, CrashedKept

LEMMA FaultInv ==
  ASSUME Inv, NEW t \in Tasks, Fault(t), UNCHANGED operations
  PROVE  Inv'
<1>1. CASE At(t, "process")
  BY <1>1, FailingInv DEF Fault
<1>2. CASE ~At(t, "process")
  BY <1>2, ReturnInv, CrashedKept DEF Fault
<1> QED
  BY <1>1, <1>2

LEMMA MarkRunFailedInv ==
  ASSUME Inv, NEW t \in Tasks, MarkRunFailed(t), UNCHANGED operations
  PROVE  Inv'
<1>1. TaskSound(task[t]) /\ task[t].pc = "failing"
  BY DEF MarkRunFailed, At, Inv
<1>2. PICK r \in Runs : r = task[t].run
  BY <1>1 DEF TaskSound
<1>3. CASE Admits(r, "failed")
  BY <1>2, <1>3, TransitionInv DEF MarkRunFailed
<1>4. CASE ~Admits(r, "failed")
  BY <1>2, <1>4, ReturnInv, CrashedKept DEF MarkRunFailed, acquisition
<1> QED
  BY <1>3, <1>4

LEMMA OperatorRunInv ==
  ASSUME Inv, NEW r \in Runs, MarkQuarantined(r) \/ MarkValidated(r) \/ MarkCancelled(r),
         UNCHANGED operations
  PROVE  Inv'
  BY TransitionInv DEF MarkQuarantined, MarkValidated, MarkCancelled

-----------------------------------------------------------------------------
(* Calls that begin over what they have read.                               *)

LEMMA PreparePackageInv ==
  ASSUME Inv, NEW t \in Tasks, NEW r \in Runs, PreparePackage(t, r), UNCHANGED operations
  PROVE  Inv'
<1>1. PICK x : x = [NoTask EXCEPT !.pc = "create", !.run = r]
  OBVIOUS
<1>2. Processed(r) /\ Processed(r)'
  BY DEF PreparePackage, ReadyForPreparation, Inv, RunSound, Processed, acquisition
<1>3. Steps(t, x)
  BY <1>1, <1>2 DEF PreparePackage, Begin, Steps, NoTask, TaskType, TaskSound
<1> QED
  BY <1>3, TaskStep, CrashedKept DEF PreparePackage

\* A call that holds a package begins.
LEMMA PackageCallInv ==
  ASSUME Inv, NEW t \in Tasks, NEW p \in Packages, NEW pc \in {"publish", "deliver", "reject"},
         package[p].status # "none",
         Begin(t, [NoTask EXCEPT !.package = p, !.pc = pc]),
         UNCHANGED <<acquisition, crashed, operations>>
  PROVE  Inv'
<1>1. PICK x : x = [NoTask EXCEPT !.package = p, !.pc = pc]
  OBVIOUS
<1>2. Steps(t, x)
  BY <1>1 DEF Begin, Steps, NoTask, TaskType, TaskSound, acquisition
<1> QED
  BY <1>2, TaskStep, CrashedKept

LEMMA PublishPackageInv ==
  ASSUME Inv, NEW t \in Tasks, NEW p \in Packages, PublishPackage(t, p), UNCHANGED operations
  PROVE  Inv'
<1>1. [NoTask EXCEPT !.pc = "publish", !.package = p]
        = [NoTask EXCEPT !.package = p, !.pc = "publish"]
  BY DEF NoTask
<1> QED
  BY <1>1, PackageCallInv DEF PublishPackage

LEMMA ProcessHandoffInv ==
  ASSUME Inv, NEW t \in Tasks, NEW p \in Packages, NEW q, ProcessHandoff(t, p, q)
  PROVE  Inv'
  BY PackageCallInv DEF ProcessHandoff

-----------------------------------------------------------------------------
(* Publication packages.                                                    *)

PackageType == [status : {"none", "ready", "published", "revoked"},
                run : Runs \cup {Null}, issued : BOOLEAN]

LEMMA CreatePackageInv ==
  ASSUME Inv, NEW t \in Tasks, CreatePackage(t), UNCHANGED operations
  PROVE  Inv'
<1>1. NewPackage \in Packages /\ package[NewPackage].status = "none"
  <2>1. NewPackage \in FreshPackages
    BY DEF CreatePackage, NewPackage
  <2> QED
    BY <2>1 DEF FreshPackages
<1>2. PICK p \in Packages : p = NewPackage
  BY <1>1
<1>3. task[t].run \in Runs /\ Processed(task[t].run)
  BY DEF CreatePackage, At, Inv, TaskSound
<1>4. package \in [Packages -> PackageType]
  BY DEF Inv, TypeOK, PackageType
<1>5. package' = [package EXCEPT ![p] =
                    [status |-> "ready", run |-> task[t].run, issued |-> FALSE]]
  BY <1>2 DEF CreatePackage
<1>6. package' \in [Packages -> PackageType]
  BY <1>3, <1>4, <1>5 DEF PackageType
<1>7. Grows
  BY <1>4, <1>5 DEF CreatePackage, Grows, Processed
<1>8. /\ task' \in [Tasks -> TaskType]
      /\ \A u \in Tasks : TaskSound(task[u])'
  <2>1. PICK x : x = NoTask
    OBVIOUS
  <2> QED
    BY <1>7, <2>1, ReturnSteps, TaskSteps DEF CreatePackage
<1>9. TypeOK'
  BY <1>6, <1>8 DEF CreatePackage, Inv, TypeOK, TaskType, PackageType, operations
<1>10. (\A q \in Packages : PackageSound(q)') /\ \A r \in Runs : RunSound(r)'
  BY <1>3, <1>4, <1>5 DEF CreatePackage, Inv, PackageSound, RunSound, Processed
<1>11. ~package[p].issued
  BY <1>1, <1>2 DEF Inv, PackageSound
<1>12. \A q \in Packages : q # p => package'[q] = package[q]
  BY <1>4, <1>5
<1>13. ~package'[p].issued
  BY <1>4, <1>5
<1>14. IssuedSound'
  BY <1>11, <1>12, <1>13 DEF CreatePackage, Inv, IssuedSound
<1>15. BookedSound'
  BY <1>11, <1>12, <1>13 DEF Inv, BookedSound, Delivered, operations
<1>16. ReceiptSound'
  BY DEF CreatePackage, Inv, ReceiptSound
<1> QED
  BY <1>8, <1>9, <1>10, <1>14, <1>15, <1>16 DEF Inv

LEMMA PublishOnInv ==
  ASSUME Inv, NEW t \in Tasks, PublishOn(t), UNCHANGED operations
  PROVE  Inv'
<1>1. PICK p \in Packages : p = task[t].package
  BY DEF PublishOn, At, Inv, TaskSound
<1>2. package[p].status = "ready" /\ Admits(package[p].run, "published")
  BY <1>1 DEF PublishOn, Publishable
<1>3. PICK r \in Runs : r = package[p].run
  BY <1>2 DEF Inv, PackageSound
<1>4. run[r].state = "validated"
  BY <1>2, <1>3 DEF Admits, MayBecome
<1>5. /\ package \in [Packages -> PackageType]
      /\ run \in [Runs -> [state : RunStates, batch : Batches \cup {Null}]]
  BY DEF Inv, TypeOK, PackageType
<1>6. package' = [package EXCEPT ![p].status = "published", ![p].issued = TRUE]
  BY <1>1 DEF PublishOn
<1>7. run' = [run EXCEPT ![r].state = "published"]
  BY <1>1, <1>3 DEF PublishOn, Transition
<1>8. /\ \A q \in Packages : q # p => package'[q] = package[q]
      /\ package'[p].status = "published" /\ package'[p].issued /\ package'[p].run = r
  BY <1>3, <1>5, <1>6 DEF PackageType
<1>9. /\ \A s \in Runs : s # r => run'[s] = run[s]
      /\ run'[r].state = "published" /\ run'[r].batch = run[r].batch
  BY <1>5, <1>7
<1>10. package' \in [Packages -> PackageType]
  BY <1>5, <1>6 DEF PackageType
<1>11. run' \in [Runs -> [state : RunStates, batch : Batches \cup {Null}]]
  BY <1>5, <1>7 DEF RunStates
<1>12. Grows
  <2>1. \A s \in Runs : Processed(s) => Processed(s)'
    BY <1>9 DEF Processed
  <2>2. \A q \in Packages : package[q].status # "none" => package'[q].status # "none"
    BY <1>8
  <2> QED
    BY <2>1, <2>2 DEF Grows
<1>13. /\ task' \in [Tasks -> TaskType]
       /\ \A u \in Tasks : TaskSound(task[u])'
  <2>1. PICK x : x = NoTask
    OBVIOUS
  <2> QED
    BY <1>12, <2>1, ReturnSteps, TaskSteps DEF PublishOn
<1>14. TypeOK'
  BY <1>10, <1>11, <1>13 DEF PublishOn, Inv, TypeOK, TaskType, PackageType, operations
<1>15. Processed(r)'
  BY <1>3, <1>4, <1>9 DEF Inv, RunSound, Processed
<1>16. (\A q \in Packages : PackageSound(q)') /\ \A s \in Runs : RunSound(s)'
  <2>1. \A q \in Packages : PackageSound(q)'
    BY <1>8, <1>12, <1>15 DEF Inv, PackageSound, Grows
  <2>2. \A s \in Runs : RunSound(s)'
    BY <1>9, <1>15 DEF Inv, RunSound, Processed
  <2> QED
    BY <2>1, <2>2
<1>17. \A q \in Packages : package[q].issued => package[q].run \in Runs /\ package[q].run # r
  BY <1>4 DEF Inv, IssuedSound, PackageSound
<1>18. IssuedSound'
  <2>1. \A q \in Packages : package'[q].issued => run'[package'[q].run].state = "published"
    BY <1>8, <1>9, <1>17 DEF Inv, IssuedSound
  <2>2. \A q \in Packages : package'[q].issued /\ package'[q].run = r => q = p
    BY <1>8, <1>17
  <2>3. \A q, u \in Packages :
          package'[q].issued /\ package'[u].issued /\ package'[q].run = package'[u].run => q = u
    BY <1>8, <2>2 DEF Inv, IssuedSound
  <2>4. \A s \in Runs : run'[s].state = "published" =>
          \E q \in Packages : package'[q].run = s /\ package'[q].issued
    BY <1>3, <1>8, <1>9 DEF Inv, IssuedSound
  <2> QED
    BY <2>1, <2>3, <2>4 DEF IssuedSound
<1>19. ~Delivered(p) /\ ReceiptSound'
  BY <1>2 DEF Inv, PackageSound, BookedSound, ReceiptSound, PublishOn
<1>20. BookedSound'
  BY <1>3, <1>8, <1>19 DEF Inv, BookedSound, Delivered, operations
<1> QED
  BY <1>13, <1>14, <1>16, <1>18, <1>19, <1>20 DEF Inv

LEMMA RevokeInv ==
  ASSUME Inv, NEW p \in Packages, Revoke(p), UNCHANGED operations
  PROVE  Inv'
<1>1. package \in [Packages -> PackageType]
  BY DEF Inv, TypeOK, PackageType
<1>2. package' = [package EXCEPT ![p].status = "revoked"]
  BY DEF Revoke
<1>3. /\ \A q \in Packages : q # p => package'[q] = package[q]
      /\ package'[p].status = "revoked"
      /\ package'[p].issued = package[p].issued /\ package'[p].run = package[p].run
  BY <1>1, <1>2 DEF PackageType
<1>4. package' \in [Packages -> PackageType]
  BY <1>1, <1>2 DEF PackageType
<1>5. TypeOK'
  BY <1>4 DEF Revoke, Inv, TypeOK, PackageType, operations
<1>6. \A t \in Tasks : TaskSound(task[t])'
  BY <1>3 DEF Revoke, Inv, TaskSound, Processed
<1>7. (\A q \in Packages : PackageSound(q)') /\ \A r \in Runs : RunSound(r)'
  BY <1>3 DEF Revoke, Inv, PackageSound, RunSound, Processed
<1>8. IssuedSound'
  BY <1>3 DEF Revoke, Inv, IssuedSound
<1>9. BookedSound' /\ ReceiptSound'
  BY <1>3 DEF Revoke, Inv, BookedSound, Delivered, ReceiptSound, operations
<1> QED
  BY <1>5, <1>6, <1>7, <1>8, <1>9 DEF Inv

-----------------------------------------------------------------------------
(* Deliveries.                                                              *)

\* What a delivery does to the rows, when it goes through.
LEMMA Delivers ==
  ASSUME Inv, NEW t \in Tasks, Deliver(t)
  PROVE  \E p \in Packages, r \in Runs :
           /\ p = task[t].package /\ r = package[p].run
           /\ package[p].issued /\ Processed(r)
           /\ booked[r] = 0
           /\ \A q \in Packages : package[q].run = r => ~Delivered(q)
           /\ booked' = [booked EXCEPT ![r] = 1]
           /\ stock' = stock + run[r].batch.change
           /\ stock' \in Nat
           /\ delivery' = [delivery EXCEPT ![p] = "delivered"]
<1>1. PICK p \in Packages : p = task[t].package
  BY DEF Deliver, At, Inv, TaskSound
<1>2. package[p].status = "published" /\ ~Delivered(p)
  BY <1>1 DEF Deliver, Acceptable, Undelivered
<1>3. package[p].run \in Runs /\ package[p].issued /\ Processed(package[p].run)
  BY <1>2 DEF Inv, PackageSound
<1>4. PICK r \in Runs : r = package[p].run
  BY <1>3
<1>5. \A q \in Packages : package[q].run = r => ~Delivered(q)
  BY <1>2, <1>3, <1>4 DEF Inv, BookedSound, IssuedSound
<1>6. booked[r] = 0
  BY <1>5 DEF Inv, BookedSound
<1>7. booked' = [booked EXCEPT ![r] = 1]
  BY <1>1, <1>4, <1>6 DEF Deliver
<1>8. stock' = stock + run[r].batch.change /\ stock + run[r].batch.change >= 0
  BY <1>1, <1>4 DEF Deliver, Acceptable, Batch
<1>9. run[r].batch.change \in Int /\ stock \in Nat
  BY <1>3, <1>4, AcquisitionAssumption DEF Processed, BatchType, Inv, TypeOK
<1>10. stock' \in Nat
  BY <1>8, <1>9
<1> QED
  BY <1>1, <1>3, <1>4, <1>5, <1>6, <1>7, <1>8, <1>10 DEF Deliver

\* A step that changes the records of this layer, and a call.
LEMMA OperationStep ==
  ASSUME Inv, NEW t \in Tasks, Return(t), UNCHANGED <<acquisition, crashed>>,
         delivery' \in [Packages -> {"none", "failed", "delivered"}],
         booked' \in [Runs -> Nat], stock' \in Nat, BookedSound'
  PROVE  Inv'
<1>1. PICK x : x = NoTask
  OBVIOUS
<1>2. /\ task' \in [Tasks -> TaskType]
      /\ \A u \in Tasks : TaskSound(task[u])'
  BY <1>1, ReturnSteps, NothingMoves, TaskSteps
<1>3. TypeOK'
  BY <1>2 DEF Inv, TypeOK, TaskType, acquisition
<1>4. IssuedSound' /\ ReceiptSound'
  BY DEF Inv, IssuedSound, ReceiptSound, acquisition
<1>5. (\A p \in Packages : PackageSound(p)') /\ \A r \in Runs : RunSound(r)'
  BY DEF Inv, PackageSound, RunSound, Processed, acquisition
<1> QED
  BY <1>2, <1>3, <1>4, <1>5 DEF Inv

LEMMA DeliverInv ==
  ASSUME Inv, NEW t \in Tasks, Deliver(t)
  PROVE  Inv'
<1>1. PICK p \in Packages, r \in Runs :
        /\ p = task[t].package /\ r = package[p].run
        /\ package[p].issued /\ Processed(r)
        /\ booked[r] = 0
        /\ \A q \in Packages : package[q].run = r => ~Delivered(q)
        /\ booked' = [booked EXCEPT ![r] = 1]
        /\ stock' = stock + run[r].batch.change
        /\ stock' \in Nat
        /\ delivery' = [delivery EXCEPT ![p] = "delivered"]
  BY Delivers
<1>2. delivery \in [Packages -> {"none", "failed", "delivered"}] /\ booked \in [Runs -> Nat]
  BY DEF Inv, TypeOK
<1>3. /\ delivery' \in [Packages -> {"none", "failed", "delivered"}]
      /\ booked' \in [Runs -> Nat]
  BY <1>1, <1>2
<1>4. /\ \A q \in Packages : Delivered(q)' <=> q = p \/ Delivered(q)
      /\ booked'[r] = 1
      /\ \A s \in Runs : s # r => booked'[s] = booked[s]
  BY <1>1, <1>2 DEF Delivered
<1>5. package' = package
  BY DEF Deliver, acquisition
<1>6. BookedSound'
  <2>1. \A q \in Packages : Delivered(q)' => package'[q].issued
    BY <1>1, <1>4, <1>5 DEF Inv, BookedSound
  <2>2. ASSUME NEW s \in Runs
        PROVE  /\ booked'[s] \in {0, 1}
               /\ booked'[s] = 1 <=> \E q \in Packages : package'[q].run = s /\ Delivered(q)'
    <3>1. CASE s = r
      BY <1>1, <1>4, <1>5, <3>1
    <3>2. CASE s # r
      BY <1>1, <1>4, <1>5, <3>2 DEF Inv, BookedSound
    <3> QED
      BY <3>1, <3>2
  <2> QED
    BY <2>1, <2>2 DEF BookedSound
<1> QED
  BY <1>1, <1>3, <1>6, OperationStep DEF Deliver

LEMMA RecordRejectedDeliveryInv ==
  ASSUME Inv, NEW t \in Tasks, RecordRejectedDelivery(t)
  PROVE  Inv'
<1>1. PICK p \in Packages : p = task[t].package
  BY DEF RecordRejectedDelivery, At, Inv, TaskSound
<1>2. delivery \in [Packages -> {"none", "failed", "delivered"}]
  BY DEF Inv, TypeOK
<1>3. FailDelivery(p)
  BY <1>1 DEF RecordRejectedDelivery
<1>4. delivery' \in [Packages -> {"none", "failed", "delivered"}]
  BY <1>2, <1>3 DEF FailDelivery
<1>5. \A q \in Packages : Delivered(q)' <=> Delivered(q)
  BY <1>2, <1>3 DEF FailDelivery, Delivered
<1>6. package' = package /\ booked' = booked /\ stock' = stock
  BY DEF RecordRejectedDelivery, acquisition
<1>7. BookedSound' /\ booked' \in [Runs -> Nat] /\ stock' \in Nat
  BY <1>5, <1>6 DEF Inv, TypeOK, BookedSound
<1> QED
  BY <1>4, <1>7, OperationStep DEF RecordRejectedDelivery

-----------------------------------------------------------------------------

LEMMA AcquisitionInv ==
  ASSUME Inv, AcquisitionNext, UNCHANGED operations
  PROVE  Inv'
<1>1. ASSUME NEW t \in Tasks, AcquisitionStarts(t) PROVE Inv'
  <2>1. ASSUME NEW b \in Batches, SubmitManualIntake(t, b) PROVE Inv'
    BY <2>1, StartRunInv DEF SubmitManualIntake
  <2>2. ASSUME NEW k \in Keys, NEW b \in Batches, ReceiveWebhook(t, k, b) PROVE Inv'
    BY <2>2, StartRunInv DEF ReceiveWebhook
  <2> QED
    BY <1>1, <2>1, <2>2, PreparePackageInv, PublishPackageInv DEF AcquisitionStarts
<1>2. ASSUME NEW t \in Tasks, AcquisitionProceeds(t) PROVE Inv'
  <2>1. CASE ProcessingRejected(t)
    BY <2>1, FailingInv DEF ProcessingRejected
  <2>2. CASE PublishRejected(t)
    BY <2>2, ReturnInv, CrashedKept DEF PublishRejected
  <2> QED
    BY <1>2, <2>1, <2>2, ProcessRunInv, MarkRunFailedInv, CreatePackageInv, PublishOnInv
       DEF AcquisitionProceeds
<1>3. ASSUME NEW t \in Tasks, Crash(t) PROVE Inv'
  BY <1>3, ReturnInv DEF Crash
<1>4. OperatorActs => Inv'
  BY OperatorRunInv, RevokeInv DEF OperatorActs
<1> QED
  BY <1>1, <1>2, <1>3, <1>4, FaultInv DEF AcquisitionNext

LEMMA ProceedInv ==
  ASSUME Inv, NEW t \in Tasks, Proceed(t)
  PROVE  Inv'
<1>1. CASE AcquisitionProceeds(t) /\ UNCHANGED operations
  BY <1>1, AcquisitionInv DEF AcquisitionNext
<1>2. CASE DeliveredReplay(t) \/ DeliveryRefused(t)
  BY <1>2, ReturnInv, CrashedKept DEF DeliveredReplay, DeliveryRefused
<1> QED
  BY <1>1, <1>2, DeliverInv, RecordRejectedDeliveryInv DEF Proceed

LEMMA NextInv == Inv /\ [Next]_vars => Inv'
<1> SUFFICES ASSUME Inv, [Next]_vars PROVE Inv'
  OBVIOUS
<1>1. CASE Next
  BY <1>1, AcquisitionInv, ProcessHandoffInv, ProceedInv DEF Next
<1>2. CASE UNCHANGED vars
  <2>1. TypeOK'
    BY <1>2 DEF Inv, TypeOK, vars, acquisition, operations
  <2>2. /\ \A t \in Tasks : TaskSound(task[t])'
        /\ \A p \in Packages : PackageSound(p)'
        /\ \A r \in Runs : RunSound(r)'
    BY <1>2 DEF Inv, TaskSound, PackageSound, RunSound, Processed, vars, acquisition
  <2>3. IssuedSound' /\ ReceiptSound' /\ BookedSound'
    BY <1>2 DEF Inv, IssuedSound, ReceiptSound, BookedSound, Delivered,
                vars, acquisition, operations
  <2> QED
    BY <2>1, <2>2, <2>3 DEF Inv
<1> QED
  BY <1>1, <1>2

LEMMA AlwaysInv == Spec => []Inv
<1> QED
  BY InitInv, NextInv, PTL DEF Spec

-----------------------------------------------------------------------------
(* What follows from it.                                                    *)

\* Every state of a run, a package, a call, a delivery and the balance is one
\* the program can hold; the balance is never negative.
THEOREM TypeCorrect == Spec => []TypeOK
<1>1. Inv => TypeOK
  BY DEF Inv
<1> QED
  BY <1>1, AlwaysInv, PTL

\* Sets whose members are all equal.
LEMMA AtMostOne ==
  ASSUME NEW S, \A x, y \in S : x = y
  PROVE  /\ S = {} => Cardinality(S) = 0
         /\ S # {} => Cardinality(S) = 1
<1>1. S # {} => \E x : S = {x}
  OBVIOUS
<1> QED
  BY <1>1, FS_EmptySet, FS_Singleton

\* The records of a webhook move the balance at most once, however often it is
\* delivered and whichever calls race or fail (receiveWebhook, processHandoff).
THEOREM WebhookBookedOnce == Spec => []BookedOnce
<1>1. Inv => BookedOnce
  <2> SUFFICES ASSUME Inv, NEW k \in Keys, NEW r \in Runs, NEW s \in Runs
               PROVE  booked[r] <= 1 /\ ({<<k, r>>, <<k, s>>} \subseteq receipts => r = s)
    BY DEF BookedOnce
  <2>1. booked[r] <= 1
    BY DEF Inv, BookedSound
  <2>2. {<<k, r>>, <<k, s>>} \subseteq receipts => r = s
    BY DEF Inv, ReceiptSound
  <2> QED
    BY <2>1, <2>2
<1> QED
  BY <1>1, AlwaysInv, PTL

\* A run was executed exactly if a package of it is recorded as delivered.
THEOREM DeliveredIsExecuted == Spec => []DeliveriesAreBooked
<1>1. Inv => DeliveriesAreBooked
  <2> SUFFICES ASSUME Inv, NEW r \in Runs
               PROVE  booked[r] = Cardinality({p \in Packages : package[p].run = r /\ Delivered(p)})
    BY DEF DeliveriesAreBooked
  <2> DEFINE S == {p \in Packages : package[p].run = r /\ Delivered(p)}
  <2>1. \A p, q \in S : p = q
    BY DEF Inv, IssuedSound, BookedSound
  <2>2. (S # {} <=> booked[r] = 1) /\ booked[r] \in {0, 1}
    BY DEF Inv, BookedSound
  <2>3. /\ S = {} => Cardinality(S) = 0
        /\ S # {} => Cardinality(S) = 1
    <3> HIDE DEF S
    <3> QED
      BY <2>1, AtMostOne
  <2> QED
    BY <2>2, <2>3
<1> QED
  BY <1>1, AlwaysInv, PTL

-----------------------------------------------------------------------------
(* The balance implements the book of the runs.                             *)

\* The row of a run that is published does not change any more.
LEMMA PublishedStays ==
  ASSUME Inv, AcquisitionNext, NEW s \in Runs, run[s].state = "published"
  PROVE  run'[s] = run[s]
<1> USE DEF Admits, MayBecome, Transition
<1>0. run \in [Runs -> [state : RunStates, batch : Batches \cup {Null}]]
  BY DEF Inv, TypeOK
<1>1. ASSUME NEW t \in Tasks, NEW k, NEW b, StartRun(t, k, b) PROVE run'[s] = run[s]
  <2>1. NewRun \in FreshRuns
    BY <1>1 DEF StartRun, NewRun
  <2>2. NewRun # s
    BY <2>1 DEF FreshRuns
  <2>3. run' = [run EXCEPT ![NewRun].state = "collecting"]
    BY <1>1 DEF StartRun
  <2> QED
    BY <1>0, <2>2, <2>3
<1>2. ASSUME NEW t \in Tasks, ProcessRun(t) PROVE run'[s] = run[s]
  <2>1. run[task[t].run].state = "collecting"
    BY <1>2 DEF ProcessRun, Processable
  <2> QED
    BY <1>0, <1>2, <2>1 DEF ProcessRun
<1>3. ASSUME NEW t \in Tasks, MarkRunFailed(t) PROVE run'[s] = run[s]
  BY <1>0, <1>3 DEF MarkRunFailed
<1>4. ASSUME NEW t \in Tasks, PublishOn(t) PROVE run'[s] = run[s]
  <2>1. run[package[task[t].package].run].state = "validated"
    BY <1>4 DEF PublishOn, Publishable
  <2> QED
    BY <1>0, <1>4, <2>1 DEF PublishOn
<1>5. ASSUME NEW r \in Runs, MarkQuarantined(r) PROVE run'[s] = run[s]
  BY <1>0, <1>5 DEF MarkQuarantined
<1>6. ASSUME NEW r \in Runs, MarkValidated(r) PROVE run'[s] = run[s]
  BY <1>0, <1>6 DEF MarkValidated
<1>7. ASSUME NEW r \in Runs, MarkCancelled(r) PROVE run'[s] = run[s]
  BY <1>0, <1>7 DEF MarkCancelled
<1>8. CASE UNCHANGED run
  BY <1>8
<1> QED
  BY <1>1, <1>2, <1>3, <1>4, <1>5, <1>6, <1>7, <1>8
     DEF AcquisitionNext, AcquisitionStarts, AcquisitionProceeds, OperatorActs,
         SubmitManualIntake, ReceiveWebhook, PreparePackage, PublishPackage,
         ProcessingRejected, CreatePackage, PublishRejected, Fault, Crash, Revoke, acquisition

\* It is published out of validated only.
LEMMA PublishedFrom ==
  ASSUME Inv, AcquisitionNext, NEW s \in Runs, run'[s].state = "published"
  PROVE  run[s].state \in {"validated", "published"}
<1> SUFFICES ASSUME run'[s].state # run[s].state PROVE run[s].state = "validated"
  OBVIOUS
<1>0. run \in [Runs -> [state : RunStates, batch : Batches \cup {Null}]]
  BY DEF Inv, TypeOK
<1>1. ASSUME NEW t \in Tasks, NEW k, NEW b, StartRun(t, k, b) PROVE FALSE
  BY <1>0, <1>1 DEF StartRun, Transition
<1>2. ASSUME NEW t \in Tasks, ProcessRun(t) PROVE FALSE
  BY <1>0, <1>2 DEF ProcessRun
<1>3. ASSUME NEW t \in Tasks, MarkRunFailed(t) PROVE FALSE
  BY <1>0, <1>3 DEF MarkRunFailed, Transition
<1>4. ASSUME NEW t \in Tasks, PublishOn(t) PROVE run[s].state = "validated"
  <2>1. run[package[task[t].package].run].state = "validated"
    BY <1>4 DEF PublishOn, Publishable, Admits, MayBecome
  <2>2. s = package[task[t].package].run
    BY <1>0, <1>4 DEF PublishOn, Transition
  <2> QED
    BY <2>1, <2>2
<1>5. ASSUME NEW r \in Runs, MarkQuarantined(r) \/ MarkValidated(r) \/ MarkCancelled(r) PROVE FALSE
  BY <1>0, <1>5 DEF MarkQuarantined, MarkValidated, MarkCancelled, Transition
<1>6. CASE UNCHANGED run
  BY <1>6
<1> QED
  BY <1>1, <1>2, <1>3, <1>4, <1>5, <1>6
     DEF AcquisitionNext, AcquisitionStarts, AcquisitionProceeds, OperatorActs,
         SubmitManualIntake, ReceiveWebhook, PreparePackage, PublishPackage,
         ProcessingRejected, CreatePackage, PublishRejected, Fault, Crash, Revoke, acquisition

\* Only the acquisition changes the runs.
LEMMA RunsChange == Next => AcquisitionNext \/ UNCHANGED run
  BY DEF Next, Proceed, ProcessHandoff, DeliveredReplay, Deliver, DeliveryRefused,
         RecordRejectedDelivery, AcquisitionNext, acquisition

\* A run is published by exactly one package, whichever of the packages prepared
\* for it are published at once, out of validated and for good (publishOn).
THEOREM PublishedByOnePackage == Spec => PublishedOnce
<1> DEFINE One == \A r \in Runs : Cardinality(Issuers(r)) = IF run[r].state = "published" THEN 1 ELSE 0
           From == \A r \in Runs :
                     /\ run'[r].state = "published" => run[r].state \in {"validated", "published"}
                     /\ run[r].state = "published" => run'[r] = run[r]
<1>1. Inv => One
  <2> SUFFICES ASSUME Inv, NEW r \in Runs
               PROVE  Cardinality(Issuers(r)) = IF run[r].state = "published" THEN 1 ELSE 0
    OBVIOUS
  <2>1. \A p, q \in Issuers(r) : p = q
    BY DEF Inv, IssuedSound, Issuers
  <2>2. Issuers(r) # {} <=> run[r].state = "published"
    BY DEF Inv, IssuedSound, Issuers
  <2>3. /\ Issuers(r) = {} => Cardinality(Issuers(r)) = 0
        /\ Issuers(r) # {} => Cardinality(Issuers(r)) = 1
    BY <2>1, AtMostOne
  <2> QED
    BY <2>2, <2>3
<1>2. Inv /\ [Next]_vars => [From]_vars
  <2> SUFFICES ASSUME Inv, Next, NEW r \in Runs
               PROVE  /\ run'[r].state = "published" => run[r].state \in {"validated", "published"}
                      /\ run[r].state = "published" => run'[r] = run[r]
    OBVIOUS
  <2>1. CASE UNCHANGED run
    BY <2>1
  <2>2. CASE AcquisitionNext
    BY <2>2, PublishedStays, PublishedFrom
  <2> QED
    BY <2>1, <2>2, RunsChange
<1> QED
  BY <1>1, <1>2, AlwaysInv, PTL DEF Spec, PublishedOnce

Entry(r) == IF booked[r] > 0 THEN run[r].batch.change ELSE Null

\* Whatever is not a delivery leaves the book as it is.
LEMMA BookKept ==
  ASSUME Inv, UNCHANGED <<booked, stock>>, AcquisitionNext \/ UNCHANGED run
  PROVE  UNCHANGED stock /\ \A r \in Runs : Entry(r)' = Entry(r)
<1>1. ASSUME NEW r \in Runs PROVE Entry(r)' = Entry(r)
  <2>1. booked[r] > 0 => run[r].state = "published"
    BY DEF Inv, BookedSound, IssuedSound
  <2>2. booked[r] > 0 => run'[r] = run[r]
    BY <2>1, PublishedStays
  <2> QED
    BY <2>2 DEF Entry
<1> QED
  BY <1>1

LEMMA DeliverBooks ==
  ASSUME Inv, NEW t \in Tasks, Deliver(t)
  PROVE  Book!Next
<1>1. PICK p \in Packages, r \in Runs :
        /\ p = task[t].package /\ r = package[p].run
        /\ package[p].issued /\ Processed(r)
        /\ booked[r] = 0
        /\ \A q \in Packages : package[q].run = r => ~Delivered(q)
        /\ booked' = [booked EXCEPT ![r] = 1]
        /\ stock' = stock + run[r].batch.change
        /\ stock' \in Nat
        /\ delivery' = [delivery EXCEPT ![p] = "delivered"]
  BY Delivers
<1>0. PICK c : c = run[r].batch.change
  OBVIOUS
<1>2. c \in {b.change : b \in Batches}
  BY <1>0, <1>1 DEF Processed
<1>3. run' = run /\ booked \in [Runs -> Nat]
  BY DEF Deliver, acquisition, Inv, TypeOK
<1>4. Entry(r) = Null /\ Entry(r)' = c /\ \A s \in Runs : s # r => Entry(s)' = Entry(s)
  BY <1>0, <1>1, <1>3 DEF Entry
<1>5. [s \in Runs |-> Entry(s)'] = [[s \in Runs |-> Entry(s)] EXCEPT ![r] = c]
  BY <1>4
<1>6. stock' = stock + c /\ stock + c >= 0
  BY <1>0, <1>1
<1>7. Book!Book(r, c)
  BY <1>4, <1>5, <1>6 DEF Book!Book, Entry
<1> QED
  BY <1>2, <1>7 DEF Book!Next

\* The path from a webhook to the balance implements StockBook: the records of a
\* run move the balance all together or not at all, at most once, and never below
\* zero, and nothing that happens to the run or the package afterwards changes
\* what was moved.
THEOREM IntakeImplementsBook == Spec => BookSpec
<1>1. Init => Book!Init
  BY DEF Init, Book!Init
<1>2. Inv /\ [Next]_vars =>
        [Book!Next]_<<[r \in Runs |-> IF booked[r] > 0 THEN run[r].batch.change ELSE Null], stock>>
  <2> SUFFICES ASSUME Inv, [Next]_vars
               PROVE  \/ Book!Next
                      \/ UNCHANGED <<[r \in Runs |-> IF booked[r] > 0
                                                     THEN run[r].batch.change ELSE Null], stock>>
    OBVIOUS
  <2>1. (\E t \in Tasks : Deliver(t))
          \/ (UNCHANGED <<booked, stock>> /\ (AcquisitionNext \/ UNCHANGED run))
    BY DEF Next, Proceed, AcquisitionNext, ProcessHandoff, DeliveredReplay, DeliveryRefused,
           RecordRejectedDelivery, vars, acquisition, operations
  <2>2. CASE UNCHANGED <<booked, stock>> /\ (AcquisitionNext \/ UNCHANGED run)
    BY <2>2, BookKept DEF Entry
  <2> QED
    BY <2>1, <2>2, DeliverBooks
<1> QED
  BY <1>1, <1>2, AlwaysInv, PTL DEF Spec, BookSpec, Book!Spec

-----------------------------------------------------------------------------
(* The limit of the provenance read.                                        *)

Short(r) == run[r].batch.valid <= PageLimit

\* Whatever is on its way to publication has been found short enough.
ShortInv ==
    /\ \A t \in Tasks : task[t].pc = "create" => Short(task[t].run)
    /\ \A p \in Packages : package[p].status # "none" => Short(package[p].run)

\* The records of a run that has been processed do not change any more.
LEMMA BatchKept ==
  ASSUME Inv, [Next]_vars, NEW s \in Runs, Processed(s)
  PROVE  run'[s].batch = run[s].batch
<1> USE DEF Transition
<1>0. run \in [Runs -> [state : RunStates, batch : Batches \cup {Null}]]
  BY DEF Inv, TypeOK
<1>1. ASSUME NEW t \in Tasks, ProcessRun(t) PROVE run'[s] = run[s]
  <2>1. run[task[t].run].state = "collecting"
    BY <1>1 DEF ProcessRun, Processable, Admits, MayBecome
  <2> QED
    BY <1>0, <1>1, <2>1 DEF ProcessRun, Processed
<1>2. ASSUME NEW r, NEW state, Transition(r, state) PROVE run'[s].batch = run[s].batch
  BY <1>0, <1>2
<1>3. CASE UNCHANGED run
  BY <1>3
<1> HIDE DEF Transition
<1> QED
  BY <1>1, <1>2, <1>3
     DEF Next, Proceed, ProcessHandoff, DeliveredReplay, Deliver, DeliveryRefused,
         RecordRejectedDelivery, AcquisitionNext, AcquisitionStarts, AcquisitionProceeds,
         OperatorActs, SubmitManualIntake, ReceiveWebhook, StartRun, PreparePackage,
         PublishPackage, ProcessingRejected, MarkRunFailed, CreatePackage, PublishOn,
         PublishRejected, MarkQuarantined, MarkValidated, MarkCancelled, Fault, Crash, Revoke,
         acquisition, vars

\* A call comes to create a package only from the check of what it has read.
LEMMA CreatingIsShort ==
  ASSUME Inv, ShortInv, [Next]_vars, NEW u \in Tasks, task'[u].pc = "create"
  PROVE  Short(task'[u].run) /\ Processed(task'[u].run) /\ task'[u].run \in Runs
<1>0. task \in [Tasks -> TaskType]
  BY DEF Inv, TypeOK, TaskType
<1>1. CASE task'[u] = task[u]
  BY <1>1 DEF Inv, TaskSound, ShortInv
<1>2. ASSUME NEW r \in Runs, PreparePackage(u, r)
      PROVE  task'[u].run = r /\ Short(r) /\ Processed(r)
  <2>1. Processed(r) /\ ProvenanceRead(r) = run[r].batch.valid
    BY <1>2 DEF PreparePackage, ReadyForPreparation, Inv, RunSound
  <2>2. run[r].batch.valid \in Nat /\ PageLimit \in Nat
    BY <2>1, AcquisitionAssumption DEF Processed, BatchType
  <2>3. Short(r)
    BY <2>1, <2>2 DEF ProvenanceRead, Provenance, Short
  <2>4. task'[u].run = r
    BY <1>0, <1>2 DEF PreparePackage, Begin, NoTask
  <2> QED
    BY <2>1, <2>3, <2>4
<1>3. ASSUME NEW t \in Tasks, Return(t), task'[u] # task[u] PROVE FALSE
  BY <1>0, <1>3 DEF Return, NoTask
<1>4. ASSUME NEW t \in Tasks, Goto(t, "failing"), task'[u] # task[u] PROVE FALSE
  BY <1>0, <1>4 DEF Goto, TaskType
<1>5. ASSUME NEW t \in Tasks, NEW k, NEW b, StartRun(t, k, b), task'[u] # task[u] PROVE FALSE
  BY <1>0, <1>5 DEF StartRun, Begin, NoTask
<1>6. ASSUME NEW t \in Tasks, NEW p \in Packages, PublishPackage(t, p), task'[u] # task[u]
      PROVE  FALSE
  BY <1>0, <1>6 DEF PublishPackage, Begin, NoTask
<1>7. ASSUME NEW t \in Tasks, NEW p \in Packages, NEW q \in {"fair", "good"},
             ProcessHandoff(t, p, q), task'[u] # task[u]
      PROVE  FALSE
  BY <1>0, <1>7 DEF ProcessHandoff, Begin, NoTask
<1>8. ASSUME NEW t \in Tasks, NEW r \in Runs, PreparePackage(t, r), task'[u] # task[u]
      PROVE  t = u
  BY <1>0, <1>8 DEF PreparePackage, Begin
<1>9. CASE task' # task
  <2>1. \/ \E t \in Tasks : Return(t) \/ Goto(t, "failing")
        \/ \E t \in Tasks : \E k, b : StartRun(t, k, b)
        \/ \E t \in Tasks, p \in Packages : PublishPackage(t, p)
        \/ \E t \in Tasks, p \in Packages, q \in {"fair", "good"} : ProcessHandoff(t, p, q)
        \/ \E t \in Tasks, r \in Runs : PreparePackage(t, r)
    BY <1>9 DEF Next, Proceed, DeliveredReplay, Deliver, DeliveryRefused,
         RecordRejectedDelivery, AcquisitionNext, AcquisitionStarts, AcquisitionProceeds,
         OperatorActs, SubmitManualIntake, ReceiveWebhook,
         ProcessRun, ProcessingRejected, MarkRunFailed, CreatePackage, PublishOn,
         PublishRejected, MarkQuarantined, MarkValidated, MarkCancelled, Fault, Crash, Revoke,
         vars
  <2> QED
    BY <1>1, <1>2, <1>3, <1>4, <1>5, <1>6, <1>7, <1>8, <2>1
<1> QED
  BY <1>1, <1>9

\* A package keeps its run, and a new one gets that of the call that creates it.
LEMMA PackagesFollow ==
  ASSUME Inv, [Next]_vars, NEW p \in Packages, package'[p].status # "none"
  PROVE  \/ package[p].status # "none" /\ package'[p].run = package[p].run
         \/ \E t \in Tasks : task[t].pc = "create" /\ package'[p].run = task[t].run
<1>0. package \in [Packages -> PackageType]
  BY DEF Inv, TypeOK, PackageType
<1>1. CASE UNCHANGED package
  BY <1>1
<1>2. ASSUME NEW t \in Tasks, CreatePackage(t)
      PROVE  \/ package[p].status # "none" /\ package'[p].run = package[p].run
             \/ task[t].pc = "create" /\ package'[p].run = task[t].run
  BY <1>0, <1>2 DEF CreatePackage, At
<1>3. ASSUME NEW t \in Tasks, PublishOn(t)
      PROVE  package[p].status # "none" /\ package'[p].run = package[p].run
  BY <1>0, <1>3 DEF PublishOn, Publishable, PackageType
<1>4. ASSUME NEW q \in Packages, Revoke(q)
      PROVE  package[p].status # "none" /\ package'[p].run = package[p].run
  BY <1>0, <1>4 DEF Revoke, PackageType
<1> QED
  BY <1>1, <1>2, <1>3, <1>4
     DEF Next, Proceed, ProcessHandoff, DeliveredReplay, Deliver, DeliveryRefused,
         RecordRejectedDelivery, AcquisitionNext, AcquisitionStarts, AcquisitionProceeds,
         OperatorActs, SubmitManualIntake, ReceiveWebhook, StartRun, PreparePackage,
         PublishPackage, ProcessRun, ProcessingRejected, MarkRunFailed,
         PublishRejected, MarkQuarantined, MarkValidated, MarkCancelled, Fault, Crash,
         acquisition, vars

LEMMA NextShort == Inv /\ ShortInv /\ [Next]_vars => ShortInv'
<1> SUFFICES ASSUME Inv, ShortInv, [Next]_vars PROVE ShortInv'
  OBVIOUS
<1>1. ASSUME NEW u \in Tasks, task'[u].pc = "create" PROVE Short(task[u].run)'
  <2>1. PICK r \in Runs : r = task'[u].run /\ Short(r) /\ Processed(r)
    BY <1>1, CreatingIsShort
  <2> QED
    BY <2>1, BatchKept DEF Short
<1>2. ASSUME NEW p \in Packages, package'[p].status # "none" PROVE Short(package[p].run)'
  <2>1. PICK r \in Runs : r = package'[p].run /\ Short(r) /\ Processed(r)
    BY <1>2, PackagesFollow DEF Inv, PackageSound, TaskSound, ShortInv
  <2> QED
    BY <2>1, BatchKept DEF Short
<1> QED
  BY <1>1, <1>2 DEF ShortInv, Short

\* No run with more valid records than one read of the provenance returns is ever
\* published: its package is not even prepared, whatever is retried, because the
\* records that were read are compared with all that were accepted
\* (assertReadyForPreparation; preparePublicationPackage reads 200 at most).
THEOREM LongRunsStay ==
  Spec => [](\A r \in Runs : run[r].state = "published" => run[r].batch.valid <= PageLimit)
<1>1. Init => ShortInv
  BY DEF Init, AcquisitionInit, NoTask, NoPackage, ShortInv
<1>2. Inv /\ ShortInv =>
        \A r \in Runs : run[r].state = "published" => run[r].batch.valid <= PageLimit
  <2> SUFFICES ASSUME Inv, ShortInv, NEW r \in Runs, run[r].state = "published"
               PROVE  Short(r)
    BY DEF Short
  <2>1. PICK p \in Packages : package[p].run = r /\ package[p].issued
    BY DEF Inv, IssuedSound
  <2> QED
    BY <2>1 DEF Inv, PackageSound, ShortInv
<1> QED
  BY <1>1, <1>2, NextShort, AlwaysInv, PTL DEF Spec

=============================================================================
