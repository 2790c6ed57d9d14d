------------------------- MODULE TwinSnapshot_proofs -------------------------
(* Theorems about TwinSnapshot, for every value of its constants.           *)
EXTENDS TwinSnapshot, TLAPS

Operations == {"validate", "publish", "supersede"}

\* What a transaction in progress may rely on: its snapshot exists, and if it is
\* to be published, a committed validation has covered it.
SessionsSound ==
    \A p \in Sessions : session[p] # Idle =>
      /\ session[p].op \in Operations
      /\ session[p].snapshot \in Snapshots
      /\ session[p].op = "publish" => session[p].snapshot \in validations

ValidatedIsCovered == \A s \in Snapshots : status[s] = "validated" => s \in validations

Inv == TypeOK /\ SessionsSound /\ ValidatedIsCovered /\ PublishedIsSound

LEMMA InitInv == Init => Inv
  BY SnapshotAssumption
  DEF Init, Inv, TypeOK, SessionsSound, ValidatedIsCovered, PublishedIsSound, Idle, Statuses

LEMMA CreateInv ==
  ASSUME Inv, NEW s \in Snapshots, CreateSnapshot(s)
  PROVE  Inv'
<1>1. TypeOK'
  BY DEF Inv, TypeOK, CreateSnapshot, Statuses
<1>2. SessionsSound'
  BY DEF Inv, SessionsSound, CreateSnapshot
<1>3. ValidatedIsCovered' /\ PublishedIsSound'
  BY DEF Inv, TypeOK, ValidatedIsCovered, PublishedIsSound, CreateSnapshot
<1> QED
  BY <1>1, <1>2, <1>3 DEF Inv

LEMMA SelectInv ==
  ASSUME Inv, NEW p \in Sessions, NEW s \in Snapshots, NEW op \in Operations,
         Select(p, op, s)
  PROVE  Inv'
<1>1. TypeOK'
  BY DEF Inv, TypeOK, Select, Operations
<1>2. op = "publish" => s \in validations
  BY DEF Inv, ValidatedIsCovered, Select, MayStart
<1>3. SessionsSound'
  BY <1>2 DEF Inv, TypeOK, SessionsSound, Select
<1>4. ValidatedIsCovered' /\ PublishedIsSound'
  BY DEF Inv, ValidatedIsCovered, PublishedIsSound, Select
<1> QED
  BY <1>1, <1>3, <1>4 DEF Inv

LEMMA UpdateInv ==
  ASSUME Inv, NEW p \in Sessions, Update(p)
  PROVE  Inv'
<1> DEFINE op == session[p].op
           s  == session[p].snapshot
<1>1. session[p] # Idle
  BY DEF Update, Idle
<1>2. op \in Operations /\ s \in Snapshots /\ (op = "publish" => s \in validations)
  BY <1>1 DEF Inv, SessionsSound
<1>3. Target(op) \in {"validated", "published", "superseded"}
  BY <1>2 DEF Target, Operations
<1>4. op = "supersede" <=> Target(op) = "superseded"
  BY <1>2 DEF Target, Operations
<1>5. TypeOK'
  BY <1>2, <1>3, <1>4 DEF Inv, TypeOK, Update, Statuses, Idle
<1>6. SessionsSound'
  BY <1>2 DEF Inv, TypeOK, SessionsSound, Update
<1>7. ValidatedIsCovered'
  BY <1>2 DEF Inv, TypeOK, ValidatedIsCovered, Update, Target, Operations
<1>8. PublishedIsSound'
  <2> SUFFICES ASSUME NEW x \in Snapshots
               PROVE  /\ status'[x] = "published" => x \in validations'
                      /\ status'[x] = "published" <=> version'[x] = "published"
    BY DEF PublishedIsSound
  <2>1. CASE x # s
    BY <1>2, <2>1 DEF Inv, TypeOK, PublishedIsSound, Update
  <2>2. CASE x = s /\ op = "supersede"
    <3>1. status[s] # "published"
      BY <1>4, <2>2 DEF Update, TriggerAllows
    <3>2. status'[s] = "superseded" /\ version' = version
      BY <1>2, <1>4, <2>2 DEF Inv, TypeOK, Update
    <3> QED
      BY <2>2, <3>1, <3>2 DEF Inv, PublishedIsSound
  <2>3. CASE x = s /\ op # "supersede"
    <3>1. status'[s] = Target(op) /\ version'[s] = Target(op)
      BY <1>2, <2>3 DEF Inv, TypeOK, Update
    <3>2. Target(op) = "published" => s \in validations
      BY <1>2, <2>3 DEF Target, Operations
    <3> QED
      BY <2>3, <3>1, <3>2 DEF Update
  <2> QED
    BY <2>1, <2>2, <2>3
<1> QED
  BY <1>5, <1>6, <1>7, <1>8 DEF Inv

LEMMA RollbackInv ==
  ASSUME Inv, NEW p \in Sessions, Rollback(p)
  PROVE  Inv'
<1>1. TypeOK'
  BY DEF Inv, TypeOK, Rollback, Idle
<1>2. SessionsSound'
  BY DEF Inv, TypeOK, SessionsSound, Rollback
<1>3. ValidatedIsCovered' /\ PublishedIsSound'
  BY DEF Inv, ValidatedIsCovered, PublishedIsSound, Rollback
<1> QED
  BY <1>1, <1>2, <1>3 DEF Inv

LEMMA StepInv == Inv /\ [Next]_vars => Inv'
<1> SUFFICES ASSUME Inv, [Next]_vars PROVE Inv'
  OBVIOUS
<1>1. ASSUME NEW s \in Snapshots, CreateSnapshot(s) PROVE Inv'
  BY <1>1, CreateInv
<1>2. ASSUME NEW p \in Sessions, NEW s \in Snapshots, NEW op \in Operations, Select(p, op, s)
      PROVE  Inv'
  BY <1>2, SelectInv
<1>3. ASSUME NEW p \in Sessions, Update(p) PROVE Inv'
  BY <1>3, UpdateInv
<1>4. ASSUME NEW p \in Sessions, Rollback(p) PROVE Inv'
  BY <1>4, RollbackInv
<1>5. CASE UNCHANGED vars
  BY <1>5 DEF vars, Inv, TypeOK, SessionsSound, ValidatedIsCovered, PublishedIsSound
<1> QED
  BY <1>1, <1>2, <1>3, <1>4, <1>5 DEF Next, Operations

LEMMA AlwaysInv == Spec => []Inv
  BY InitInv, StepInv, PTL DEF Spec

-----------------------------------------------------------------------------
\* Every state the lifecycle reaches is well typed (createSnapshot,
\* validateSnapshot, publishSnapshot, supersedeSnapshot).
THEOREM TypeCorrect == Spec => []TypeOK
  BY AlwaysInv, PTL DEF Inv

\* Whatever is published was validated, and row and version agree, with any
\* number of unlocked transactions at once (publishSnapshot, trigger 0062).
THEOREM PublicationSound == Spec => []PublishedIsSound
  BY AlwaysInv, PTL DEF Inv

-----------------------------------------------------------------------------
(* The standing of the snapshots changes in the ways of the catalogue.      *)

standing == [s \in Snapshots |-> Standing(s)]

LEMMA CatalogueInit == Init => Catalogue!Init
  BY DEF Init, Catalogue!Init, Standing

LEMMA StatusKept ==
  ASSUME status' = status
  PROVE  standing' = standing
  BY DEF standing, Standing

LEMMA CreateKeepsCatalogue ==
  ASSUME TypeOK, NEW s \in Snapshots, CreateSnapshot(s)
  PROVE  standing' = standing
<1>1. \A x \in Snapshots : Standing(x)' = Standing(x)
  BY DEF TypeOK, CreateSnapshot, Standing
<1> QED
  BY <1>1 DEF standing

\* An update moves one snapshot, and the trigger keeps it off published ones.
LEMMA UpdateMoves ==
  ASSUME Inv, NEW p \in Sessions, Update(p)
  PROVE  \E s \in Snapshots :
           /\ \A x \in Snapshots \ {s} : Standing(x)' = Standing(x)
           /\ Standing(s) = "published" => Standing(s)' = "published"
<1> DEFINE op == session[p].op
           s  == session[p].snapshot
<1>1. session[p] # Idle
  BY DEF Update, Idle
<1>2. s \in Snapshots
  BY <1>1 DEF Inv, SessionsSound
<1>3. status' = [status EXCEPT ![s] = Target(op)]
  BY DEF Update
<1>4. \A x \in Snapshots \ {s} : status'[x] = status[x]
  BY <1>3 DEF Inv, TypeOK
<1>5. status'[s] = Target(op)
  BY <1>2, <1>3 DEF Inv, TypeOK
<1>6. status[s] = "published" => Target(op) = "published"
  BY DEF Update, TriggerAllows
<1> QED
  BY <1>2, <1>4, <1>5, <1>6 DEF Standing

\* Whatever moves one snapshot and takes nothing out of what is published is a
\* step of the catalogue.
LEMMA MoveIsAChange ==
  ASSUME NEW s \in Snapshots,
         \A x \in Snapshots \ {s} : Standing(x)' = Standing(x),
         Standing(s) = "published" => Standing(s)' = "published"
  PROVE  [Catalogue!Next]_standing
<1>1. standing' = [standing EXCEPT ![s] = Standing(s)']
  BY DEF standing
<1>2. standing[s] = Standing(s)
  BY DEF standing
<1>3. /\ Standing(s) \in {"unpublished", "published", "superseded"}
      /\ Standing(s)' \in {"unpublished", "published", "superseded"}
  BY DEF Standing
<1>4. CASE Standing(s)' = Standing(s)
  <2>1. \A x \in Snapshots : Standing(x)' = Standing(x)
    BY <1>4
  <2> QED
    BY <2>1 DEF standing
<1>5. CASE Standing(s)' # Standing(s)
  <2>1. Catalogue!Change(s)
    BY <1>1, <1>2, <1>3, <1>5 DEF standing, Catalogue!Change, Catalogue!Publish,
       Catalogue!Supersede, Catalogue!Revalidate
  <2> QED
    BY <2>1 DEF Catalogue!Next
<1> QED
  BY <1>4, <1>5

LEMMA CatalogueStep == Inv /\ [Next]_vars => [Catalogue!Next]_standing
<1> SUFFICES ASSUME Inv, [Next]_vars PROVE [Catalogue!Next]_standing
  OBVIOUS
<1>1. ASSUME NEW s \in Snapshots, CreateSnapshot(s) PROVE standing' = standing
  BY <1>1, CreateKeepsCatalogue DEF Inv
<1>2. ASSUME NEW p \in Sessions, NEW s \in Snapshots, NEW op \in Operations, Select(p, op, s)
      PROVE  standing' = standing
  BY <1>2, StatusKept DEF Select
<1>3. ASSUME NEW p \in Sessions, Update(p) PROVE [Catalogue!Next]_standing
  BY <1>3, UpdateMoves, MoveIsAChange
<1>4. ASSUME NEW p \in Sessions, Rollback(p) PROVE standing' = standing
  BY <1>4, StatusKept DEF Rollback
<1>5. CASE UNCHANGED vars
  BY <1>5, StatusKept DEF vars
<1> QED
  BY <1>1, <1>2, <1>3, <1>4, <1>5 DEF Next, Operations

\* The lifecycle implements the catalogue that the approval workflow runs on: a
\* published snapshot stays published whatever transition read it before, while a
\* superseded one may still be validated again or published (migration 0062).
THEOREM CatalogueImplemented == Spec => CatalogueSpec
  BY CatalogueInit, CatalogueStep, AlwaysInv, PTL
  DEF Spec, CatalogueSpec, Catalogue!Spec, standing
=============================================================================
