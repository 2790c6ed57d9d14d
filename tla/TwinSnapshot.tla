---------------------------- MODULE TwinSnapshot ----------------------------
(***************************************************************************)
(* The lifecycle of the digital twin snapshots of one business:            *)
(* DigitalTwinSnapshotRepository, the immutability trigger of migration    *)
(* 0062, and the freshness assessment the approval gate rests on.          *)
(*                                                                         *)
(* A transition is one transaction that SELECTs the row without a lock,    *)
(* decides, and then UPDATEs it; another session may commit in between.    *)
(* PostgreSQL hands the trigger the row as it is when the UPDATE runs.     *)
(***************************************************************************)
EXTENDS Integers, Sequences

CONSTANTS
    Snapshots,    \* snapshot ids
    EffectiveAt,  \* Snapshots -> effective_at
    Sessions,     \* concurrent database sessions
    Null          \* no snapshot

ASSUME SnapshotAssumption ==
    /\ EffectiveAt \in [Snapshots -> Nat]
    /\ Null \notin Snapshots

Statuses == {"draft", "validated", "published", "superseded"}

VARIABLES
    status,       \* Snapshots -> "none" or the status of the row
    version,      \* Snapshots -> the status of the snapshot's version row
    validations,  \* snapshots that a committed validation has covered
    session       \* Sessions -> transaction in progress and its snapshot

vars == <<status, version, validations, session>>

Idle == [op |-> "none", snapshot |-> Null]

Init ==
    /\ status = [s \in Snapshots |-> "none"]
    /\ version = [s \in Snapshots |-> "none"]
    /\ validations = {}
    /\ session = [p \in Sessions |-> Idle]

CreateSnapshot(s) ==
    /\ status[s] = "none"
    /\ status' = [status EXCEPT ![s] = "draft"]
    /\ version' = [version EXCEPT ![s] = "draft"]
    /\ UNCHANGED <<validations, session>>

\* Publication accepts whatever has been drafted (mutant of MayStart).
MayStartUnvalidated(op, s) ==
    CASE op = "validate"  -> status[s] # "published"
      [] op = "publish"   -> status[s] # "none"
      [] op = "supersede" -> status[s] # "published"

\* The check each transition makes on the row it has SELECTed.
MayStart(op, s) ==
    CASE op = "validate"  -> status[s] # "published"
      [] op = "publish"   -> status[s] = "validated"
      [] op = "supersede" -> status[s] # "published"

\* The row is set to the name of the operation (mutant of Target).
TargetRaw(op) == op

Target(op) ==
    CASE op = "validate"  -> "validated"
      [] op = "publish"   -> "published"
      [] op = "supersede" -> "superseded"

\* The SELECT and the check; a snapshot that does not exist is NotFound.
Select(p, op, s) ==
    /\ session[p] = Idle
    /\ status[s] # "none"
    /\ MayStart(op, s)
    /\ session' = [session EXCEPT ![p] = [op |-> op, snapshot |-> s]]
    /\ UNCHANGED <<status, version, validations>>

\* The trigger is missing (mutant of TriggerAllows).
TriggerAbsent(s, new) == TRUE

\* enforce_snapshot_immutability
TriggerAllows(s, new) == status[s] = "published" => new = "published"

\* The UPDATEs and the commit; superseding leaves the version row alone.
Update(p) ==
    LET op == session[p].op
        s  == session[p].snapshot
    IN
    /\ op # "none"
    /\ TriggerAllows(s, Target(op))
    /\ status' = [status EXCEPT ![s] = Target(op)]
    /\ version' = IF op = "supersede" THEN version
                  ELSE [version EXCEPT ![s] = Target(op)]
    /\ validations' = IF op = "validate" THEN validations \cup {s} ELSE validations
    /\ session' = [session EXCEPT ![p] = Idle]

\* The trigger raises, or the session dies: the transaction is rolled back.
Rollback(p) ==
    /\ session[p] # Idle
    /\ session' = [session EXCEPT ![p] = Idle]
    /\ UNCHANGED <<status, version, validations>>

Next ==
    \/ \E s \in Snapshots : CreateSnapshot(s)
    \/ \E p \in Sessions, s \in Snapshots, op \in {"validate", "publish", "supersede"} :
         Select(p, op, s)
    \/ \E p \in Sessions : Update(p) \/ Rollback(p)

Spec == Init /\ [][Next]_vars

-----------------------------------------------------------------------------
(* assessFreshness                                                          *)

Counted == {s \in Snapshots : status[s] \in {"published", "superseded"}}

Usable(s) == s \in Counted

Newer(s) == {n \in Counted \ {s} : EffectiveAt[n] > EffectiveAt[s]}

-----------------------------------------------------------------------------
TypeOK ==
    /\ status \in [Snapshots -> Statuses \cup {"none"}]
    /\ version \in [Snapshots -> {"none", "draft", "validated", "published"}]
    /\ validations \in SUBSET Snapshots
    /\ session \in [Sessions -> [op : {"none", "validate", "publish", "supersede"},
                                 snapshot : Snapshots \cup {Null}]]

\* A published snapshot has been validated, and the row and its version agree
\* that it is published, although validate, publish and supersede run
\* concurrently on rows they have not locked (publishSnapshot, trigger 0062).
PublishedIsSound ==
    \A s \in Snapshots :
      /\ status[s] = "published" => s \in validations
      /\ status[s] = "published" <=> version[s] = "published"

\* The standing of the snapshots, as assessFreshness sees it, changes only in the
\* ways of the catalogue: transitions that started before a publication and
\* commit after it take nothing out of what is published.
Standing(s) == IF status[s] \in {"published", "superseded"} THEN status[s] ELSE "unpublished"

Catalogue == INSTANCE TwinCatalog WITH standing <- [s \in Snapshots |-> Standing(s)]
CatalogueSpec == Catalogue!Spec

\* DigitalTwinSnapshotRepository.ts:192-197: a snapshot that was never published
\* is not usable and does not make another one stale.
OnlyPublishedCounts ==
    \A s \in Snapshots :
      /\ Usable(s) => version[s] = "published"
      /\ \A n \in Newer(s) : version[n] = "published"
=============================================================================
