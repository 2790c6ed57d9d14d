--------------------------- MODULE ActionPackage ---------------------------
(***************************************************************************)
(* The AuthorizedActionPackage of an approved action: its identity, its    *)
(* sealed versions and their lifecycle facts.  AuthorizedActionPackage-    *)
(* Repository over the constraints and triggers of migration 0176.         *)
(*                                                                         *)
(* The repository's writers take an advisory lock per package, read, and   *)
(* write; the database guards judge the write by what is committed then.   *)
(* The consumer of a package is no writer of this repository: it inserts   *)
(* its CONSUMED fact under the database guards alone.  The guard reads the *)
(* clock when the row is inserted; the fact is seen when it is committed.  *)
(***************************************************************************)
EXTENDS Integers, Sequences

CONSTANTS
    Packages,    \* packages, one per authorized action
    MaxVersion,  \* bound on the versions of a package
    Docs,        \* what a sealed document may state beyond its identity
    Sessions,    \* concurrent writers
    Consumers,   \* concurrent consumers
    Null,        \* SQL NULL
    MaxTime      \* bound on the database clock

ApprovedStatuses == {"approved", "approved_with_modifications"}
DecisionStatuses == ApprovedStatuses \cup {"draft", "rejected"}

DocType == [mode           : {"HUMAN_APPROVAL", "RULE_AUTHORIZED"},
            decisionStatus : DecisionStatuses \cup {Null},
            expires        : Nat \cup {Null}]

ASSUME PackageAssumption ==
    /\ MaxVersion \in Nat
    /\ MaxTime \in Nat
    /\ Docs \subseteq DocType
    /\ Null \notin Nat \cup Packages \cup Docs \cup DecisionStatuses
    /\ Null \notin Packages \X (1..MaxVersion)

Versions == 1..MaxVersion
Terminal == {"REVOKED", "SUPERSEDED", "EXPIRED", "CONSUMED"}

VARIABLES
    clock,     \* clock_timestamp()
    decision,  \* Packages -> status of the decision behind the action
    headers,   \* packages that have their identity row
    sealed,    \* Packages -> Versions -> stored document
    facts,     \* Packages -> Versions -> lifecycle facts, oldest first
    session,   \* Sessions -> the transaction it holds a package's lock for
    claim      \* Consumers -> the version it has a CONSUMED fact inserted for

vars == <<clock, decision, headers, sealed, facts, session, claim>>

Idle == [op |-> "none", package |-> Null, version |-> 0, doc |-> Null]

Init ==
    /\ clock = 0
    /\ decision = [p \in Packages |-> "draft"]
    /\ headers = {}
    /\ sealed = [p \in Packages |-> [v \in Versions |-> Null]]
    /\ facts = [p \in Packages |-> [v \in Versions |-> <<>>]]
    /\ session = [s \in Sessions |-> Idle]
    /\ claim = [k \in Consumers |-> Null]

Exists(p, v) == v \in Versions /\ sealed[p][v] # Null

HasFact(p, v, states) == \E i \in 1..Len(facts[p][v]) : facts[p][v][i] \in states

\* loadTerminal
IsTerminal(p, v) == HasFact(p, v, Terminal)

PastExpiry(p, v) == sealed[p][v].expires # Null /\ sealed[p][v].expires <= clock

LockFree(p) == \A s \in Sessions : session[s].package # p

-----------------------------------------------------------------------------
Tick ==
    /\ clock < MaxTime
    /\ clock' = clock + 1
    /\ UNCHANGED <<decision, headers, sealed, facts, session, claim>>

\* The approval workflow decides; a decided status is final.
Decide(p) ==
    /\ decision[p] = "draft"
    /\ \E d \in DecisionStatuses \ {"draft"} : decision' = [decision EXCEPT ![p] = d]
    /\ UNCHANGED <<clock, headers, sealed, facts, session, claim>>

\* ensureHeader, under its own lock; asking again changes nothing.
EnsureHeader(p) ==
    /\ p \notin headers
    /\ headers' = headers \cup {p}
    /\ UNCHANGED <<clock, decision, sealed, facts, session, claim>>

Hold(s, op, p, v, doc) ==
    /\ session[s] = Idle
    /\ LockFree(p)
    /\ session' = [session EXCEPT ![s] =
         [op |-> op, package |-> p, version |-> v, doc |-> doc]]
    /\ UNCHANGED <<clock, decision, headers, sealed, facts, claim>>

Release(s) == session' = [session EXCEPT ![s] = Idle]

\* insertVersion up to its replay check; a version that is stored already is
\* returned (same digest) or refused (another one), and nothing is written.
BeginInsert(s, p, v, doc) ==
    /\ ~Exists(p, v)
    /\ Hold(s, "insert", p, v, doc)

\* revoke up to its checks: the version exists and has no terminal fact.
BeginRevoke(s, p, v) ==
    /\ Exists(p, v)
    /\ ~IsTerminal(p, v)
    /\ Hold(s, "revoke", p, v, Null)

\* recordExpiryIfDue up to its checks: expiry applies, is due and not terminal.
BeginExpire(s, p, v) ==
    /\ Exists(p, v)
    /\ ~IsTerminal(p, v)
    /\ PastExpiry(p, v)
    /\ Hold(s, "expire", p, v, Null)

\* The guard looks at the document only (mutant of DecisionVerified).
DocumentSaysApproved(p, doc) ==
    doc.mode = "HUMAN_APPROVAL" => doc.decisionStatus \in ApprovedStatuses

\* A human-approved package needs an approved decision and must state it.
DecisionVerified(p, doc) ==
    doc.mode = "HUMAN_APPROVAL" =>
      decision[p] \in ApprovedStatuses /\ doc.decisionStatus = decision[p]

\* The predecessor only has to exist (mutant of SupersedesAllowed).
SupersedesAny(p, v) == v = 1 \/ Exists(p, v - 1)

\* Version 1 supersedes nothing; version n + 1 supersedes version n, which must
\* be stored and have no terminal fact.
SupersedesAllowed(p, v) == v = 1 \/ (Exists(p, v - 1) /\ ~IsTerminal(p, v - 1))

\* The INSERT of a version with its guards, the ISSUED fact and the SUPERSEDED
\* fact of its predecessor.
InsertVersion(s) ==
    LET p   == session[s].package
        v   == session[s].version
        doc == session[s].doc
    IN
    /\ session[s].op = "insert"
    /\ p \in headers
    /\ DecisionVerified(p, doc)
    /\ SupersedesAllowed(p, v)
    /\ sealed' = [sealed EXCEPT ![p][v] = doc]
    /\ facts' = [facts EXCEPT ![p] =
         [w \in Versions |->
            CASE w = v                -> Append(@[w], "ISSUED")
              [] w = v - 1            -> Append(@[w], "SUPERSEDED")
              [] w \notin {v, v - 1}  -> @[w]]]
    /\ Release(s)
    /\ UNCHANGED <<clock, decision, headers, claim>>

\* Nothing keeps a version from a second terminal fact (mutant of FactUnique).
FactNotUnique(p, v) == TRUE

\* The unique index over terminal facts.
FactUnique(p, v) == ~IsTerminal(p, v)

AddFact(p, v, state) ==
    /\ FactUnique(p, v)
    /\ facts' = [facts EXCEPT ![p][v] = Append(@, state)]

\* The fact is stored under the name of the operation (mutant of FactOf).
FactOfRaw(op) == op

FactOf(op) == IF op = "revoke" THEN "REVOKED" ELSE "EXPIRED"

\* The INSERT of a REVOKED or EXPIRED fact, and the commit.
InsertFact(s) ==
    LET p == session[s].package
        v == session[s].version
    IN
    /\ session[s].op \in {"revoke", "expire"}
    /\ AddFact(p, v, FactOf(session[s].op))
    /\ Release(s)
    /\ UNCHANGED <<clock, decision, headers, sealed, claim>>

\* A guard or an index refuses the write, or the session dies: rolled back.
Abort(s) ==
    /\ session[s] # Idle
    /\ Release(s)
    /\ UNCHANGED <<clock, decision, headers, sealed, facts, claim>>

\* The consumer does not look at the clock (mutant of MayConsume).
MayConsumeExpired(p, v) == Exists(p, v)

MayConsume(p, v) == Exists(p, v) /\ ~PastExpiry(p, v)

\* The consumer inserts its CONSUMED fact; the lifecycle guard lets it pass.
BeginConsume(k, p, v) ==
    /\ claim[k] = Null
    /\ MayConsume(p, v)
    /\ claim' = [claim EXCEPT ![k] = <<p, v>>]
    /\ UNCHANGED <<clock, decision, headers, sealed, facts, session>>

\* The unique index admits the fact, and the consumer commits, however late.
CommitConsume(k, p, v) ==
    /\ claim[k] = <<p, v>>
    /\ AddFact(p, v, "CONSUMED")
    /\ claim' = [claim EXCEPT ![k] = Null]
    /\ UNCHANGED <<clock, decision, headers, sealed, session>>

\* The index refuses the fact, or the consumer gives up or dies.
AbandonConsume(k) ==
    /\ claim[k] # Null
    /\ claim' = [claim EXCEPT ![k] = Null]
    /\ UNCHANGED <<clock, decision, headers, sealed, facts, session>>

Next ==
    \/ Tick
    \/ \E p \in Packages :
         \/ Decide(p)
         \/ EnsureHeader(p)
         \/ \E v \in Versions :
              \/ \E k \in Consumers : BeginConsume(k, p, v) \/ CommitConsume(k, p, v)
              \/ \E s \in Sessions :
                   \/ \E doc \in Docs : BeginInsert(s, p, v, doc)
                   \/ BeginRevoke(s, p, v)
                   \/ BeginExpire(s, p, v)
    \/ \E s \in Sessions : InsertVersion(s) \/ InsertFact(s) \/ Abort(s)
    \/ \E k \in Consumers : AbandonConsume(k)

Spec == Init /\ [][Next]_vars

-----------------------------------------------------------------------------
(* getAuthoritativeStatus                                                   *)

RecordedTerminal(p, v) == CHOOSE f \in Terminal : HasFact(p, v, {f})

Status(p, v) ==
    IF IsTerminal(p, v) THEN RecordedTerminal(p, v)
    ELSE IF PastExpiry(p, v) THEN "EXPIRED" ELSE "ISSUED"

\* The consumers whose CONSUMED fact for the version is not committed yet.
Claimants(p, v) == {k \in Consumers : claim[k] = <<p, v>>}

-----------------------------------------------------------------------------
SessionType ==
    [op : {"none", "insert", "revoke", "expire"}, package : Packages \cup {Null},
     version : Versions \cup {0}, doc : Docs \cup {Null}]

TypeOK ==
    /\ clock \in Nat
    /\ decision \in [Packages -> DecisionStatuses]
    /\ headers \in SUBSET Packages
    /\ sealed \in [Packages -> [Versions -> Docs \cup {Null}]]
    /\ facts \in [Packages -> [Versions -> Seq(Terminal \cup {"ISSUED"})]]
    /\ session \in [Sessions -> SessionType]
    /\ claim \in [Consumers -> (Packages \X Versions) \cup {Null}]

\* A stored version that claims a human approval has a decision that approves,
\* in the status the document states: the decision is verified by the insert,
\* not by what the issuer saw before (version guard of migration 0176).
IssuedOnlyForApproved ==
    \A p \in Packages, v \in Versions :
      Exists(p, v) /\ sealed[p][v].mode = "HUMAN_APPROVAL" =>
        /\ p \in headers
        /\ decision[p] \in ApprovedStatuses
        /\ sealed[p][v].decisionStatus = decision[p]

\* The status the database answers never goes back to ISSUED, and a recorded
\* terminal fact is the answer for ever.  Once EXPIRED is answered no consumer is
\* let in any more, so what is consumed after that was claimed before the expiry,
\* by a consumer that commits late (getAuthoritativeStatus, lifecycle guard).
StatusNeverRevives ==
    [][\A p \in Packages, v \in Versions : Exists(p, v) =>
         /\ Exists(p, v)'
         /\ Status(p, v) # "ISSUED" => Status(p, v)' # "ISSUED"
         /\ IsTerminal(p, v) => Status(p, v)' = Status(p, v)
         /\ Status(p, v) = "EXPIRED" =>
              /\ Claimants(p, v)' \subseteq Claimants(p, v)
              /\ Status(p, v)' = "CONSUMED" => Claimants(p, v) # {}]_vars

\* Each package is a line of versions of which only the last is live and each
\* meets one fate, however revocation, expiry, supersession and consumption
\* race: the facts implement PackageFates.
Fate(p, v) ==
    CASE facts[p][v] = <<"ISSUED">> -> "LIVE"
      [] Len(facts[p][v]) = 2 /\ facts[p][v][1] = "ISSUED" -> facts[p][v][2]
      [] OTHER -> "broken"

Fates == INSTANCE PackageFates
    WITH fates <- [p \in Packages |->
                     [v \in {w \in Versions : Exists(p, w)} |-> Fate(p, v)]]
FatesSpec == Fates!Spec
=============================================================================
