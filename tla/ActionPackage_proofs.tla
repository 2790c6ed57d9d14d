------------------------- MODULE ActionPackage_proofs -------------------------
(* Theorems about ActionPackage, for every value of its constants.          *)
EXTENDS ActionPackage, SequenceTheorems, TLAPS

Ends == {"REVOKED", "EXPIRED", "CONSUMED"}

Issued == <<"ISSUED">>
Closed(f) == <<"ISSUED", f>>

\* The first n versions of p are stored; all before the last are superseded, the
\* last is live or has met one other end, and the rest have no facts.
Line(p, n) ==
    \A v \in Versions :
      /\ Exists(p, v) <=> v <= n
      /\ v < n => facts[p][v] = Closed("SUPERSEDED")
      /\ v = n => facts[p][v] = Issued \/ \E f \in Ends : facts[p][v] = Closed(f)
      /\ v > n => facts[p][v] = <<>>

Lines == \A p \in Packages : \E n \in 0..MaxVersion : Line(p, n)

\* What a transaction that holds a package's lock may rely on.
SessionSound(s) ==
    LET p == session[s].package
        v == session[s].version
    IN
    session[s].op # "none" =>
      /\ p \in Packages /\ v \in Versions
      /\ session[s].op = "insert" => ~Exists(p, v) /\ session[s].doc \in Docs
      /\ session[s].op \in {"revoke", "expire"} => Exists(p, v)
      /\ session[s].op = "expire" => PastExpiry(p, v)

\* Only one of them holds it.
HeldAlone ==
    \A s, t \in Sessions :
      session[s].op # "none" /\ session[t].op # "none"
        /\ session[s].package = session[t].package => s = t

\* What a consumer claims is stored.
ClaimsSound ==
    \A k \in Consumers, p \in Packages, v \in Versions :
      claim[k] = <<p, v>> => Exists(p, v)

Inv ==
    /\ TypeOK
    /\ IssuedOnlyForApproved
    /\ Lines
    /\ \A s \in Sessions : SessionSound(s)
    /\ HeldAlone
    /\ ClaimsSound

LEMMA AppendFirst ==
  ASSUME NEW a
  PROVE  Append(<<>>, a) = <<a>>
<1>1. <<>> \in Seq({a}) /\ <<a>> \in Seq({a}) /\ Len(<<>>) = 0 /\ Len(<<a>>) = 1
  OBVIOUS
<1>2. Append(<<>>, a) \in Seq({a}) /\ Len(Append(<<>>, a)) = 1 /\ Append(<<>>, a)[1] = a
  BY <1>1, AppendProperties
<1>3. \A i \in 1..1 : Append(<<>>, a)[i] = <<a>>[i]
  BY <1>2
<1> QED
  BY <1>1, <1>2, <1>3, SeqEqual

LEMMA AppendSecond ==
  ASSUME NEW a, NEW b
  PROVE  Append(<<a>>, b) = <<a, b>>
<1>1. <<a>> \in Seq({a, b}) /\ <<a, b>> \in Seq({a, b}) /\ Len(<<a>>) = 1 /\ Len(<<a, b>>) = 2
  OBVIOUS
<1>2. /\ Append(<<a>>, b) \in Seq({a, b}) /\ Len(Append(<<a>>, b)) = 2
      /\ Append(<<a>>, b)[1] = a /\ Append(<<a>>, b)[2] = b
  BY <1>1, AppendProperties
<1>3. \A i \in 1..2 : Append(<<a>>, b)[i] = <<a, b>>[i]
  BY <1>2
<1> QED
  BY <1>1, <1>2, <1>3, SeqEqual

\* A claim is no NULL.
LEMMA NullIsNoClaim == \A p \in Packages, v \in Versions : Null # <<p, v>>
<1> SUFFICES ASSUME NEW p \in Packages, NEW v \in Versions, Null = <<p, v>> PROVE FALSE
  OBVIOUS
<1>1. <<p, v>> \in Packages \X (1..MaxVersion)
  BY DEF Versions
<1> QED
  BY <1>1, PackageAssumption

LEMMA InitInv == Init => Inv
<1> SUFFICES ASSUME Init PROVE Inv
  OBVIOUS
<1>1. TypeOK
  BY PackageAssumption DEF Init, TypeOK, SessionType, Idle, DecisionStatuses, ApprovedStatuses
<1>2. IssuedOnlyForApproved
  BY DEF Init, IssuedOnlyForApproved, Exists
<1>3. ASSUME NEW p \in Packages PROVE Line(p, 0)
  BY PackageAssumption DEF Init, Line, Exists, Versions
<1>4. Lines
  <2>1. 0 \in 0..MaxVersion
    BY PackageAssumption
  <2> QED
    BY <1>3, <2>1, Zenon DEF Lines
<1>5. (\A s \in Sessions : SessionSound(s)) /\ HeldAlone
  BY DEF Init, SessionSound, HeldAlone, Idle
<1>6. ClaimsSound
  <2>1. ASSUME NEW k \in Consumers, NEW p \in Packages, NEW v \in Versions PROVE claim[k] # <<p, v>>
    BY NullIsNoClaim DEF Init
  <2> QED
    BY <2>1 DEF ClaimsSound
<1> QED
  BY <1>1, <1>2, <1>4, <1>5, <1>6 DEF Inv

\* A step that leaves the claims alone and stores what was stored.
LEMMA ClaimsStand ==
  ASSUME ClaimsSound, UNCHANGED claim,
         \A p \in Packages, v \in Versions : Exists(p, v) => Exists(p, v)'
  PROVE  ClaimsSound'
  BY DEF ClaimsSound

\* What is past its expiry stays so.
LEMMA ExpiryStays ==
  ASSUME TypeOK, TypeOK', NEW p \in Packages, NEW v \in Versions, Exists(p, v),
         sealed'[p][v] = sealed[p][v], clock <= clock', PastExpiry(p, v)
  PROVE  PastExpiry(p, v)'
<1>1. clock \in Nat /\ clock' \in Nat /\ sealed[p][v] \in DocType
  BY PackageAssumption DEF TypeOK, Exists
<1> QED
  BY <1>1 DEF PastExpiry, DocType

\* A version that is stored and has no terminal fact is the last of its line, and live.
LEMMA LiveIsLast ==
  ASSUME Lines, NEW p \in Packages, NEW v \in Versions, Exists(p, v), ~IsTerminal(p, v)
  PROVE  Line(p, v) /\ facts[p][v] = Issued
<1>1. PICK n \in 0..MaxVersion : Line(p, n)
  BY DEF Lines
<1>2. v <= n /\ v \in Int /\ n \in Int
  BY <1>1, PackageAssumption DEF Line, Versions
<1>3. ASSUME NEW f \in Terminal, facts[p][v] = Closed(f) PROVE FALSE
  <2>1. Len(facts[p][v]) = 2 /\ facts[p][v][2] = f
    BY <1>3 DEF Closed
  <2> QED
    BY <2>1 DEF IsTerminal, HasFact
<1>4. v = n
  BY <1>1, <1>2, <1>3 DEF Line, Terminal
<1>5. facts[p][v] = Issued
  BY <1>1, <1>3, <1>4 DEF Line, Ends, Terminal
<1> QED
  BY <1>1, <1>4, <1>5

\* Closing a live version keeps its line.
LEMMA CloseLine ==
  ASSUME Inv, NEW p \in Packages, NEW v \in Versions, NEW f \in Ends, Exists(p, v),
         AddFact(p, v, f), UNCHANGED sealed
  PROVE  /\ facts[p][v] = Issued
         /\ facts' = [facts EXCEPT ![p][v] = Closed(f)]
         /\ facts' \in [Packages -> [Versions -> Seq(Terminal \cup {"ISSUED"})]]
         /\ Lines' /\ Line(p, v) /\ Line(p, v)'
<1>1. Line(p, v) /\ facts[p][v] = Issued
  BY LiveIsLast DEF Inv, AddFact, FactUnique
<1>2. Append(facts[p][v], f) = Closed(f)
  BY <1>1, AppendSecond DEF Issued, Closed
<1>3. facts' = [facts EXCEPT ![p][v] = Closed(f)]
  BY <1>2 DEF AddFact
<1>4. Closed(f) \in Seq(Terminal \cup {"ISSUED"})
  BY DEF Closed, Ends, Terminal
<1>5. facts' \in [Packages -> [Versions -> Seq(Terminal \cup {"ISSUED"})]]
  BY <1>3, <1>4 DEF Inv, TypeOK
<1>6. Line(p, v)'
  BY <1>1, <1>3 DEF Line, Exists, Inv, TypeOK, Versions
<1>7. ASSUME NEW q \in Packages PROVE \E n \in 0..MaxVersion : Line(q, n)'
  <2>1. CASE q = p
    BY <1>6, <2>1, PackageAssumption DEF Versions
  <2>2. CASE q # p
    <3>1. PICK n \in 0..MaxVersion : Line(q, n)
      BY DEF Inv, Lines
    <3>2. facts'[q] = facts[q]
      BY <1>3, <2>2 DEF Inv, TypeOK
    <3> QED
      BY <3>1, <3>2 DEF Line, Exists
  <2> QED
    BY <2>1, <2>2
<1> QED
  BY <1>1, <1>3, <1>5, <1>6, <1>7 DEF Lines

\* Putting the next version at the end of its line.
LEMMA ExtendLine ==
  ASSUME Inv, NEW s \in Sessions, InsertVersion(s), NEW p, NEW v,
         p = session[s].package, v = session[s].version
  PROVE  /\ p \in Packages /\ v \in Versions /\ ~Exists(p, v) /\ session[s].doc \in Docs
         /\ Line(p, v - 1)
         /\ v > 1 => facts[p][v - 1] = Issued
         /\ sealed' = [sealed EXCEPT ![p][v] = session[s].doc]
         /\ \A w \in Versions :
              facts'[p][w] = IF w = v THEN Issued
                             ELSE IF w = v - 1 THEN Closed("SUPERSEDED") ELSE facts[p][w]
         /\ \A q \in Packages \ {p} : facts'[q] = facts[q]
         /\ facts' \in [Packages -> [Versions -> Seq(Terminal \cup {"ISSUED"})]]
         /\ Lines' /\ Line(p, v)'
<1> DEFINE new == [w \in Versions |->
            CASE w = v                -> Append(facts[p][w], "ISSUED")
              [] w = v - 1            -> Append(facts[p][w], "SUPERSEDED")
              [] w \notin {v, v - 1}  -> facts[p][w]]
<1>1. /\ p \in Packages /\ v \in Versions /\ ~Exists(p, v) /\ session[s].doc \in Docs
      /\ session[s].doc # Null
  BY PackageAssumption DEF Inv, InsertVersion, SessionSound
<1>2. facts' = [facts EXCEPT ![p] = new] /\ sealed' = [sealed EXCEPT ![p][v] = session[s].doc]
  BY DEF InsertVersion
<1>3. PICK n \in 0..MaxVersion : Line(p, n)
  BY <1>1 DEF Inv, Lines
<1>4. n = v - 1 /\ n \in Int /\ v \in Int /\ (v > 1 => facts[p][v - 1] = Issued)
  <2>1. n \in Int /\ v \in Int /\ 1 <= v /\ v <= MaxVersion /\ MaxVersion \in Int /\ n < v
    BY <1>1, <1>3, PackageAssumption DEF Line, Versions
  <2>2. CASE v = 1
    BY <2>1, <2>2
  <2>3. CASE v > 1
    <3>1. v - 1 \in Versions /\ Exists(p, v - 1) /\ ~IsTerminal(p, v - 1)
      BY <2>1, <2>3 DEF InsertVersion, SupersedesAllowed, Versions
    <3>2. facts[p][v - 1] = Issued
      BY <1>1, <3>1, LiveIsLast DEF Inv
    <3>3. v - 1 <= n
      BY <1>3, <3>1 DEF Line
    <3> QED
      BY <2>1, <3>2, <3>3
  <2> QED
    BY <2>1, <2>2, <2>3
<1>5. facts[p][v] = <<>>
  BY <1>1, <1>3, <1>4 DEF Line
<1>6. \A w \in Versions :
        new[w] = IF w = v THEN Issued
                 ELSE IF w = v - 1 THEN Closed("SUPERSEDED") ELSE facts[p][w]
  <2>1. Append(<<>>, "ISSUED") = Issued /\ Append(Issued, "SUPERSEDED") = Closed("SUPERSEDED")
    BY AppendFirst, AppendSecond DEF Issued, Closed
  <2>2. ASSUME NEW w \in Versions, w = v - 1 PROVE facts[p][w] = Issued
    BY <1>4, <2>2, PackageAssumption DEF Versions
  <2>3. v # v - 1
    BY <1>4
  <2> QED
    BY <1>5, <2>1, <2>2, <2>3
<1>7. facts'[p] = new /\ \A q \in Packages \ {p} : facts'[q] = facts[q]
  BY <1>1, <1>2 DEF Inv, TypeOK
<1>8. new \in [Versions -> Seq(Terminal \cup {"ISSUED"})]
  <2>1. Issued \in Seq(Terminal \cup {"ISSUED"}) /\ Closed("SUPERSEDED") \in Seq(Terminal \cup {"ISSUED"})
    BY DEF Issued, Closed, Terminal
  <2>2. \A w \in Versions : facts[p][w] \in Seq(Terminal \cup {"ISSUED"})
    BY <1>1 DEF Inv, TypeOK
  <2>3. \A w \in Versions : new[w] \in Seq(Terminal \cup {"ISSUED"})
    BY <1>6, <2>1, <2>2
  <2> QED
    BY <2>3
<1>9. facts' \in [Packages -> [Versions -> Seq(Terminal \cup {"ISSUED"})]]
  BY <1>1, <1>2, <1>8 DEF Inv, TypeOK
<1>10. Line(p, v)'
  <2> SUFFICES ASSUME NEW w \in Versions
               PROVE  /\ Exists(p, w)' <=> w <= v
                      /\ w < v => facts'[p][w] = Closed("SUPERSEDED")
                      /\ w = v => facts'[p][w] = Issued
                      /\ w > v => facts'[p][w] = <<>>
    BY Zenon DEF Line
  <2>1. w \in Int /\ v \in Int /\ n = v - 1
    BY <1>4, PackageAssumption DEF Versions
  <2>2. Exists(p, w)' <=> Exists(p, w) \/ w = v
    BY <1>1, <1>2 DEF Exists, Inv, TypeOK
  <2>3. /\ Exists(p, w) <=> w <= n
        /\ w < n => facts[p][w] = Closed("SUPERSEDED")
        /\ w > n => facts[p][w] = <<>>
    BY <1>3 DEF Line
  <2>4. facts'[p][w] = IF w = v THEN Issued
                       ELSE IF w = v - 1 THEN Closed("SUPERSEDED") ELSE facts[p][w]
    <3> HIDE DEF new
    <3> QED
      BY <1>6, <1>7
  <2> QED
    BY <2>1, <2>2, <2>3, <2>4
<1>11. ASSUME NEW q \in Packages, q # p PROVE \E m \in 0..MaxVersion : Line(q, m)'
  <2>1. PICK m \in 0..MaxVersion : Line(q, m)
    BY DEF Inv, Lines
  <2>2. facts'[q] = facts[q] /\ sealed'[q] = sealed[q]
    BY <1>1, <1>2, <1>7, <1>11 DEF Inv, TypeOK
  <2> QED
    BY <2>1, <2>2 DEF Line, Exists
<1>12. v \in 0..MaxVersion
  BY <1>1, PackageAssumption DEF Versions
<1>13. Lines'
  BY <1>10, <1>11, <1>12, Zenon DEF Lines
<1> QED
  BY <1>1, <1>2, <1>3, <1>4, <1>6, <1>7, <1>9, <1>10, <1>13

\* Releasing a lock while nothing disappears keeps the other transactions sound.
LEMMA ReleaseKeeps ==
  ASSUME Inv, NEW s \in Sessions, Release(s), sealed' = sealed, clock' = clock
  PROVE  (\A t \in Sessions : SessionSound(t)') /\ HeldAlone' /\ session' \in [Sessions -> SessionType]
<1>1. Idle \in SessionType /\ Idle.op = "none"
  BY DEF Idle, SessionType
<1>2. session' = [session EXCEPT ![s] = Idle] /\ session \in [Sessions -> SessionType]
  BY DEF Release, Inv, TypeOK
<1>3. \A t \in Sessions : SessionSound(t)'
  BY <1>1, <1>2 DEF Inv, SessionSound, Exists, PastExpiry
<1>4. HeldAlone'
  BY <1>1, <1>2 DEF Inv, HeldAlone
<1> QED
  BY <1>1, <1>2, <1>3, <1>4

LEMMA HoldStep ==
  ASSUME Inv, NEW s \in Sessions, NEW p \in Packages, NEW v \in Versions,
         NEW op \in {"insert", "revoke", "expire"}, NEW doc \in Docs \cup {Null},
         Hold(s, op, p, v, doc),
         op = "insert" => ~Exists(p, v) /\ doc \in Docs,
         op \in {"revoke", "expire"} => Exists(p, v),
         op = "expire" => PastExpiry(p, v)
  PROVE  Inv'
<1> DEFINE new == [op |-> op, package |-> p, version |-> v, doc |-> doc]
<1>1. session' = [session EXCEPT ![s] = new] /\ new \in SessionType
  BY DEF Hold, SessionType
<1>2. TypeOK'
  BY <1>1 DEF Hold, Inv, TypeOK
<1>3. IssuedOnlyForApproved' /\ Lines'
  BY DEF Hold, Inv, IssuedOnlyForApproved, Lines, Line, Exists
<1>4. session'[s] = new /\ \A t \in Sessions \ {s} : session'[t] = session[t]
  BY <1>1 DEF Inv, TypeOK
<1>5. ASSUME NEW t \in Sessions PROVE SessionSound(t)'
  BY <1>4 DEF Hold, Inv, SessionSound, Exists, PastExpiry
<1>6. HeldAlone'
  BY <1>4 DEF Hold, LockFree, Inv, HeldAlone
<1>7. ClaimsSound'
  BY ClaimsStand DEF Hold, Inv, Exists
<1> QED
  BY <1>2, <1>3, <1>5, <1>6, <1>7 DEF Inv

LEMMA BeginStep ==
  ASSUME Inv, NEW s \in Sessions, NEW p \in Packages, NEW v \in Versions,
         \/ \E doc \in Docs : BeginInsert(s, p, v, doc)
         \/ BeginRevoke(s, p, v)
         \/ BeginExpire(s, p, v)
  PROVE  Inv'
<1>1. ASSUME NEW doc \in Docs, BeginInsert(s, p, v, doc) PROVE Inv'
  BY <1>1, HoldStep DEF BeginInsert
<1>2. CASE BeginRevoke(s, p, v)
  BY <1>2, HoldStep DEF BeginRevoke
<1>3. CASE BeginExpire(s, p, v)
  BY <1>3, HoldStep DEF BeginExpire
<1> QED
  BY <1>1, <1>2, <1>3

LEMMA TickStep ==
  ASSUME Inv, Tick
  PROVE  Inv'
<1>1. TypeOK' /\ clock <= clock'
  BY DEF Tick, Inv, TypeOK
<1>2. IssuedOnlyForApproved' /\ Lines' /\ HeldAlone' /\ ClaimsSound'
  BY DEF Tick, Inv, IssuedOnlyForApproved, Lines, Line, HeldAlone, ClaimsSound, Exists
<1>3. ASSUME NEW s \in Sessions PROVE SessionSound(s)'
  <2>1. PICK p, v : p = session[s].package /\ v = session[s].version
    OBVIOUS
  <2>2. session[s].op = "expire" => PastExpiry(p, v)'
    BY <1>1, <2>1, ExpiryStays DEF Tick, Inv, SessionSound
  <2> QED
    BY <2>1, <2>2 DEF Tick, Inv, SessionSound, Exists, PastExpiry
<1> QED
  BY <1>1, <1>2, <1>3 DEF Inv

LEMMA DecideStep ==
  ASSUME Inv, NEW p \in Packages, Decide(p)
  PROVE  Inv'
<1>1. TypeOK'
  BY DEF Decide, Inv, TypeOK
<1>2. IssuedOnlyForApproved'
  BY DEF Decide, Inv, TypeOK, IssuedOnlyForApproved, Exists, ApprovedStatuses
<1>3. Lines' /\ (\A s \in Sessions : SessionSound(s)') /\ HeldAlone' /\ ClaimsSound'
  BY DEF Decide, Inv, Lines, Line, SessionSound, HeldAlone, ClaimsSound, Exists, PastExpiry
<1> QED
  BY <1>1, <1>2, <1>3 DEF Inv

LEMMA EnsureHeaderStep ==
  ASSUME Inv, NEW p \in Packages, EnsureHeader(p)
  PROVE  Inv'
BY DEF EnsureHeader, Inv, TypeOK, IssuedOnlyForApproved, Lines, Line, SessionSound,
   HeldAlone, ClaimsSound, Exists, PastExpiry

LEMMA AbortStep ==
  ASSUME Inv, NEW s \in Sessions, Abort(s)
  PROVE  Inv'
<1>1. /\ \A t \in Sessions : SessionSound(t)'
      /\ HeldAlone' /\ session' \in [Sessions -> SessionType]
  BY ReleaseKeeps DEF Abort
<1>2. TypeOK' /\ IssuedOnlyForApproved' /\ Lines' /\ ClaimsSound'
  BY <1>1 DEF Abort, Inv, TypeOK, IssuedOnlyForApproved, Lines, Line, ClaimsSound, Exists
<1> QED
  BY <1>1, <1>2 DEF Inv

LEMMA InsertFactStep ==
  ASSUME Inv, NEW s \in Sessions, InsertFact(s)
  PROVE  Inv'
<1>1. PICK p, v : p = session[s].package /\ v = session[s].version
  OBVIOUS
<1>2. p \in Packages /\ v \in Versions /\ Exists(p, v)
  BY <1>1 DEF Inv, SessionSound, InsertFact
<1>3. FactOf(session[s].op) \in Ends
  BY DEF FactOf, Ends
<1>4. Lines' /\ facts' \in [Packages -> [Versions -> Seq(Terminal \cup {"ISSUED"})]]
  BY <1>1, <1>2, <1>3, CloseLine DEF InsertFact
<1>5. /\ \A t \in Sessions : SessionSound(t)'
      /\ HeldAlone' /\ session' \in [Sessions -> SessionType]
  BY ReleaseKeeps DEF InsertFact
<1>6. TypeOK' /\ IssuedOnlyForApproved' /\ ClaimsSound'
  BY <1>4, <1>5 DEF InsertFact, Inv, TypeOK, IssuedOnlyForApproved, ClaimsSound, Exists
<1> QED
  BY <1>4, <1>5, <1>6 DEF Inv

LEMMA ReleasedClaims ==
  ASSUME Inv, NEW k \in Consumers, claim' = [claim EXCEPT ![k] = Null], UNCHANGED sealed
  PROVE  ClaimsSound'
<1> SUFFICES ASSUME NEW j \in Consumers, NEW q \in Packages, NEW w \in Versions,
                    claim'[j] = <<q, w>>
             PROVE  Exists(q, w)'
  BY DEF ClaimsSound
<1>1. j # k
  BY NullIsNoClaim DEF Inv, TypeOK
<1>2. claim[j] = <<q, w>>
  BY <1>1 DEF Inv, TypeOK
<1> QED
  BY <1>2 DEF Inv, ClaimsSound, Exists

LEMMA BeginConsumeStep ==
  ASSUME Inv, NEW k \in Consumers, NEW p \in Packages, NEW v \in Versions,
         BeginConsume(k, p, v)
  PROVE  Inv'
<1>1. claim' = [claim EXCEPT ![k] = <<p, v>>] /\ Exists(p, v)
  BY DEF BeginConsume, MayConsume
<1>2. TypeOK'
  BY <1>1 DEF BeginConsume, Inv, TypeOK
<1>3. IssuedOnlyForApproved' /\ Lines' /\ (\A s \in Sessions : SessionSound(s)') /\ HeldAlone'
  BY DEF BeginConsume, Inv, IssuedOnlyForApproved, Lines, Line, SessionSound, HeldAlone,
     Exists, PastExpiry
<1>4. ClaimsSound'
  <2> SUFFICES ASSUME NEW j \in Consumers, NEW q \in Packages, NEW w \in Versions,
                      claim'[j] = <<q, w>>
               PROVE  Exists(q, w)'
    BY DEF ClaimsSound
  <2>1. claim[j] = <<q, w>> \/ <<q, w>> = <<p, v>>
    BY <1>1 DEF Inv, TypeOK
  <2>2. Exists(q, w)
    BY <1>1, <2>1 DEF Inv, ClaimsSound
  <2> QED
    BY <2>2 DEF BeginConsume, Exists
<1> QED
  BY <1>2, <1>3, <1>4 DEF Inv

LEMMA ConsumeStep ==
  ASSUME Inv, NEW k \in Consumers, NEW p \in Packages, NEW v \in Versions,
         CommitConsume(k, p, v)
  PROVE  Inv'
<1>1. Exists(p, v)
  BY DEF CommitConsume, Inv, ClaimsSound
<1>2. Lines' /\ facts' \in [Packages -> [Versions -> Seq(Terminal \cup {"ISSUED"})]]
  BY <1>1, CloseLine DEF CommitConsume, Ends
<1>3. TypeOK' /\ IssuedOnlyForApproved'
  BY <1>2 DEF CommitConsume, Inv, TypeOK, IssuedOnlyForApproved, Exists
<1>4. (\A s \in Sessions : SessionSound(s)') /\ HeldAlone'
  BY DEF CommitConsume, Inv, SessionSound, HeldAlone, Exists, PastExpiry
<1>5. ClaimsSound'
  BY ReleasedClaims DEF CommitConsume
<1> QED
  BY <1>2, <1>3, <1>4, <1>5 DEF Inv

LEMMA AbandonStep ==
  ASSUME Inv, NEW k \in Consumers, AbandonConsume(k)
  PROVE  Inv'
<1>1. TypeOK'
  BY DEF AbandonConsume, Inv, TypeOK
<1>2. IssuedOnlyForApproved' /\ Lines' /\ (\A s \in Sessions : SessionSound(s)') /\ HeldAlone'
  BY DEF AbandonConsume, Inv, IssuedOnlyForApproved, Lines, Line, SessionSound, HeldAlone,
     Exists, PastExpiry
<1>3. ClaimsSound'
  BY ReleasedClaims DEF AbandonConsume
<1> QED
  BY <1>1, <1>2, <1>3 DEF Inv

LEMMA InsertVersionStep ==
  ASSUME Inv, NEW s \in Sessions, InsertVersion(s)
  PROVE  Inv'
<1>1. PICK p, v : p = session[s].package /\ v = session[s].version
  OBVIOUS
<1>2. /\ p \in Packages /\ v \in Versions /\ ~Exists(p, v) /\ session[s].doc \in Docs
      /\ sealed' = [sealed EXCEPT ![p][v] = session[s].doc]
      /\ facts' \in [Packages -> [Versions -> Seq(Terminal \cup {"ISSUED"})]]
      /\ Lines'
  BY <1>1, ExtendLine
<1>3. /\ session' = [session EXCEPT ![s] = Idle]
      /\ UNCHANGED <<clock, decision, headers, claim>>
      /\ p \in headers /\ DecisionVerified(p, session[s].doc)
  BY <1>1 DEF InsertVersion, Release
<1>4. TypeOK'
  BY <1>2, <1>3 DEF Inv, TypeOK, Idle, SessionType
<1>5. IssuedOnlyForApproved'
  BY <1>2, <1>3 DEF Inv, TypeOK, IssuedOnlyForApproved, Exists, DecisionVerified
<1>6. ASSUME NEW t \in Sessions PROVE SessionSound(t)'
  <2>1. CASE t = s
    BY <1>3, <2>1 DEF Inv, TypeOK, SessionSound, Idle
  <2>2. CASE t # s
    <3>1. session'[t] = session[t] /\ SessionSound(t)
      BY <1>3, <2>2 DEF Inv, TypeOK
    <3>2. session[t].op # "none" => session[t].package # p
      BY <1>1, <2>2 DEF Inv, HeldAlone, InsertVersion
    <3>3. \A q \in Packages \ {p} : sealed'[q] = sealed[q]
      BY <1>2 DEF Inv, TypeOK
    <3> QED
      BY <1>3, <3>1, <3>2, <3>3 DEF SessionSound, Exists, PastExpiry
  <2> QED
    BY <2>1, <2>2
<1>7. HeldAlone'
  BY <1>3 DEF Inv, TypeOK, HeldAlone, Idle
<1>8. ClaimsSound'
  <2>1. \A q \in Packages, w \in Versions : Exists(q, w) => Exists(q, w)'
    BY <1>2, PackageAssumption DEF Inv, TypeOK, Exists
  <2> QED
    BY <1>3, <2>1, ClaimsStand DEF Inv
<1> QED
  BY <1>2, <1>4, <1>5, <1>6, <1>7, <1>8 DEF Inv

LEMMA NextInv == Inv /\ [Next]_vars => Inv'
<1> SUFFICES ASSUME Inv, [Next]_vars PROVE Inv'
  OBVIOUS
<1>1. CASE UNCHANGED vars
  <2>1. TypeOK' /\ IssuedOnlyForApproved'
    BY <1>1 DEF vars, Inv, TypeOK, IssuedOnlyForApproved, Exists
  <2>2. Lines'
    BY <1>1 DEF vars, Inv, Lines, Line, Exists
  <2>3. (\A s \in Sessions : SessionSound(s)') /\ HeldAlone' /\ ClaimsSound'
    BY <1>1 DEF vars, Inv, SessionSound, HeldAlone, ClaimsSound, Exists, PastExpiry
  <2> QED
    BY <2>1, <2>2, <2>3 DEF Inv
<1>2. CASE Tick
  BY <1>2, TickStep
<1>3. ASSUME NEW p \in Packages, Decide(p) \/ EnsureHeader(p) PROVE Inv'
  BY <1>3, DecideStep, EnsureHeaderStep
<1>4. ASSUME NEW p \in Packages, NEW v \in Versions, NEW k \in Consumers,
             BeginConsume(k, p, v) \/ CommitConsume(k, p, v)
      PROVE  Inv'
  BY <1>4, BeginConsumeStep, ConsumeStep
<1>5. ASSUME NEW p \in Packages, NEW v \in Versions, NEW s \in Sessions,
             \/ \E doc \in Docs : BeginInsert(s, p, v, doc)
             \/ BeginRevoke(s, p, v)
             \/ BeginExpire(s, p, v)
      PROVE  Inv'
  BY <1>5, BeginStep
<1>6. ASSUME NEW s \in Sessions, InsertVersion(s) \/ InsertFact(s) \/ Abort(s) PROVE Inv'
  BY <1>6, InsertVersionStep, InsertFactStep, AbortStep
<1>7. ASSUME NEW k \in Consumers, AbandonConsume(k) PROVE Inv'
  BY <1>7, AbandonStep
<1> QED
  BY <1>1, <1>2, <1>3, <1>4, <1>5, <1>6, <1>7 DEF Next

\* What a step may do to a version that is stored.
Stays(p, v) ==
    /\ sealed'[p][v] = sealed[p][v]
    /\ clock' >= clock
    /\ \/ facts'[p][v] = facts[p][v]
       \/ /\ facts[p][v] = Issued
          /\ \E f \in Terminal : /\ facts'[p][v] = Closed(f)
                                 /\ f = "CONSUMED" => Claimants(p, v) # {}
                                 /\ f = "EXPIRED" => PastExpiry(p, v)

LEMMA StoredStays ==
  ASSUME Inv, [Next]_vars, NEW p \in Packages, NEW v \in Versions, Exists(p, v)
  PROVE  Stays(p, v)
<1>0. clock \in Nat /\ clock >= clock
  BY DEF Inv, TypeOK
<1>1. CASE UNCHANGED <<sealed, facts>> /\ clock' \in {clock, clock + 1}
  BY <1>0, <1>1 DEF Stays
<1>2. ASSUME NEW q \in Packages, NEW w \in Versions, NEW k \in Consumers,
             CommitConsume(k, q, w)
      PROVE  Stays(p, v)
  <2>0. Exists(q, w) /\ k \in Claimants(q, w)
    BY <1>2 DEF CommitConsume, Inv, ClaimsSound, Claimants
  <2>1. /\ facts[q][w] = Issued /\ facts' = [facts EXCEPT ![q][w] = Closed("CONSUMED")]
        /\ Claimants(q, w) # {} /\ UNCHANGED <<sealed, clock>>
    BY <1>2, <2>0, CloseLine DEF CommitConsume, Ends
  <2> QED
    BY <1>0, <2>1 DEF Stays, Inv, TypeOK, Terminal
<1>3. ASSUME NEW s \in Sessions, InsertFact(s) PROVE Stays(p, v)
  <2>1. PICK q, w : q = session[s].package /\ w = session[s].version
    OBVIOUS
  <2>2. q \in Packages /\ w \in Versions /\ Exists(q, w)
    BY <1>3, <2>1 DEF Inv, SessionSound, InsertFact
  <2>3. PICK f \in {"REVOKED", "EXPIRED"} : f = FactOf(session[s].op)
    BY DEF FactOf
  <2>6. f = "EXPIRED" => PastExpiry(q, w)
    BY <1>3, <2>1, <2>3 DEF InsertFact, FactOf, Inv, SessionSound
  <2>4. AddFact(q, w, f) /\ UNCHANGED sealed /\ clock' = clock /\ f \in Ends
    BY <1>3, <2>1, <2>3 DEF InsertFact, Ends
  <2>5. facts[q][w] = Issued /\ facts' = [facts EXCEPT ![q][w] = Closed(f)]
    BY <2>2, <2>4, CloseLine
  <2> QED
    BY <1>0, <2>4, <2>5, <2>6 DEF Stays, Inv, TypeOK, Terminal
<1>4. ASSUME NEW s \in Sessions, InsertVersion(s) PROVE Stays(p, v)
  <2>1. PICK q, w : q = session[s].package /\ w = session[s].version
    OBVIOUS
  <2>2. /\ q \in Packages /\ w \in Versions /\ ~Exists(q, w)
        /\ w > 1 => facts[q][w - 1] = Issued
        /\ sealed' = [sealed EXCEPT ![q][w] = session[s].doc]
        /\ \A x \in Versions :
             facts'[q][x] = IF x = w THEN Issued
                            ELSE IF x = w - 1 THEN Closed("SUPERSEDED") ELSE facts[q][x]
        /\ \A r \in Packages \ {q} : facts'[r] = facts[r]
    <3>1. sealed' = [sealed EXCEPT ![q][w] = session[s].doc]
      BY <1>4, <2>1 DEF InsertVersion
    <3> QED
      BY <1>4, <2>1, <3>1, ExtendLine
  <2>3. clock' = clock /\ sealed'[p][v] = sealed[p][v] /\ (p = q => v # w)
    BY <1>4, <2>2 DEF InsertVersion, Inv, TypeOK
  <2>4. CASE p = q /\ v = w - 1
    <3>1. w > 1
      BY <2>2, <2>4, PackageAssumption DEF Versions
    <3> QED
      BY <1>0, <2>2, <2>3, <2>4, <3>1 DEF Stays, Terminal
  <2>5. CASE ~(p = q /\ v = w - 1)
    BY <1>0, <2>2, <2>3, <2>5 DEF Stays
  <2> QED
    BY <2>4, <2>5
<1>5. CASE UNCHANGED vars \/ Tick \/ \E q \in Packages : Decide(q) \/ EnsureHeader(q)
  BY <1>0, <1>1, <1>5 DEF vars, Tick, Decide, EnsureHeader
<1>6. ASSUME NEW q \in Packages, NEW w \in Versions, NEW s \in Sessions,
             \/ \E doc \in Docs : BeginInsert(s, q, w, doc)
             \/ BeginRevoke(s, q, w)
             \/ BeginExpire(s, q, w)
      PROVE  Stays(p, v)
  BY <1>1, <1>6 DEF BeginInsert, BeginRevoke, BeginExpire, Hold
<1>7. ASSUME NEW s \in Sessions, Abort(s) PROVE Stays(p, v)
  BY <1>1, <1>7 DEF Abort
<1>8. ASSUME NEW k \in Consumers, NEW q \in Packages, NEW w \in Versions,
             BeginConsume(k, q, w) \/ AbandonConsume(k)
      PROVE  Stays(p, v)
  BY <1>1, <1>8 DEF BeginConsume, AbandonConsume
<1>9. ASSUME NEW k \in Consumers, AbandonConsume(k) PROVE Stays(p, v)
  BY <1>1, <1>9 DEF AbandonConsume
<1> QED
  BY <1>2, <1>3, <1>4, <1>5, <1>6, <1>7, <1>8, <1>9 DEF Next

\* Nobody is let in once a version is past its expiry.
LEMMA NobodyComesLate ==
  ASSUME Inv, [Next]_vars, NEW p \in Packages, NEW v \in Versions, PastExpiry(p, v)
  PROVE  Claimants(p, v)' \subseteq Claimants(p, v)
<1> SUFFICES ASSUME NEW j \in Consumers, claim'[j] = <<p, v>> PROVE claim[j] = <<p, v>>
  BY DEF Claimants
<1>1. CASE UNCHANGED claim
  BY <1>1
<1>2. ASSUME NEW k \in Consumers, claim' = [claim EXCEPT ![k] = Null] PROVE claim[j] = <<p, v>>
  BY <1>2, NullIsNoClaim DEF Inv, TypeOK
<1>3. ASSUME NEW k \in Consumers, NEW q \in Packages, NEW w \in Versions, BeginConsume(k, q, w)
      PROVE  claim[j] = <<p, v>>
  <2>1. <<q, w>> # <<p, v>>
    BY <1>3 DEF BeginConsume, MayConsume
  <2>2. claim'[j] = IF j = k THEN <<q, w>> ELSE claim[j]
    BY <1>3 DEF BeginConsume, Inv, TypeOK
  <2> QED
    BY <2>1, <2>2
<1>4. ASSUME NEW k \in Consumers, AbandonConsume(k) PROVE claim[j] = <<p, v>>
  BY <1>2, <1>4 DEF AbandonConsume
<1>5. ASSUME NEW k \in Consumers, NEW q \in Packages, NEW w \in Versions, CommitConsume(k, q, w)
      PROVE  claim[j] = <<p, v>>
  BY <1>2, <1>5 DEF CommitConsume
<1>6. CASE UNCHANGED vars \/ Tick \/ \E q \in Packages : Decide(q) \/ EnsureHeader(q)
  BY <1>1, <1>6 DEF vars, Tick, Decide, EnsureHeader
<1>7. ASSUME NEW q \in Packages, NEW w \in Versions, NEW s \in Sessions,
             \/ \E doc \in Docs : BeginInsert(s, q, w, doc)
             \/ BeginRevoke(s, q, w)
             \/ BeginExpire(s, q, w)
      PROVE  claim[j] = <<p, v>>
  BY <1>1, <1>7 DEF BeginInsert, BeginRevoke, BeginExpire, Hold
<1>8. ASSUME NEW s \in Sessions, InsertVersion(s) \/ InsertFact(s) \/ Abort(s)
      PROVE  claim[j] = <<p, v>>
  BY <1>1, <1>8 DEF InsertVersion, InsertFact, Abort
<1> QED
  BY <1>3, <1>4, <1>5, <1>6, <1>7, <1>8 DEF Next

\* A recorded expiry was due.
Due ==
    \A p \in Packages, v \in Versions :
      Exists(p, v) /\ facts[p][v] = Closed("EXPIRED") => PastExpiry(p, v)

LEMMA NextDue == Inv /\ Inv' /\ Due /\ [Next]_vars => Due'
<1> SUFFICES ASSUME Inv, Inv', Due, [Next]_vars, NEW p \in Packages, NEW v \in Versions,
                    Exists(p, v)', facts'[p][v] = Closed("EXPIRED")
             PROVE  PastExpiry(p, v)'
  BY DEF Due
<1>1. CASE Exists(p, v)
  <2>1. Stays(p, v)
    BY <1>1, StoredStays
  <2>2. PastExpiry(p, v)
    <3>1. Closed("EXPIRED") # Issued /\ \A f \in Terminal : Closed(f) = Closed("EXPIRED") => f = "EXPIRED"
      BY DEF Closed, Issued
    <3> QED
      BY <1>1, <2>1, <3>1 DEF Stays, Due
  <2>3. clock <= clock' /\ sealed'[p][v] = sealed[p][v]
    BY <2>1 DEF Stays, Inv, TypeOK
  <2> QED
    BY <1>1, <2>2, <2>3, ExpiryStays DEF Inv
<1>2. CASE ~Exists(p, v)
  <2>1. PICK s \in Sessions : InsertVersion(s) /\ session[s].package = p /\ session[s].version = v
    <3>1. ASSUME NEW s \in Sessions, InsertVersion(s)
          PROVE  session[s].package = p /\ session[s].version = v
      <4>1. sealed' = [sealed EXCEPT ![session[s].package][session[s].version] = session[s].doc]
        BY <3>1 DEF InsertVersion
      <4> QED
        BY <1>2, <4>1 DEF Inv, TypeOK, Exists
    <3>2. ASSUME UNCHANGED sealed PROVE FALSE
      BY <1>2, <3>2 DEF Exists
    <3>3. ASSUME \A s \in Sessions : ~InsertVersion(s) PROVE UNCHANGED sealed
      BY <3>3 DEF Next, vars, Tick, Decide, EnsureHeader, BeginInsert, BeginRevoke,
         BeginExpire, Hold, InsertFact, Abort, BeginConsume, CommitConsume, AbandonConsume
    <3> QED
      BY <3>1, <3>2, <3>3
  <2>2. facts'[p][v] = Issued
    BY <2>1, ExtendLine
  <2> QED
    BY <2>2 DEF Issued, Closed
<1> QED
  BY <1>1, <1>2

LEMMA InitDue == Init => Due
  BY DEF Init, Due, Exists

\* The facts of a stored version say which status it has.
Answers(p, v) ==
    /\ facts[p][v] = Issued \/ \E f \in Terminal : facts[p][v] = Closed(f)
    /\ facts[p][v] = Issued => ~IsTerminal(p, v)
    /\ \A f \in Terminal : facts[p][v] = Closed(f) => IsTerminal(p, v) /\ Status(p, v) = f

LEMMA StatusIs == Inv => \A p \in Packages, v \in Versions : Exists(p, v) => Answers(p, v)
<1> SUFFICES ASSUME Inv, NEW p \in Packages, NEW v \in Versions, Exists(p, v)
             PROVE  Answers(p, v)
  OBVIOUS
<1>1. facts[p][v] = Issued \/ \E f \in Terminal : facts[p][v] = Closed(f)
  <2>1. PICK n \in 0..MaxVersion : Line(p, n)
    BY DEF Inv, Lines
  <2>2. v <= n /\ v \in Int /\ n \in Int
    BY <2>1, PackageAssumption DEF Line, Versions
  <2> QED
    BY <2>1, <2>2 DEF Line, Ends, Terminal
<1>2. ASSUME facts[p][v] = Issued PROVE ~IsTerminal(p, v)
  BY <1>2 DEF Issued, IsTerminal, HasFact, Terminal
<1>3. ASSUME NEW f \in Terminal, facts[p][v] = Closed(f)
      PROVE  IsTerminal(p, v) /\ Status(p, v) = f
  <2>1. /\ Len(facts[p][v]) = 2 /\ facts[p][v][1] = "ISSUED" /\ facts[p][v][2] = f
        /\ 1..Len(facts[p][v]) = {1, 2}
    BY <1>3 DEF Closed
  <2>2. IsTerminal(p, v)
    BY <2>1 DEF IsTerminal, HasFact
  <2>3. \A g \in Terminal : HasFact(p, v, {g}) <=> g = f
    BY <2>1 DEF HasFact, Terminal
  <2>4. RecordedTerminal(p, v) = f
    <3> HIDE DEF HasFact, Terminal
    <3> QED
      BY <2>3, Zenon DEF RecordedTerminal
  <2> QED
    BY <2>2, <2>4 DEF Status
<1> QED
  BY <1>1, <1>2, <1>3 DEF Answers

LEMMA StatusIsNext == Inv' => (\A p \in Packages, v \in Versions : Exists(p, v) => Answers(p, v))'
BY StatusIs, PTL

LEMMA InvAlways == Spec => []Inv
BY InitInv, NextInv, PTL DEF Spec

\* Documents, facts and transactions keep to their values, for any number of
\* packages, versions and writers.
THEOREM TypeCorrect == Spec => []TypeOK
<1>1. Inv => TypeOK
  BY DEF Inv
<1> QED
  BY <1>1, InvAlways, PTL

\* A stored version that claims a human approval has one (version guard of
\* migration 0176).
THEOREM IssuedForApproved == Spec => []IssuedOnlyForApproved
<1>1. Inv => IssuedOnlyForApproved
  BY DEF Inv
<1> QED
  BY <1>1, InvAlways, PTL

\* The answer about a stored version never goes back to ISSUED, and a recorded
\* terminal fact is the answer for ever.  Once it is EXPIRED no consumer is let in,
\* and only one that was let in before can still make it CONSUMED
\* (getAuthoritativeStatus, lifecycle guard).
THEOREM NeverRevives == Spec => StatusNeverRevives
<1>1. ASSUME Inv, Inv', Due, [Next]_vars, NEW p \in Packages, NEW v \in Versions, Exists(p, v)
      PROVE  /\ Exists(p, v)'
             /\ Status(p, v) # "ISSUED" => Status(p, v)' # "ISSUED"
             /\ IsTerminal(p, v) => Status(p, v)' = Status(p, v)
             /\ Status(p, v) = "EXPIRED" =>
                  /\ Claimants(p, v)' \subseteq Claimants(p, v)
                  /\ Status(p, v)' = "CONSUMED" => Claimants(p, v) # {}
  <2>1. Stays(p, v)
    BY <1>1, StoredStays
  <2>2. Exists(p, v)'
    BY <1>1, <2>1 DEF Stays, Exists
  <2>3. PastExpiry(p, v) => PastExpiry(p, v)'
    <3>1. clock <= clock'
      BY <1>1, <2>1 DEF Stays, Inv, TypeOK
    <3> QED
      BY <1>1, <2>1, <3>1, ExpiryStays DEF Stays, Inv
  <2>4. Answers(p, v) /\ Answers(p, v)'
    BY <1>1, <2>2, StatusIs, StatusIsNext
  <2>5. CASE \E f \in Terminal : facts[p][v] = Closed(f)
    <3>1. PICK f \in Terminal : facts[p][v] = Closed(f)
      BY <2>5
    <3>2. facts'[p][v] = Closed(f)
      BY <2>1, <3>1 DEF Stays, Issued, Closed
    <3>3. Status(p, v) = f /\ Status(p, v)' = f
      BY <2>4, <3>1, <3>2 DEF Answers
    <3>4. f = "EXPIRED" => Claimants(p, v)' \subseteq Claimants(p, v)
      BY <1>1, <3>1, NobodyComesLate DEF Due
    <3>5. f # "ISSUED"
      BY DEF Terminal
    <3> QED
      BY <2>2, <3>3, <3>4, <3>5
  <2>6. CASE facts[p][v] = Issued
    <3>1. ~IsTerminal(p, v)
      BY <2>4, <2>6 DEF Answers
    <3>4. Status(p, v) = "EXPIRED" => Claimants(p, v)' \subseteq Claimants(p, v)
      <4>1. Status(p, v) = "EXPIRED" => PastExpiry(p, v)
        BY <3>1 DEF Status
      <4> QED
        BY <1>1, <4>1, NobodyComesLate
    <3>2. CASE facts'[p][v] = Issued
      <4>1. ~IsTerminal(p, v)'
        BY <2>4, <3>2 DEF Answers
      <4> QED
        BY <2>2, <2>3, <3>1, <3>4, <4>1 DEF Status
    <3>3. ASSUME NEW f \in Terminal, facts'[p][v] = Closed(f),
                 f = "CONSUMED" => Claimants(p, v) # {}
          PROVE  /\ Status(p, v) # "ISSUED" => Status(p, v)' # "ISSUED"
                 /\ Status(p, v)' = "CONSUMED" => Claimants(p, v) # {}
      <4>1. Status(p, v)' = f
        BY <2>4, <3>3 DEF Answers
      <4> QED
        BY <3>1, <3>3, <4>1 DEF Status, Terminal
    <3> QED
      BY <2>1, <2>2, <2>6, <3>1, <3>2, <3>3, <3>4 DEF Stays
  <2> QED
    BY <2>4, <2>5, <2>6 DEF Answers
<1>2. Inv /\ Inv' /\ Due /\ [Next]_vars =>
        [\A p \in Packages, v \in Versions : Exists(p, v) =>
           /\ Exists(p, v)'
           /\ Status(p, v) # "ISSUED" => Status(p, v)' # "ISSUED"
           /\ IsTerminal(p, v) => Status(p, v)' = Status(p, v)
           /\ Status(p, v) = "EXPIRED" =>
                /\ Claimants(p, v)' \subseteq Claimants(p, v)
                /\ Status(p, v)' = "CONSUMED" => Claimants(p, v) # {}]_vars
  BY <1>1
<1> QED
  BY <1>2, InvAlways, InitDue, NextDue, PTL DEF Spec, StatusNeverRevives

-----------------------------------------------------------------------------
(* The facts implement PackageFates.                                        *)

FateNames == Terminal \cup {"LIVE"}

\* The abstract fates of a package, and of all of them.
FatesOf(p) == [v \in {w \in Versions : Exists(p, w)} |-> Fate(p, v)]
AllFates == [p \in Packages |-> FatesOf(p)]

\* What a line of n versions looks like to PackageFates.
Reads(p, n) ==
    /\ FatesOf(p) \in Seq(FateNames) /\ Len(FatesOf(p)) = n
    /\ \A v \in 1..n :
         /\ v < n => FatesOf(p)[v] = "SUPERSEDED"
         /\ facts[p][v] = Issued => FatesOf(p)[v] = "LIVE"
         /\ \A f \in Terminal : facts[p][v] = Closed(f) => FatesOf(p)[v] = f

LEMMA FateIs ==
  ASSUME NEW p \in Packages, NEW v \in Versions
  PROVE  /\ facts[p][v] = Issued => Fate(p, v) = "LIVE"
         /\ \A f \in Terminal : facts[p][v] = Closed(f) => Fate(p, v) = f
<1>1. ASSUME facts[p][v] = Issued PROVE Fate(p, v) = "LIVE"
  BY <1>1 DEF Fate, Issued
<1>2. ASSUME NEW f \in Terminal, facts[p][v] = Closed(f) PROVE Fate(p, v) = f
  <2>1. /\ Len(facts[p][v]) = 2 /\ facts[p][v][1] = "ISSUED" /\ facts[p][v][2] = f
        /\ facts[p][v] # <<"ISSUED">>
    BY <1>2 DEF Closed
  <2> QED
    BY <2>1 DEF Fate
<1> QED
  BY <1>1, <1>2

LEMMA LineReads == \A p \in Packages, n \in 0..MaxVersion : Line(p, n) => Reads(p, n)
<1> SUFFICES ASSUME NEW p \in Packages, NEW n \in 0..MaxVersion, Line(p, n) PROVE Reads(p, n)
  OBVIOUS
<1>1. n \in Nat /\ 1..n \subseteq Versions /\ {w \in Versions : Exists(p, w)} = 1..n
  BY PackageAssumption DEF Line, Versions
<1>2. FatesOf(p) = [v \in 1..n |-> Fate(p, v)]
  BY <1>1 DEF FatesOf
<1>3. ASSUME NEW v \in 1..n
      PROVE  /\ Fate(p, v) \in FateNames
             /\ v < n => Fate(p, v) = "SUPERSEDED"
             /\ facts[p][v] = Issued => Fate(p, v) = "LIVE"
             /\ \A f \in Terminal : facts[p][v] = Closed(f) => Fate(p, v) = f
  BY <1>1, FateIs DEF Line, FateNames, Terminal, Ends
<1>4. FatesOf(p) \in Seq(FateNames)
  BY <1>1, <1>2, <1>3, IsASeq
<1>5. Len(FatesOf(p)) = n
  BY <1>1, <1>2, <1>4, LenProperties
<1> QED
  BY <1>2, <1>3, <1>4, <1>5 DEF Reads

LEMMA LineReadsNext ==
  (\A p \in Packages, n \in 0..MaxVersion : Line(p, n) => Reads(p, n))'
BY LineReads, PTL

LEMMA SameFates ==
  ASSUME NEW p \in Packages, sealed'[p] = sealed[p], facts'[p] = facts[p]
  PROVE  FatesOf(p)' = FatesOf(p)
BY DEF FatesOf, Exists, Fate

\* A line whose live version was closed reads as one that has met that fate.
LEMMA ClosedReads ==
  ASSUME NEW p \in Packages, NEW v \in Versions, NEW f \in Ends,
         Reads(p, v), Reads(p, v)', facts[p][v] = Issued, facts'[p][v] = Closed(f)
  PROVE  /\ FatesOf(p) # <<>> /\ FatesOf(p)[Len(FatesOf(p))] = "LIVE"
         /\ FatesOf(p)' = [FatesOf(p) EXCEPT ![Len(FatesOf(p))] = f]
<1> DEFINE old == FatesOf(p)
           upd == [old EXCEPT ![v] = f]
<1>1. v \in 1..v /\ f \in FateNames /\ f \in Terminal /\ v \in Nat /\ v > 0
  BY PackageAssumption DEF Versions, FateNames, Terminal, Ends
<1>2. old \in Seq(FateNames) /\ Len(old) = v /\ old[v] = "LIVE"
  BY <1>1 DEF Reads
<1>3. old # <<>>
  BY <1>1, <1>2, EmptySeq
<1>4. /\ upd \in Seq(FateNames) /\ Len(upd) = v
      /\ \A i \in 1..v : upd[i] = IF i = v THEN f ELSE old[i]
  BY <1>1, <1>2, ExceptSeq
<1>5. old' \in Seq(FateNames) /\ Len(old') = v
  BY DEF Reads
<1>6. \A i \in 1..v : old'[i] = upd[i]
  BY <1>1, <1>4 DEF Reads
<1>7. old' = upd
  <2> HIDE DEF old, upd
  <2> QED
    BY <1>4, <1>5, <1>6, SeqEqual
<1> QED
  BY <1>2, <1>3, <1>7

\* A line that got its next version reads as one more live version behind
\* superseded ones.
LEMMA ExtendedReads ==
  ASSUME NEW p \in Packages, NEW v \in Versions, Reads(p, v - 1), Reads(p, v)',
         v > 1 => facts[p][v - 1] = Issued, facts'[p][v] = Issued
  PROVE  \/ FatesOf(p) = <<>> /\ FatesOf(p)' = <<"LIVE">>
         \/ /\ FatesOf(p) # <<>> /\ FatesOf(p)[Len(FatesOf(p))] = "LIVE"
            /\ FatesOf(p)' =
                 Append([FatesOf(p) EXCEPT ![Len(FatesOf(p))] = "SUPERSEDED"], "LIVE")
<1> DEFINE old == FatesOf(p)
<1>1. v \in Nat /\ v > 0 /\ v \in 1..v /\ "LIVE" \in FateNames /\ "SUPERSEDED" \in FateNames
  BY PackageAssumption DEF Versions, FateNames, Terminal
<1>2. /\ old \in Seq(FateNames) /\ Len(old) = v - 1
      /\ old' \in Seq(FateNames) /\ Len(old') = v /\ old'[v] = "LIVE"
      /\ \A i \in 1..v : i < v => old'[i] = "SUPERSEDED"
  BY <1>1 DEF Reads
<1>3. CASE v = 1
  <2>1. old = <<>>
    BY <1>2, <1>3, EmptySeq
  <2>2. <<"LIVE">> \in Seq(FateNames) /\ Len(<<"LIVE">>) = 1 /\ <<"LIVE">>[1] = "LIVE"
    BY <1>1
  <2>3. old' = <<"LIVE">>
    <3> HIDE DEF old
    <3>1. \A i \in 1..1 : old'[i] = <<"LIVE">>[i]
      BY <1>2, <1>3, <2>2
    <3> QED
      BY <1>2, <1>3, <2>2, <3>1, SeqEqual
  <2> QED
    BY <2>1, <2>3
<1>4. CASE v > 1
  <2> DEFINE upd == [old EXCEPT ![v - 1] = "SUPERSEDED"]
             new == Append(upd, "LIVE")
  <2>1. v - 1 \in 1..(v - 1) /\ old[v - 1] = "LIVE"
    BY <1>1, <1>4 DEF Reads
  <2>2. old # <<>>
    BY <1>2, <1>4, EmptySeq
  <2>3. /\ upd \in Seq(FateNames) /\ Len(upd) = v - 1
        /\ \A i \in 1..(v - 1) : upd[i] = IF i = v - 1 THEN "SUPERSEDED" ELSE old[i]
    BY <1>1, <1>2, <2>1, ExceptSeq
  <2>4. \A i \in 1..(v - 1) : upd[i] = "SUPERSEDED"
    BY <1>1, <2>3 DEF Reads
  <2>5. /\ new \in Seq(FateNames) /\ Len(new) = v /\ new[v] = "LIVE"
        /\ \A i \in 1..(v - 1) : new[i] = "SUPERSEDED"
    <3> HIDE DEF upd
    <3> QED
      BY <1>1, <2>3, <2>4, AppendProperties
  <2>6. \A i \in 1..v : old'[i] = new[i]
    <3> HIDE DEF old, new
    <3> QED
      BY <1>1, <1>2, <2>5
  <2>7. old' = new
    <3> HIDE DEF old, new
    <3> QED
      BY <1>2, <2>5, <2>6, SeqEqual
  <2> QED
    BY <1>2, <2>1, <2>2, <2>7
<1> QED
  BY <1>1, <1>3, <1>4

LEMMA ClosingEnds ==
  ASSUME Inv, NEW p \in Packages, NEW v \in Versions, NEW f \in Ends, Exists(p, v),
         AddFact(p, v, f), UNCHANGED sealed
  PROVE  Fates!End(p, f)
<1>1. /\ Line(p, v) /\ Line(p, v)' /\ facts[p][v] = Issued
      /\ facts' = [facts EXCEPT ![p][v] = Closed(f)]
  BY CloseLine
<1>2. v \in 0..MaxVersion
  BY PackageAssumption DEF Versions
<1>3. Reads(p, v) /\ Reads(p, v)' /\ facts'[p][v] = Closed(f)
  BY <1>1, <1>2, LineReads, LineReadsNext DEF Inv, TypeOK
<1>4. /\ FatesOf(p) # <<>> /\ FatesOf(p)[Len(FatesOf(p))] = "LIVE"
      /\ FatesOf(p)' = [FatesOf(p) EXCEPT ![Len(FatesOf(p))] = f]
  BY <1>1, <1>3, ClosedReads
<1>5. \A q \in Packages \ {p} : FatesOf(q)' = FatesOf(q)
  BY <1>1, SameFates DEF Inv, TypeOK
<1>6. AllFates[p] = FatesOf(p) /\ AllFates' = [q \in Packages |-> FatesOf(q)']
  BY DEF AllFates
<1>7. AllFates' = [AllFates EXCEPT ![p] = FatesOf(p)']
  BY <1>5 DEF AllFates
<1>8. AllFates' = [AllFates EXCEPT ![p] = [AllFates[p] EXCEPT ![Len(AllFates[p])] = f]]
  BY <1>4, <1>6, <1>7
<1> QED
  BY <1>4, <1>6, <1>8 DEF Fates!End, Fates!Live, Fates!Ended, AllFates, FatesOf

LEMMA ExtendingIssues ==
  ASSUME Inv, NEW s \in Sessions, InsertVersion(s)
  PROVE  \E p \in Packages : Fates!Issue(p) \/ Fates!Supersede(p)
<1>1. PICK p, v : p = session[s].package /\ v = session[s].version
  OBVIOUS
<1>2. /\ p \in Packages /\ v \in Versions /\ Line(p, v - 1) /\ Line(p, v)'
      /\ v > 1 => facts[p][v - 1] = Issued
      /\ facts'[p][v] = Issued
      /\ \A q \in Packages \ {p} : facts'[q] = facts[q]
  BY <1>1, ExtendLine
<1>3. \A q \in Packages \ {p} : sealed'[q] = sealed[q]
  BY <1>1, <1>2 DEF InsertVersion, Inv, TypeOK
<1>4. v \in 0..MaxVersion /\ v - 1 \in 0..MaxVersion
  BY <1>2, PackageAssumption DEF Versions
<1>5. Reads(p, v - 1) /\ Reads(p, v)'
  BY <1>2, <1>4, LineReads, LineReadsNext
<1>6. \/ FatesOf(p) = <<>> /\ FatesOf(p)' = <<"LIVE">>
      \/ /\ FatesOf(p) # <<>> /\ FatesOf(p)[Len(FatesOf(p))] = "LIVE"
         /\ FatesOf(p)' =
              Append([FatesOf(p) EXCEPT ![Len(FatesOf(p))] = "SUPERSEDED"], "LIVE")
  BY <1>2, <1>5, ExtendedReads
<1>7. \A q \in Packages \ {p} : FatesOf(q)' = FatesOf(q)
  BY <1>2, <1>3, SameFates
<1>8. AllFates[p] = FatesOf(p) /\ AllFates' = [AllFates EXCEPT ![p] = FatesOf(p)']
  BY <1>2, <1>7 DEF AllFates
<1>9. \/ AllFates[p] = <<>> /\ AllFates' = [AllFates EXCEPT ![p] = <<"LIVE">>]
      \/ /\ AllFates[p] # <<>> /\ AllFates[p][Len(AllFates[p])] = "LIVE"
         /\ AllFates' = [AllFates EXCEPT ![p] =
              Append([AllFates[p] EXCEPT ![Len(AllFates[p])] = "SUPERSEDED"], "LIVE")]
  BY <1>6, <1>8
<1>10. Fates!Issue(p) \/ Fates!Supersede(p)
  BY <1>9 DEF Fates!Issue, Fates!Supersede, Fates!Live, Fates!Ended, AllFates, FatesOf
<1> QED
  BY <1>2, <1>10

FateStep == Fates!Next \/ AllFates' = AllFates

LEMMA NextFates ==
  ASSUME Inv, [Next]_vars
  PROVE  FateStep
<1>1. ASSUME UNCHANGED <<sealed, facts>> PROVE FateStep
  BY <1>1, SameFates DEF FateStep, AllFates
<1>2. ASSUME NEW p \in Packages, NEW v \in Versions, NEW k \in Consumers,
             CommitConsume(k, p, v)
      PROVE  FateStep
  <2>1. "CONSUMED" \in Ends /\ "CONSUMED" \in Fates!Ends
    BY DEF Ends, Fates!Ends
  <2>2. Fates!End(p, "CONSUMED")
    BY <1>2, <2>1, ClosingEnds DEF CommitConsume, Inv, ClaimsSound
  <2> QED
    BY <2>1, <2>2 DEF FateStep, Fates!Next
<1>3. ASSUME NEW s \in Sessions, InsertFact(s) PROVE FateStep
  <2>1. PICK p, v, f : p = session[s].package /\ v = session[s].version /\ f = FactOf(session[s].op)
    OBVIOUS
  <2>2. /\ p \in Packages /\ v \in Versions /\ Exists(p, v) /\ f \in Ends
        /\ f \in Fates!Ends /\ AddFact(p, v, f) /\ UNCHANGED sealed
    BY <1>3, <2>1 DEF Inv, SessionSound, InsertFact, FactOf, Ends, Fates!Ends
  <2>3. Fates!End(p, f)
    BY <2>2, ClosingEnds
  <2> QED
    BY <2>2, <2>3 DEF FateStep, Fates!Next
<1>4. ASSUME NEW s \in Sessions, InsertVersion(s) PROVE FateStep
  BY <1>4, ExtendingIssues DEF FateStep, Fates!Next
<1>5. CASE UNCHANGED vars \/ Tick \/ \E p \in Packages : Decide(p) \/ EnsureHeader(p)
  BY <1>1, <1>5 DEF vars, Tick, Decide, EnsureHeader
<1>6. ASSUME NEW p \in Packages, NEW v \in Versions, NEW s \in Sessions,
             \/ \E doc \in Docs : BeginInsert(s, p, v, doc)
             \/ BeginRevoke(s, p, v)
             \/ BeginExpire(s, p, v)
      PROVE  FateStep
  BY <1>1, <1>6 DEF BeginInsert, BeginRevoke, BeginExpire, Hold
<1>7. ASSUME NEW s \in Sessions, Abort(s) PROVE FateStep
  BY <1>1, <1>7 DEF Abort
<1>8. ASSUME NEW k \in Consumers,
             \/ \E p \in Packages, v \in Versions : BeginConsume(k, p, v)
             \/ AbandonConsume(k)
      PROVE  FateStep
  BY <1>1, <1>8 DEF BeginConsume, AbandonConsume
<1> QED
  BY <1>2, <1>3, <1>4, <1>5, <1>6, <1>7, <1>8 DEF Next

\* The facts implement PackageFates: the versions of a package form one line of
\* which only the last can be live, and each meets one fate, however revocation,
\* expiry, supersession and consumption race.
THEOREM FatesImplemented == Spec => FatesSpec
<1>1. Init => Fates!Init
  BY DEF Init, Fates!Init, Exists
<1>2. Inv /\ [Next]_vars => [Fates!Next]_AllFates
  BY NextFates DEF FateStep
<1> QED
  BY <1>1, <1>2, InvAlways, PTL DEF Spec, FatesSpec, Fates!Spec, AllFates, FatesOf
=============================================================================
