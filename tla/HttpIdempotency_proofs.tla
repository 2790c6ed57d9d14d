------------------------ MODULE HttpIdempotency_proofs ------------------------
(* Theorems about HttpIdempotency, for every value of its constants.        *)
EXTENDS HttpIdempotency, TLAPS

RequestType ==
    [pc : {"idle", "lookup", "insert", "handle", "complete", "answered"},
     key : Keys \cup {Null}, body : Bodies \cup {Null},
     response : ResponseType \cup {Null},
     via : {Null, "executed", "replay", "conflict", "in_progress", "lost_race", "dropped"}]

\* The request holds the claim of its key.
Claims(c) == request[c].pc \in {"handle", "complete"}

Row(c) == record[request[c].key]

\* What a request may rely on at each of its steps, and what an answer it was
\* given has to do with the stored row.
RequestSound(c) ==
    /\ request[c].pc # "idle" => request[c].key \in Keys /\ request[c].body \in Bodies
    /\ At(c, "handle") =>
         /\ Row(c).status = "in_progress" /\ Row(c).body = request[c].body
         /\ executions[request[c].key] = 0
    /\ At(c, "complete") =>
         /\ Row(c).status \in {"in_progress", "completed"} /\ Row(c).body = request[c].body
         /\ lostAcks = 0 => Row(c).status = "in_progress"
         /\ executions[request[c].key] = 1
         /\ request[c].response \in ResponseType /\ request[c].response.run = 1
    /\ At(c, "answered") /\ request[c].via \in {"executed", "replay"} =>
         /\ Row(c).status = "completed" /\ Row(c).body = request[c].body
         /\ request[c].response.run = 1
         /\ lostAcks = 0 => Row(c).response = request[c].response

\* The rows of a key and the runs of its handler.
KeySound(k) ==
    /\ executions[k] \in {0, 1}
    /\ record[k].status = "none" => executions[k] = 0
    /\ record[k].status = "completed" =>
         record[k].response \in ResponseType /\ record[k].response.run = 1

\* A key is claimed by one request at most.
ClaimedAlone ==
    \A c, d \in Clients :
      Claims(c) /\ Claims(d) /\ request[c].key = request[d].key => c = d

Inv ==
    /\ TypeOK
    /\ \A k \in Keys : KeySound(k)
    /\ \A c \in Clients : RequestSound(c)
    /\ ClaimedAlone

LEMMA InitInv == Init => Inv
<1> SUFFICES ASSUME Init PROVE Inv
  OBVIOUS
<1>1. TypeOK
  BY IdempotencyAssumption DEF Init, TypeOK, NoRecord, NoRequest
<1>2. ASSUME NEW k \in Keys PROVE KeySound(k)
  BY DEF Init, KeySound, NoRecord
<1>3. ASSUME NEW c \in Clients PROVE RequestSound(c) /\ ~Claims(c)
  BY DEF Init, RequestSound, Claims, At, NoRequest
<1> QED
  BY <1>1, <1>2, <1>3 DEF Inv, ClaimedAlone

-----------------------------------------------------------------------------
(* How a request changes.                                                   *)

RequestsTyped == request \in [Clients -> RequestType]

OthersKept(c) == \A d \in Clients \ {c} : request'[d] = request[d]

LEMMA Replaced ==
  ASSUME TypeOK, NEW c \in Clients, NEW r \in RequestType,
         request' = [request EXCEPT ![c] = r]
  PROVE  RequestsTyped' /\ OthersKept(c) /\ request'[c] = r
  BY DEF TypeOK, RequestType, RequestsTyped, OthersKept

LEMMA GotoShape ==
  ASSUME TypeOK, NEW c \in Clients, NEW pc \in {"insert", "handle"}, Goto(c, pc)
  PROVE  /\ RequestsTyped' /\ OthersKept(c)
         /\ request'[c] = [request[c] EXCEPT !.pc = pc]
<1>1. request[c] \in RequestType
  BY DEF TypeOK, RequestType
<1>2. [request[c] EXCEPT !.pc = pc] \in RequestType
  BY <1>1 DEF RequestType
<1> QED
  BY <1>2, Replaced DEF Goto

LEMMA AnswerShape ==
  ASSUME TypeOK, NEW c \in Clients, NEW response \in ResponseType \cup {Null},
         NEW via \in {"executed", "replay", "conflict", "in_progress", "lost_race", "dropped"},
         Answer(c, via, response)
  PROVE  /\ RequestsTyped' /\ OthersKept(c)
         /\ request'[c].pc = "answered" /\ request'[c].via = via
         /\ request'[c].response = response
         /\ request'[c].key = request[c].key /\ request'[c].body = request[c].body
<1> DEFINE r == [request[c] EXCEPT !.pc = "answered", !.via = via, !.response = response]
<1>1. request[c] \in RequestType
  BY DEF TypeOK, RequestType
<1>2. r \in RequestType
  BY <1>1 DEF RequestType
<1>3. request' = [request EXCEPT ![c] = r]
  BY <1>1 DEF Answer, TypeOK, RequestType
<1>4. RequestsTyped' /\ OthersKept(c) /\ request'[c] = r
  BY <1>2, <1>3, Replaced
<1> QED
  BY <1>1, <1>4 DEF RequestType

\* A request of the server turns its result into an error.
LEMMA ErrorShape ==
  ASSUME Inv, NEW c \in Clients, At(c, "complete"),
         request' = [request EXCEPT ![c].response.result = "error"]
  PROVE  /\ RequestsTyped' /\ OthersKept(c)
         /\ request'[c].pc = "complete" /\ request'[c].response \in ResponseType
         /\ request'[c].response.run = 1
         /\ request'[c].key = request[c].key /\ request'[c].body = request[c].body
<1> DEFINE r == [request[c] EXCEPT !.response = [request[c].response EXCEPT !.result = "error"]]
<1>1. request[c] \in RequestType /\ request[c].response \in ResponseType
      /\ request[c].response.run = 1
  BY DEF Inv, TypeOK, RequestType, RequestSound
<1>2. [request[c].response EXCEPT !.result = "error"] \in ResponseType
  BY <1>1 DEF ResponseType
<1>3. r \in RequestType
  BY <1>1, <1>2 DEF RequestType
<1>4. request' = [request EXCEPT ![c] = r]
  BY <1>1 DEF TypeOK, RequestType
<1>5. RequestsTyped' /\ OthersKept(c) /\ request'[c] = r
  BY <1>3, <1>4, Replaced DEF Inv
<1> QED
  BY <1>1, <1>2, <1>5 DEF RequestType, ResponseType, At

-----------------------------------------------------------------------------
(* The steps that change one request and no row.                            *)

LEMMA RequestStepInv ==
  ASSUME Inv, NEW c \in Clients, RequestsTyped', OthersKept(c),
         record' = record, executions' = executions, lostAcks' = lostAcks,
         crashes' \in 0..MaxCrashes, failures' \in 0..MaxFailures,
         RequestSound(c)',
         Claims(c)' => Claims(c) /\ request'[c].key = request[c].key
  PROVE  Inv'
<1>1. TypeOK'
  BY DEF Inv, TypeOK, RequestsTyped, RequestType
<1>2. ASSUME NEW k \in Keys PROVE KeySound(k)'
  BY DEF Inv, KeySound
<1>3. ASSUME NEW d \in Clients PROVE RequestSound(d)'
  <2>1. CASE d = c
    BY <2>1
  <2>2. CASE d # c
    BY <2>2 DEF Inv, RequestSound, At, Row, OthersKept
  <2> QED
    BY <2>1, <2>2
<1>4. ClaimedAlone'
  BY DEF Inv, ClaimedAlone, Claims, OthersKept
<1> QED
  BY <1>1, <1>2, <1>3, <1>4 DEF Inv

LEMMA FaultsTyped ==
  ASSUME Inv
  PROVE  crashes \in 0..MaxCrashes /\ failures \in 0..MaxFailures /\ lostAcks \in 0..MaxLostAcks
  BY DEF Inv, TypeOK

LEMMA SendInv ==
  ASSUME Inv, NEW c \in Clients, NEW k \in Keys, NEW b \in Bodies, Send(c, k, b)
  PROVE  Inv'
<1> DEFINE r == [NoRequest EXCEPT !.pc = "lookup", !.key = k, !.body = b]
<1>1. r \in RequestType /\ r.pc = "lookup" /\ r.key = k /\ r.body = b
  BY DEF NoRequest, RequestType
<1>2. RequestsTyped' /\ OthersKept(c) /\ request'[c] = r
  BY <1>1, Replaced DEF Send, Inv
<1>3. RequestSound(c)' /\ ~Claims(c)'
  BY <1>1, <1>2 DEF RequestSound, Claims, At
<1> QED
  BY <1>2, <1>3, FaultsTyped, RequestStepInv DEF Send, faults

LEMMA LookupInv ==
  ASSUME Inv, NEW c \in Clients, Lookup(c)
  PROVE  Inv'
<1> DEFINE k == request[c].key
<1>1. k \in Keys /\ request[c].body \in Bodies /\ TypeOK
  BY DEF Inv, RequestSound, Lookup, At
<1>2. record[k].response \in ResponseType \cup {Null}
      /\ record[k].status \in {"none", "in_progress", "completed"}
  BY <1>1 DEF TypeOK
<1>3. \/ Goto(c, "insert")
      \/ Answer(c, "conflict", Null)
      \/ Answer(c, "in_progress", Null)
      \/ /\ Answer(c, "replay", record[k].response)
         /\ record[k].status = "completed" /\ record[k].body = request[c].body
  BY <1>2 DEF Lookup, SameBody
<1>4. RequestsTyped' /\ OthersKept(c) /\ ~Claims(c)'
  BY <1>1, <1>2, <1>3, GotoShape, AnswerShape DEF Claims, TypeOK, RequestType
<1>5. RequestSound(c)'
  <2>1. CASE Goto(c, "insert")
    <3>1. request'[c] = [request[c] EXCEPT !.pc = "insert"] /\ request[c] \in RequestType
      BY <1>1, <2>1, GotoShape DEF TypeOK, RequestType
    <3> QED
      BY <1>1, <3>1 DEF RequestSound, At, RequestType
  <2>2. CASE Answer(c, "conflict", Null) \/ Answer(c, "in_progress", Null)
    <3>1. request'[c].pc = "answered" /\ request'[c].via \in {"conflict", "in_progress"}
          /\ request'[c].key = k /\ request'[c].body = request[c].body
      BY <1>1, <2>2, AnswerShape
    <3> QED
      BY <1>1, <3>1 DEF RequestSound, At
  <2>3. CASE /\ Answer(c, "replay", record[k].response)
             /\ record[k].status = "completed" /\ record[k].body = request[c].body
    <3>1. request'[c].pc = "answered" /\ request'[c].response = record[k].response
          /\ request'[c].key = k /\ request'[c].body = request[c].body
      BY <1>1, <1>2, <2>3, AnswerShape
    <3>2. record[k].response.run = 1
      BY <1>1, <2>3 DEF Inv, KeySound
    <3>3. record' = record
      BY DEF Lookup
    <3> QED
      BY <1>1, <2>3, <3>1, <3>2, <3>3 DEF RequestSound, At, Row
  <2> QED
    BY <1>3, <2>1, <2>2, <2>3
<1> QED
  BY <1>4, <1>5, FaultsTyped, RequestStepInv DEF Lookup, faults

LEMMA CrashInv ==
  ASSUME Inv, NEW c \in Clients, Crash(c)
  PROVE  Inv'
<1>1. request[c].key \in Keys /\ request[c].body \in Bodies
  BY DEF Inv, RequestSound, Crash
<1>2. RequestsTyped' /\ OthersKept(c)
      /\ request'[c].pc = "answered" /\ request'[c].via = "dropped"
      /\ request'[c].key = request[c].key /\ request'[c].body = request[c].body
  BY AnswerShape DEF Crash, Inv
<1>3. RequestSound(c)' /\ ~Claims(c)'
  BY <1>1, <1>2 DEF RequestSound, Claims, At
<1>4. crashes' \in 0..MaxCrashes
  BY FaultsTyped, IdempotencyAssumption DEF Crash
<1> QED
  BY <1>2, <1>3, <1>4, FaultsTyped, RequestStepInv DEF Crash

LEMMA RetryInv ==
  ASSUME Inv, NEW c \in Clients, Retry(c)
  PROVE  Inv'
<1> DEFINE r == [request[c] EXCEPT !.pc = "lookup", !.via = Null, !.response = Null]
<1>1. request[c] \in RequestType /\ request[c].key \in Keys /\ request[c].body \in Bodies
  BY DEF Inv, TypeOK, RequestType, RequestSound, Retry, At
<1>2. r \in RequestType
  BY <1>1 DEF RequestType
<1>3. request' = [request EXCEPT ![c] = r]
  BY <1>1 DEF Retry, Inv, TypeOK, RequestType
<1>4. RequestsTyped' /\ OthersKept(c) /\ request'[c] = r
  BY <1>2, <1>3, Replaced DEF Inv
<1>5. RequestSound(c)' /\ ~Claims(c)'
  BY <1>1, <1>4 DEF RequestSound, Claims, At, RequestType
<1> QED
  BY <1>4, <1>5, FaultsTyped, RequestStepInv DEF Retry, faults

LEMMA ForgetInv ==
  ASSUME Inv, NEW c \in Clients, Forget(c)
  PROVE  Inv'
<1>1. NoRequest \in RequestType /\ NoRequest.pc = "idle"
  BY DEF NoRequest, RequestType
<1>2. RequestsTyped' /\ OthersKept(c) /\ request'[c] = NoRequest
  BY <1>1, Replaced DEF Forget, Inv
<1>3. RequestSound(c)' /\ ~Claims(c)'
  BY <1>1, <1>2 DEF RequestSound, Claims, At
<1> QED
  BY <1>2, <1>3, FaultsTyped, RequestStepInv DEF Forget, faults

LEMMA CompleteFailsInv ==
  ASSUME Inv, NEW c \in Clients, CompleteFails(c)
  PROVE  Inv'
<1>1. /\ RequestsTyped' /\ OthersKept(c)
      /\ request'[c].pc = "complete" /\ request'[c].response \in ResponseType
      /\ request'[c].response.run = 1
      /\ request'[c].key = request[c].key /\ request'[c].body = request[c].body
  BY ErrorShape DEF CompleteFails
<1>2. RequestSound(c)'
  BY <1>1 DEF Inv, RequestSound, CompleteFails, At, Row
<1>3. failures' \in 0..MaxFailures
  BY FaultsTyped, IdempotencyAssumption DEF CompleteFails
<1> QED
  BY <1>1, <1>2, <1>3, FaultsTyped, RequestStepInv DEF CompleteFails, Claims, At

-----------------------------------------------------------------------------
(* The steps that change a row, or run the handler.                         *)

\* Whoever holds a claim that nobody else holds leaves every key claimed once.
LEMMA StillAlone ==
  ASSUME ClaimedAlone, NEW c \in Clients, OthersKept(c),
         \A d \in Clients \ {c} : Claims(d) => request[d].key # request'[c].key
  PROVE  ClaimedAlone'
<1> SUFFICES ASSUME NEW d \in Clients, NEW e \in Clients, Claims(d)', Claims(e)',
                    request'[d].key = request'[e].key
             PROVE  d = e
  BY DEF ClaimedAlone
<1>1. ASSUME NEW x \in Clients, x # c, Claims(x)'
      PROVE  request'[x] = request[x] /\ Claims(x) /\ request'[x].key # request'[c].key
  BY <1>1 DEF OthersKept, Claims
<1>2. CASE d = c \/ e = c
  BY <1>1, <1>2
<1>3. CASE d # c /\ e # c
  BY <1>1, <1>3 DEF ClaimedAlone
<1> QED
  BY <1>2, <1>3

LEMMA InsertInv ==
  ASSUME Inv, NEW c \in Clients, Insert(c)
  PROVE  Inv'
<1> DEFINE k == request[c].key
           row == [status |-> "in_progress", body |-> request[c].body, response |-> Null]
<1>1. k \in Keys /\ request[c].body \in Bodies /\ TypeOK /\ request[c] \in RequestType
  BY DEF Inv, RequestSound, Insert, At, TypeOK, RequestType
<1>2. CASE KeyUnclaimed(k)
  <2>1. record' = [record EXCEPT ![k] = row] /\ Goto(c, "handle")
        /\ executions' = executions /\ UNCHANGED faults
    BY <1>2 DEF Insert
  <2>2. RequestsTyped' /\ OthersKept(c) /\ request'[c] = [request[c] EXCEPT !.pc = "handle"]
    BY <1>1, <2>1, GotoShape
  <2>3. request'[c].pc = "handle" /\ request'[c].key = k /\ request'[c].body = request[c].body
    BY <1>1, <2>2 DEF RequestType
  <2>4. record'[k] = row /\ \A x \in Keys \ {k} : record'[x] = record[x]
    BY <1>1, <2>1 DEF TypeOK
  <2>5. TypeOK'
    BY <1>1, <2>1, <2>2 DEF TypeOK, RequestsTyped, RequestType, faults
  <2>6. record[k].status = "none" /\ executions[k] = 0
    BY <1>1, <1>2 DEF KeyUnclaimed, Inv, KeySound
  <2>7. ASSUME NEW x \in Keys PROVE KeySound(x)'
    BY <2>1, <2>4, <2>6 DEF Inv, KeySound
  <2>8. \A d \in Clients : request[d].key = k =>
          ~Claims(d) /\ ~(At(d, "answered") /\ request[d].via \in {"executed", "replay"})
    BY <2>6 DEF Inv, RequestSound, Row, Claims, At
  <2>9. ASSUME NEW d \in Clients PROVE RequestSound(d)'
    <3>1. CASE d = c
      BY <1>1, <2>1, <2>3, <2>4, <2>6, <3>1 DEF RequestSound, At, Row
    <3>2. CASE d # c /\ request[d].key = k
      <4>1. request'[d] = request[d]
        BY <2>2, <3>2 DEF OthersKept
      <4> QED
        BY <2>8, <3>2, <4>1 DEF Inv, RequestSound, At, Claims
    <3>3. CASE d # c /\ request[d].key # k
      <4>1. request'[d] = request[d] /\ RequestSound(d)
        BY <2>2, <3>3 DEF OthersKept, Inv
      <4>2. request[d].pc # "idle" => record'[request[d].key] = record[request[d].key]
        BY <2>4, <3>3, <4>1 DEF RequestSound
      <4> QED
        BY <2>1, <4>1, <4>2 DEF RequestSound, At, Row, faults
    <3> QED
      BY <3>1, <3>2, <3>3
  <2>10. ClaimedAlone'
    BY <2>2, <2>3, <2>8, StillAlone DEF Inv
  <2> QED
    BY <2>5, <2>7, <2>9, <2>10 DEF Inv
<1>3. CASE ~KeyUnclaimed(k)
  <2>1. Answer(c, "lost_race", Null) /\ record' = record /\ executions' = executions
        /\ UNCHANGED faults
    BY <1>3 DEF Insert
  <2>2. RequestsTyped' /\ OthersKept(c)
        /\ request'[c].pc = "answered" /\ request'[c].via = "lost_race"
        /\ request'[c].key = request[c].key /\ request'[c].body = request[c].body
    BY <1>1, <2>1, AnswerShape
  <2>3. RequestSound(c)' /\ ~Claims(c)'
    BY <1>1, <2>2 DEF RequestSound, Claims, At
  <2> QED
    BY <2>1, <2>2, <2>3, FaultsTyped, RequestStepInv DEF faults
<1> QED
  BY <1>2, <1>3

LEMMA HandleInv ==
  ASSUME Inv, NEW c \in Clients, Handle(c)
  PROVE  Inv'
<1> DEFINE k == request[c].key
<1>1. PICK result \in {"ok", "error"} :
        request' = [request EXCEPT ![c].pc = "complete",
                                   ![c].response = Response(executions'[k], result)]
  BY DEF Handle
<1>2. k \in Keys /\ request[c].body \in Bodies /\ record[k].status = "in_progress"
      /\ record[k].body = request[c].body /\ executions[k] = 0 /\ request[c] \in RequestType
  BY DEF Inv, RequestSound, Handle, At, Row, TypeOK, RequestType
<1>3. executions'[k] = 1 /\ executions' \in [Keys -> Nat]
      /\ \A x \in Keys \ {k} : executions'[x] = executions[x]
  BY <1>2 DEF Handle, Inv, TypeOK
<1> DEFINE r == [request[c] EXCEPT !.pc = "complete", !.response = Response(1, result)]
<1>4. Response(1, result) \in ResponseType /\ Response(1, result).run = 1
  BY DEF Response, ResponseType
<1>5. r \in RequestType /\ r.pc = "complete" /\ r.key = k /\ r.body = request[c].body
      /\ r.response = Response(1, result)
  BY <1>2, <1>4 DEF RequestType
<1>6. request' = [request EXCEPT ![c] = r]
  BY <1>1, <1>2, <1>3 DEF Inv, TypeOK, RequestType
<1>7. RequestsTyped' /\ OthersKept(c) /\ request'[c] = r
  BY <1>5, <1>6, Replaced DEF Inv
<1>8. record' = record /\ UNCHANGED faults
  BY DEF Handle
<1>9. TypeOK'
  BY <1>3, <1>7, <1>8 DEF Inv, TypeOK, RequestsTyped, RequestType, faults
<1>10. ASSUME NEW x \in Keys PROVE KeySound(x)'
  BY <1>2, <1>3, <1>8 DEF Inv, KeySound
<1>11. \A d \in Clients \ {c} : Claims(d) => request[d].key # k
  BY DEF Inv, ClaimedAlone, Claims, Handle, At
<1>12. ASSUME NEW d \in Clients PROVE RequestSound(d)'
  <2>1. CASE d = c
    BY <1>2, <1>3, <1>4, <1>5, <1>7, <1>8, <2>1 DEF RequestSound, At, Row
  <2>2. CASE d # c
    <3>1. request'[d] = request[d] /\ RequestSound(d)
      BY <1>7, <2>2 DEF OthersKept, Inv
    <3>2. Claims(d) => executions'[request[d].key] = executions[request[d].key]
      BY <1>3, <1>11, <2>2, <3>1 DEF RequestSound, Claims
    <3> QED
      BY <1>8, <3>1, <3>2 DEF RequestSound, At, Row, Claims, faults
  <2> QED
    BY <2>1, <2>2
<1>13. ClaimedAlone'
  BY <1>5, <1>7, <1>11, StillAlone DEF Inv
<1> QED
  BY <1>9, <1>10, <1>12, <1>13 DEF Inv

\* The row of the claimed key is completed; the request goes on as its own
\* RequestSound says, and nobody else holds the claim.
LEMMA CompletedInv ==
  ASSUME Inv, NEW c \in Clients, At(c, "complete"), RequestsTyped', OthersKept(c),
         record' = [record EXCEPT ![request[c].key] = Completed(c)],
         executions' = executions, crashes' = crashes, failures' = failures,
         lostAcks' \in 0..MaxLostAcks, lostAcks' = 0 => lostAcks = 0,
         RequestSound(c)', Claims(c)' => request'[c].key = request[c].key
  PROVE  Inv'
<1> DEFINE k == request[c].key
<1>1. /\ k \in Keys /\ executions[k] = 1 /\ record[k].body = request[c].body
      /\ lostAcks = 0 => record[k].status = "in_progress"
      /\ request[c].response \in ResponseType /\ request[c].response.run = 1
  BY DEF Inv, RequestSound, Row, At
<1>2. record[k] \in [status : {"none", "in_progress", "completed"},
                     body : Bodies \cup {Null}, response : ResponseType \cup {Null}]
  BY <1>1 DEF Inv, TypeOK
<1>3. /\ record'[k].status = "completed" /\ record'[k].body = record[k].body
      /\ record'[k].response = request[c].response
      /\ \A x \in Keys \ {k} : record'[x] = record[x]
  BY <1>1, <1>2 DEF Completed, Inv, TypeOK
<1>4. Completed(c) \in [status : {"none", "in_progress", "completed"},
                        body : Bodies \cup {Null}, response : ResponseType \cup {Null}]
  BY <1>1, <1>2 DEF Completed
<1>5. TypeOK'
  BY <1>4 DEF Inv, TypeOK, RequestsTyped, RequestType
<1>6. ASSUME NEW x \in Keys PROVE KeySound(x)'
  <2>1. CASE x = k
    BY <1>1, <1>3, <2>1 DEF KeySound
  <2>2. CASE x # k
    BY <1>3, <2>2 DEF Inv, KeySound
  <2> QED
    BY <2>1, <2>2
<1>7. \A d \in Clients \ {c} : Claims(d) => request[d].key # k
  BY DEF Inv, ClaimedAlone, Claims, At
<1>8. ASSUME NEW d \in Clients PROVE RequestSound(d)'
  <2>1. CASE d = c
    BY <2>1
  <2>2. CASE d # c /\ request[d].key # k
    <3>1. request'[d] = request[d] /\ RequestSound(d)
      BY <2>2 DEF OthersKept, Inv
    <3>2. request[d].pc # "idle" => record'[request[d].key] = record[request[d].key]
      BY <1>3, <2>2, <3>1 DEF RequestSound
    <3> QED
      BY <3>1, <3>2 DEF RequestSound, At, Row
  <2>3. CASE d # c /\ request[d].key = k
    <3>1. request'[d] = request[d] /\ RequestSound(d) /\ ~Claims(d)
      BY <1>7, <2>3 DEF OthersKept, Inv
    <3>2. At(d, "answered") /\ request[d].via \in {"executed", "replay"} => lostAcks # 0
      BY <1>1, <2>3, <3>1 DEF RequestSound, Row
    <3> QED
      BY <1>1, <1>3, <2>3, <3>1, <3>2 DEF RequestSound, At, Row, Claims
  <2> QED
    BY <2>1, <2>2, <2>3
<1>9. ClaimedAlone'
  BY <1>7 DEF Inv, ClaimedAlone, Claims, OthersKept
<1> QED
  BY <1>5, <1>6, <1>8, <1>9 DEF Inv

LEMMA HeldRow ==
  ASSUME Inv, NEW c \in Clients, At(c, "complete"),
         record' = [record EXCEPT ![request[c].key] = Completed(c)]
  PROVE  /\ request[c].key \in Keys /\ request[c].body \in Bodies
         /\ request[c].response \in ResponseType /\ request[c].response.run = 1
         /\ executions[request[c].key] = 1
         /\ record'[request[c].key].status = "completed"
         /\ record'[request[c].key].body = request[c].body
         /\ record'[request[c].key].response = request[c].response
<1>1. /\ request[c].key \in Keys /\ request[c].body \in Bodies
      /\ executions[request[c].key] = 1 /\ record[request[c].key].body = request[c].body
      /\ request[c].response \in ResponseType /\ request[c].response.run = 1
  BY DEF Inv, RequestSound, Row, At
<1>2. record[request[c].key] \in [status : {"none", "in_progress", "completed"},
                     body : Bodies \cup {Null}, response : ResponseType \cup {Null}]
  BY <1>1 DEF Inv, TypeOK
<1> QED
  BY <1>1, <1>2 DEF Completed, Inv, TypeOK

LEMMA CompleteInv ==
  ASSUME Inv, NEW c \in Clients, Complete(c)
  PROVE  Inv'
<1> DEFINE k == request[c].key
<1>1. /\ k \in Keys /\ request[c].body \in Bodies
      /\ request[c].response \in ResponseType /\ request[c].response.run = 1
      /\ record'[k].status = "completed" /\ record'[k].body = request[c].body
      /\ record'[k].response = request[c].response
  BY HeldRow DEF Complete
<1>2. /\ RequestsTyped' /\ OthersKept(c)
      /\ request'[c].pc = "answered" /\ request'[c].response = request[c].response
      /\ request'[c].key = k /\ request'[c].body = request[c].body
  BY <1>1, AnswerShape DEF Complete, Inv
<1>3. RequestSound(c)' /\ ~Claims(c)'
  BY <1>1, <1>2 DEF RequestSound, Claims, At, Row
<1> QED
  BY <1>2, <1>3, FaultsTyped, CompletedInv DEF Complete, faults

LEMMA CompleteUnseenInv ==
  ASSUME Inv, NEW c \in Clients, CompleteUnseen(c)
  PROVE  Inv'
<1> DEFINE k == request[c].key
<1>1. /\ k \in Keys /\ request[c].body \in Bodies /\ executions[k] = 1
      /\ record'[k].status = "completed" /\ record'[k].body = request[c].body
  BY HeldRow DEF CompleteUnseen
<1>2. /\ RequestsTyped' /\ OthersKept(c)
      /\ request'[c].pc = "complete" /\ request'[c].response \in ResponseType
      /\ request'[c].response.run = 1
      /\ request'[c].key = k /\ request'[c].body = request[c].body
  BY ErrorShape DEF CompleteUnseen
<1>3. lostAcks' \in 0..MaxLostAcks /\ lostAcks' # 0
  BY FaultsTyped, IdempotencyAssumption DEF CompleteUnseen
<1>4. RequestSound(c)'
  BY <1>1, <1>2, <1>3 DEF RequestSound, At, Row, CompleteUnseen
<1> QED
  BY <1>2, <1>3, <1>4, CompletedInv DEF CompleteUnseen

-----------------------------------------------------------------------------

LEMMA StepInv == Inv /\ [Next]_vars => Inv'
<1> SUFFICES ASSUME Inv, [Next]_vars PROVE Inv'
  OBVIOUS
<1>1. ASSUME NEW c \in Clients,
             \/ \E k \in Keys, b \in Bodies : Send(c, k, b)
             \/ Serve(c) \/ CompleteFails(c) \/ CompleteUnseen(c)
             \/ Crash(c) \/ Retry(c) \/ Forget(c)
      PROVE  Inv'
  BY <1>1, SendInv, LookupInv, InsertInv, HandleInv, CompleteInv, CompleteFailsInv,
     CompleteUnseenInv, CrashInv, RetryInv, ForgetInv DEF Serve
<1>2. CASE UNCHANGED vars
  BY <1>2 DEF Inv, TypeOK, KeySound, RequestSound, ClaimedAlone, Claims, Row, At, vars, faults
<1> QED
  BY <1>1, <1>2 DEF Next

LEMMA AlwaysInv == Spec => []Inv
  BY InitInv, StepInv, PTL DEF Spec

\* Rows, requests and counters keep to their values, whatever requests race, fail
\* or are retried (migration 0142, idempotency.ts).
THEOREM TypeCorrect == Spec => []TypeOK
  BY AlwaysInv, PTL DEF Inv

\* The handler behind a key runs at most once, for any number of clients, crashes,
\* failed and unseen completions (begin, complete).
THEOREM HandledAtMostOnce == Spec => []AtMostOnce
<1>1. Inv => AtMostOnce
  BY DEF Inv, KeySound, AtMostOnce
<1> QED
  BY <1>1, AlwaysInv, PTL

\* Whoever is answered with a response gets that of the one run, for the body it
\* sent (begin, the onSend hook).
THEOREM AnswersAlwaysAgree == Spec => []AnswersAgree
<1>1. Inv => AnswersAgree
  <2> SUFFICES ASSUME Inv, NEW c \in Clients, At(c, "answered"),
                      request[c].via \in {"executed", "replay"}
               PROVE  LET r == record[request[c].key]
                      IN  /\ r.status = "completed" /\ r.body = request[c].body
                          /\ r.response.run = request[c].response.run
                          /\ lostAcks = 0 => r.response = request[c].response
    BY DEF AnswersAgree
  <2>1. RequestSound(c) /\ request[c].key \in Keys
    BY DEF Inv, RequestSound, At
  <2>2. KeySound(request[c].key)
    BY <2>1 DEF Inv
  <2> QED
    BY <2>1, <2>2 DEF RequestSound, KeySound, Row
<1> QED
  BY <1>1, AlwaysInv, PTL

\* A key keeps its body, a completed one stays so, and its response is final as
\* long as no completion was reported as failed although it was stored (complete).
THEOREM ResponseIsFinal == Spec => StoredResponseIsFinal
<1> DEFINE Kept == \A k \in Keys : record[k].status # "none" =>
                     /\ record'[k].body = record[k].body
                     /\ record[k].status = "completed" =>
                          /\ record'[k].status = "completed"
                          /\ lostAcks = 0 => record'[k] = record[k]
<1>1. ASSUME Inv, [Next]_vars PROVE Kept
  <2>1. ASSUME NEW c \in Clients, Complete(c) \/ CompleteUnseen(c) PROVE Kept
    <3>1. At(c, "complete") /\ record' = [record EXCEPT ![request[c].key] = Completed(c)]
      BY <2>1 DEF Complete, CompleteUnseen
    <3>2. /\ record'[request[c].key].status = "completed"
          /\ record'[request[c].key].body = request[c].body
      BY <1>1, <3>1, HeldRow
    <3>3. /\ record[request[c].key].body = request[c].body
          /\ lostAcks = 0 => record[request[c].key].status = "in_progress"
      BY <1>1, <3>1 DEF Inv, RequestSound, Row
    <3>4. \A k \in Keys \ {request[c].key} : record'[k] = record[k]
      BY <1>1, <3>1 DEF Inv, TypeOK
    <3> QED
      BY <3>2, <3>3, <3>4
  <2>2. ASSUME NEW c \in Clients, Insert(c) PROVE Kept
    BY <1>1, <2>2 DEF Insert, KeyUnclaimed, Inv, TypeOK
  <2>3. CASE record' = record
    BY <2>3
  <2> QED
    BY <1>1, <2>1, <2>2, <2>3
    DEF Next, Serve, Send, Lookup, Handle, CompleteFails, Crash, Retry, Forget, vars
<1> QED
  BY <1>1, AlwaysInv, PTL DEF Spec, StoredResponseIsFinal

-----------------------------------------------------------------------------
(* A claim has no lease.                                                    *)

\* A key that is in progress although nobody works on it any more.
Orphaned(k) ==
    record[k].status = "in_progress" /\ \A c \in Clients : Claims(c) => request[c].key # k

LeftAlone(k) == Orphaned(k)' /\ record'[k] = record[k] /\ executions'[k] = executions[k]

\* The step of one request that does not claim the key.
LEMMA OrphanStep ==
  ASSUME NEW k \in Keys, Orphaned(k), NEW c \in Clients, OthersKept(c),
         request'[c].pc \in {"handle", "complete"} => request'[c].key # k,
         record'[k] = record[k], executions'[k] = executions[k]
  PROVE  LeftAlone(k)
<1>1. ASSUME NEW d \in Clients, request'[d].pc \in {"handle", "complete"}
      PROVE  request'[d].key # k
  <2>1. CASE d = c
    BY <1>1, <2>1
  <2>2. CASE d # c
    BY <1>1, <2>2 DEF OthersKept, Orphaned, Claims
  <2> QED
    BY <2>1, <2>2
<1> QED
  BY <1>1 DEF Orphaned, LeftAlone, Claims

\* Whoever works on another key leaves this one alone.
LEMMA ClaimantOrphans ==
  ASSUME Inv, NEW k \in Keys, Orphaned(k), NEW c \in Clients,
         Handle(c) \/ Complete(c) \/ CompleteFails(c) \/ CompleteUnseen(c)
  PROVE  LeftAlone(k)
<1>1. Claims(c) /\ request[c].key # k
  BY DEF Handle, Complete, CompleteFails, CompleteUnseen, At, Claims, Orphaned
<1>2. record'[k] = record[k] /\ executions'[k] = executions[k]
  BY <1>1 DEF Handle, Complete, CompleteFails, CompleteUnseen, Inv, TypeOK
<1>3. OthersKept(c) /\ request'[c].key = request[c].key
  BY DEF Handle, Complete, CompleteFails, CompleteUnseen, Answer, OthersKept, Inv, TypeOK
<1> QED
  BY <1>1, <1>2, <1>3, OrphanStep

LEMMA NewcomerOrphans ==
  ASSUME Inv, NEW k \in Keys, Orphaned(k), NEW c \in Clients,
         \/ \E key \in Keys, b \in Bodies : Send(c, key, b)
         \/ Lookup(c) \/ Insert(c) \/ Crash(c) \/ Retry(c) \/ Forget(c)
  PROVE  LeftAlone(k)
<1>1. CASE Insert(c)
  <2>1. request[c].key \in Keys
    BY <1>1 DEF Insert, At, Inv, RequestSound
  <2>2. CASE KeyUnclaimed(request[c].key)
    <3>1. request[c].key # k
      BY <2>2 DEF KeyUnclaimed, Orphaned
    <3>2. record'[k] = record[k] /\ executions'[k] = executions[k]
      BY <1>1, <2>2, <3>1 DEF Insert, Inv, TypeOK
    <3>3. OthersKept(c) /\ request'[c].key = request[c].key
      BY <1>1, <2>2 DEF Insert, Goto, OthersKept, Inv, TypeOK
    <3> QED
      BY <3>1, <3>2, <3>3, OrphanStep
  <2>3. CASE ~KeyUnclaimed(request[c].key)
    <3>1. OthersKept(c) /\ request'[c].pc = "answered"
      BY <1>1, <2>3, AnswerShape DEF Insert, Inv
    <3> QED
      BY <1>1, <2>3, <3>1, OrphanStep DEF Insert
  <2> QED
    BY <2>2, <2>3
<1>2. CASE Lookup(c)
  <2>1. \/ Goto(c, "insert")
        \/ \E via \in {"conflict", "replay", "in_progress"} :
             \E response \in {Null, Row(c).response} : Answer(c, via, response)
    <3>1. request[c].key \in Keys
      BY <1>2 DEF Lookup, At, Inv, RequestSound
    <3>2. record[request[c].key].status \in {"none", "in_progress", "completed"}
      BY <3>1 DEF Inv, TypeOK
    <3> QED
      BY <1>2, <3>2 DEF Lookup, Row
  <2>2. OthersKept(c) /\ request'[c].pc \in {"insert", "answered"}
    BY <2>1 DEF Goto, Answer, OthersKept, Inv, TypeOK
  <2> QED
    BY <1>2, <2>2, OrphanStep DEF Lookup
<1>3. CASE Crash(c) \/ Retry(c) \/ Forget(c) \/ \E key \in Keys, b \in Bodies : Send(c, key, b)
  <2>1. OthersKept(c) /\ request'[c].pc \in {"lookup", "answered", "idle"}
    <3>1. CASE Crash(c)
      BY <3>1 DEF Crash, Answer, OthersKept, Inv, TypeOK
    <3>2. CASE Retry(c)
      BY <3>2 DEF Retry, OthersKept, Inv, TypeOK
    <3>3. CASE Forget(c)
      BY <3>3 DEF Forget, NoRequest, OthersKept, Inv, TypeOK
    <3>4. CASE \E key \in Keys, b \in Bodies : Send(c, key, b)
      <4>1. PICK key \in Keys, b \in Bodies : Send(c, key, b)
        BY <3>4
      <4>2. [NoRequest EXCEPT !.pc = "lookup", !.key = key, !.body = b].pc = "lookup"
        BY DEF NoRequest
      <4> QED
        BY <4>1, <4>2 DEF Send, OthersKept, Inv, TypeOK
    <3> QED
      BY <1>3, <3>1, <3>2, <3>3, <3>4
  <2> QED
    BY <1>3, <2>1, OrphanStep DEF Crash, Retry, Forget, Send
<1> QED
  BY <1>1, <1>2, <1>3

\* A claim has no lease: a key that is in progress when the request that claimed it
\* is gone stays in progress for ever, no handler runs under it again and no
\* response is ever stored for it, however often its client retries (begin).
THEOREM OrphanedForGood == Spec => [][\A k \in Keys : Orphaned(k) => LeftAlone(k)]_vars
<1>1. ASSUME Inv, [Next]_vars, NEW k \in Keys, Orphaned(k) PROVE LeftAlone(k)
  <2>1. ASSUME NEW c \in Clients,
               \/ \E key \in Keys, b \in Bodies : Send(c, key, b)
               \/ Serve(c) \/ CompleteFails(c) \/ CompleteUnseen(c)
               \/ Crash(c) \/ Retry(c) \/ Forget(c)
        PROVE  LeftAlone(k)
    BY <1>1, <2>1, ClaimantOrphans, NewcomerOrphans DEF Serve
  <2>2. CASE UNCHANGED vars
    BY <1>1, <2>2 DEF vars, Orphaned, LeftAlone, Claims
  <2> QED
    BY <1>1, <2>1, <2>2 DEF Next
<1>2. Inv /\ [Next]_vars => [\A k \in Keys : Orphaned(k) => LeftAlone(k)]_vars
  BY <1>1
<1> QED
  BY <1>2, AlwaysInv, PTL DEF Spec
=============================================================================
