-------------------------- MODULE HttpIdempotency --------------------------
(***************************************************************************)
(* The Idempotency-Key layer of the HTTP API: the requireIdempotencyKey    *)
(* preHandler and the onSend hook of apps/api, over                        *)
(* IdempotencyKeyRepository and the unique index of migration 0142.        *)
(*                                                                         *)
(* A request is a process: it looks the key up and inserts its claim (one  *)
(* transaction, two statements), runs the route handler, stores the        *)
(* response, and answers.  A client that got no final answer may send the  *)
(* same request again with the same key.                                   *)
(***************************************************************************)
EXTENDS Integers

CONSTANTS
    Clients,       \* clients, each with one request at a time
    Keys,          \* (tenant, Idempotency-Key, route) triples
    Bodies,        \* request bodies, told apart by their hash
    Null,          \* no row, no answer
    MaxCrashes,    \* bound on requests cut off half-way
    MaxFailures,   \* bound on failing transactions of the onSend hook
    MaxLostAcks    \* bound on commits of the onSend hook whose answer is lost

ASSUME IdempotencyAssumption ==
    /\ MaxCrashes \in Nat
    /\ MaxFailures \in Nat
    /\ MaxLostAcks \in Nat
    /\ Null \notin Clients \cup Keys \cup Bodies

VARIABLES
    record,      \* Keys -> the row of api.idempotency_keys
    executions,  \* Keys -> how often a handler has run under the key
    request,     \* Clients -> the request, its progress and its answer
    crashes,     \* requests cut off so far
    failures,    \* failed completions so far
    lostAcks     \* completions that were stored but reported as failed so far

faults == <<crashes, failures, lostAcks>>
vars == <<record, executions, request, faults>>

NoRecord == [status |-> "none", body |-> Null, response |-> Null]

\* A response is the handler run that produced it and whether it succeeded.
Response(n, result) == [run |-> n, result |-> result]

NoRequest == [pc |-> "idle", key |-> Null, body |-> Null, response |-> Null, via |-> Null]

Init ==
    /\ record = [k \in Keys |-> NoRecord]
    /\ executions = [k \in Keys |-> 0]
    /\ request = [c \in Clients |-> NoRequest]
    /\ crashes = 0
    /\ failures = 0
    /\ lostAcks = 0

At(c, pc) == request[c].pc = pc

Goto(c, pc) == request' = [request EXCEPT ![c].pc = pc]

\* The request is answered, with the way the answer came about.
Answer(c, via, response) ==
    request' = [request EXCEPT ![c].pc = "answered", ![c].via = via,
                               ![c].response = response]

Send(c, k, b) ==
    /\ At(c, "idle")
    /\ request' = [request EXCEPT ![c] = [NoRequest EXCEPT !.pc = "lookup",
                                                           !.key = k, !.body = b]]
    /\ UNCHANGED <<record, executions, faults>>

\* The body is not compared (mutant of SameBody).
AnyBody(k, b) == TRUE

SameBody(k, b) == record[k].body = b

\* begin, first statement: an existing row decides at once.
Lookup(c) ==
    LET k == request[c].key
        b == request[c].body
    IN
    /\ At(c, "lookup")
    /\ CASE record[k].status = "none"                   -> Goto(c, "insert")
         [] record[k].status # "none" /\ ~SameBody(k, b) -> Answer(c, "conflict", Null)
         [] record[k].status = "completed" /\ SameBody(k, b) ->
              Answer(c, "replay", record[k].response)
         [] record[k].status = "in_progress" /\ SameBody(k, b) ->
              Answer(c, "in_progress", Null)
    /\ UNCHANGED <<record, executions, faults>>

\* There is no unique index on (tenant, key, route) (mutant of KeyUnclaimed).
NoUniqueIndex(k) == TRUE

KeyUnclaimed(k) == record[k].status = "none"

\* begin, second statement: the INSERT claims the key, or is a unique violation.
\* The violation aborts the transaction, so the SELECT that the handler of the
\* violation issues next fails too (25P02) and the request ends in a 500.
Insert(c) ==
    LET k == request[c].key IN
    /\ At(c, "insert")
    /\ IF KeyUnclaimed(k)
       THEN /\ record' = [record EXCEPT ![k] =
                  [status |-> "in_progress", body |-> request[c].body, response |-> Null]]
            /\ Goto(c, "handle")
       ELSE Answer(c, "lost_race", Null) /\ UNCHANGED record
    /\ UNCHANGED <<executions, faults>>

\* The route handler runs, with its effects, and yields its result or an error.
Handle(c) ==
    LET k == request[c].key IN
    /\ At(c, "handle")
    /\ executions' = [executions EXCEPT ![k] = @ + 1]
    /\ \E result \in {"ok", "error"} :
         request' = [request EXCEPT ![c].pc = "complete",
                                    ![c].response = Response(executions'[k], result)]
    /\ UNCHANGED <<record, faults>>

\* A failed handler gives the key back (mutant of Completed).
ReleaseAfterError(c) ==
    IF request[c].response.result = "error" THEN NoRecord
    ELSE [record[request[c].key] EXCEPT !.status = "completed",
                                        !.response = request[c].response]

\* The row is marked with a status of another spelling (mutant of Completed).
CompletedMisspelt(c) ==
    [record[request[c].key] EXCEPT !.status = "complete", !.response = request[c].response]

\* Only a successful response is stored (mutant of Completed).
CompletedIfSuccessful(c) ==
    IF request[c].response.result = "error" THEN record[request[c].key]
    ELSE [record[request[c].key] EXCEPT !.status = "completed",
                                        !.response = request[c].response]

\* The row complete leaves: errors are stored like any other response.
Completed(c) ==
    [record[request[c].key] EXCEPT !.status = "completed", !.response = request[c].response]

\* The onSend hook stores the response before the client sees it.
Complete(c) ==
    /\ At(c, "complete")
    /\ record' = [record EXCEPT ![request[c].key] = Completed(c)]
    /\ Answer(c, "executed", request[c].response)
    /\ UNCHANGED <<executions, faults>>

\* complete fails: the reply becomes a 500, which passes the hook in its turn.
CompleteFails(c) ==
    /\ At(c, "complete")
    /\ failures < MaxFailures
    /\ failures' = failures + 1
    /\ request' = [request EXCEPT ![c].response.result = "error"]
    /\ UNCHANGED <<record, executions, crashes, lostAcks>>

\* complete commits, but the hook does not learn of it: the reply becomes a 500,
\* which passes the hook in its turn, and complete looks at no status.
CompleteUnseen(c) ==
    /\ At(c, "complete")
    /\ lostAcks < MaxLostAcks
    /\ lostAcks' = lostAcks + 1
    /\ record' = [record EXCEPT ![request[c].key] = Completed(c)]
    /\ request' = [request EXCEPT ![c].response.result = "error"]
    /\ UNCHANGED <<executions, crashes, failures>>

\* The server dies; the client's connection drops.
Crash(c) ==
    /\ request[c].pc \in {"lookup", "insert", "handle", "complete"}
    /\ crashes < MaxCrashes
    /\ crashes' = crashes + 1
    /\ Answer(c, "dropped", Null)
    /\ UNCHANGED <<record, executions, failures, lostAcks>>

\* A client without a final answer sends the same request again.
Retry(c) ==
    /\ At(c, "answered")
    /\ request[c].via \in {"in_progress", "lost_race", "dropped"}
    /\ request' = [request EXCEPT ![c].pc = "lookup", ![c].via = Null,
                                  ![c].response = Null]
    /\ UNCHANGED <<record, executions, faults>>

\* A client whose request is done with turns to another one.
Forget(c) ==
    /\ At(c, "answered")
    /\ request' = [request EXCEPT ![c] = NoRequest]
    /\ UNCHANGED <<record, executions, faults>>

Serve(c) == Lookup(c) \/ Insert(c) \/ Handle(c) \/ Complete(c)

Next ==
    \E c \in Clients :
      \/ \E k \in Keys, b \in Bodies : Send(c, k, b)
      \/ Serve(c)
      \/ CompleteFails(c)
      \/ CompleteUnseen(c)
      \/ Crash(c)
      \/ Retry(c)
      \/ Forget(c)

Spec == Init /\ [][Next]_vars

\* The server carries every request on, and clients retry.
FairSpec == Spec /\ \A c \in Clients : WF_vars(Serve(c)) /\ WF_vars(Retry(c))

-----------------------------------------------------------------------------
ResponseType == [run : Nat \ {0}, result : {"ok", "error"}]

TypeOK ==
    /\ record \in [Keys -> [status : {"none", "in_progress", "completed"},
                            body : Bodies \cup {Null}, response : ResponseType \cup {Null}]]
    /\ executions \in [Keys -> Nat]
    /\ request \in [Clients ->
         [pc : {"idle", "lookup", "insert", "handle", "complete", "answered"},
          key : Keys \cup {Null}, body : Bodies \cup {Null},
          response : ResponseType \cup {Null},
          via : {Null, "executed", "replay", "conflict", "in_progress", "lost_race",
                 "dropped"}]]
    /\ crashes \in 0..MaxCrashes
    /\ failures \in 0..MaxFailures
    /\ lostAcks \in 0..MaxLostAcks

\* Under one key the route handler runs at most once, whatever requests race,
\* are retried, fail or are cut off before or after it (begin, complete).
AtMostOnce == \A k \in Keys : executions[k] <= 1

\* Every request that is answered with a response, by running or by replay, gets
\* that of the one run of the handler, for the very body it sent; and the stored
\* one, unless a completion was stored behind the hook's back (begin, onSend).
AnswersAgree ==
    \A c \in Clients : At(c, "answered") /\ request[c].via \in {"executed", "replay"} =>
        LET r == record[request[c].key]
        IN  /\ r.status = "completed" /\ r.body = request[c].body
            /\ r.response.run = request[c].response.run
            /\ lostAcks = 0 => r.response = request[c].response

\* A claimed key keeps its body and a completed one never opens again; a stored
\* response is never replaced, unless its storing was reported as a failure.
StoredResponseIsFinal ==
    [][\A k \in Keys : record[k].status # "none" =>
         /\ record'[k].body = record[k].body
         /\ record[k].status = "completed" =>
              /\ record'[k].status = "completed"
              /\ lostAcks = 0 => record'[k] = record[k]]_vars

Final(c) == At(c, "answered") /\ request[c].via \in {"executed", "replay", "conflict"}

\* As long as no request is cut off, a client that goes on retrying is answered.
RetryIsAnswered ==
    [](crashes = 0) =>
      \A c \in Clients : At(c, "lookup") ~> (Final(c) \/ At(c, "idle"))
=============================================================================
