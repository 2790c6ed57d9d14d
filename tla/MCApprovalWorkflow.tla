------------------------- MODULE MCApprovalWorkflow -------------------------
(* ApprovalWorkflow on small instances.                                     *)
EXTENDS ApprovalWorkflow

MCOwnerCode == "owner"
MCCodes     == {"owner", "grant"}
MCOneCode   == {"owner"}

F(risk, ts, until, twin) ==
    [risk |-> risk, timeSensitive |-> ts, validUntil |-> until, twin |-> twin]

\* One recommendation that may be approved, one with nothing known, and ones
\* that one gate rule each must stop.
RiskFacts  == {F("medium", "no", Null, Null), F(Null, "no", Null, Null)}
GateFacts  == {F("low", "yes", 1, 1), F("low", "yes", Null, Null),
               F("low", "unknown", Null, Null), F("low", "no", Null, 1)}
ClockFacts == {F("low", "yes", 1, Null)}
=============================================================================
