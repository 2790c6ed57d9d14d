------------------------------- MODULE MCBilling -------------------------------
(* Billing on a small instance: a limited plan and an unlimited one with a trial.            *)
EXTENDS Billing

MCLimit == [p \in Plans |-> IF p = FreePlan THEN 3 ELSE Null]
=============================================================================
