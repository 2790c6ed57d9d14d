-------------------------- MODULE MCBusinessIntake --------------------------
(* BusinessIntake on small instances.                                       *)
EXTENDS BusinessIntake

B(valid, invalid, quality, change, mappable) ==
    [valid |-> valid, invalid |-> invalid, quality |-> quality,
     change |-> change, mappable |-> mappable]

\* A clean issue of goods that empties the stock, a receipt of goods that an
\* invalid record sends to quarantine, and records no command is made of.
MCBatches == {B(1, 0, "good", -1, TRUE), B(1, 1, "good", 1, TRUE), B(1, 0, "good", 1, FALSE)}
=============================================================================
