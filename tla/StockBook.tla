------------------------------ MODULE StockBook ------------------------------
(***************************************************************************)
(* What data intake promises about an inventory balance: the records of a  *)
(* collection run move it all together or not at all, at most once, and it *)
(* is never negative.                                                      *)
(***************************************************************************)
EXTENDS Integers

CONSTANTS Runs, Changes, Unbooked, InitialStock

VARIABLES
    entries,  \* Runs -> what the records of the run moved, or Unbooked
    stock     \* the balance

Init ==
    /\ entries = [r \in Runs |-> Unbooked]
    /\ stock = InitialStock

Book(r, change) ==
    /\ entries[r] = Unbooked
    /\ stock + change >= 0
    /\ entries' = [entries EXCEPT ![r] = change]
    /\ stock' = stock + change

Next == \E r \in Runs, change \in Changes : Book(r, change)

Spec == Init /\ [][Next]_<<entries, stock>>
=============================================================================
