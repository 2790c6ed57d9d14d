---------------------------- MODULE TwinCatalog ----------------------------
(***************************************************************************)
(* What the rest of the platform sees of the twin snapshots of a business: *)
(* the standing of each one, as assessFreshness reads it from the status   *)
(* of its row.  A draft or validated snapshot is unpublished.  What is     *)
(* published stays so; a superseded snapshot, which has not been published,*)
(* may still be validated again or published.  TwinSnapshot implements     *)
(* these steps, and ApprovalWorkflow runs on them.                         *)
(***************************************************************************)
CONSTANT Snapshots
VARIABLE standing

Standings == {"unpublished", "published", "superseded"}

Init == standing = [s \in Snapshots |-> "unpublished"]

Publish(s) ==
    /\ standing[s] # "published"
    /\ standing' = [standing EXCEPT ![s] = "published"]

Supersede(s) ==
    /\ standing[s] = "unpublished"
    /\ standing' = [standing EXCEPT ![s] = "superseded"]

Revalidate(s) ==
    /\ standing[s] = "superseded"
    /\ standing' = [standing EXCEPT ![s] = "unpublished"]

Change(s) == Publish(s) \/ Supersede(s) \/ Revalidate(s)

Next == \E s \in Snapshots : Change(s)

Spec == Init /\ [][Next]_standing
=============================================================================
