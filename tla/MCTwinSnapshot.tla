--------------------------- MODULE MCTwinSnapshot ---------------------------
(* TwinSnapshot with three snapshots taken one after the other.             *)
EXTENDS TwinSnapshot

MCSnapshots   == {1, 2, 3}
MCEffectiveAt == [s \in MCSnapshots |-> s]
=============================================================================
