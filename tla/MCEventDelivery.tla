-------------------------- MODULE MCEventDelivery --------------------------
(* EventDelivery with two rows under one key: an event enqueued twice, with  *)
(* the same payload or an amended one, or two events that claim the same key. *)
EXTENDS EventDelivery

MCKeyOf == [e \in Events |-> "k"]
MCIdentityOf == [c \in Contents |-> IF c = "amended sale" THEN "sale" ELSE c]
=============================================================================
