------------------------------ MODULE EventLog ------------------------------
(***************************************************************************)
(* What the canonical eventing promises to those who read it: an event is  *)
(* either still open, published or buried, both for good; an event is      *)
(* published only once the log holds an entry of the same identity under   *)
(* its key; and an entry of the log is never replaced.  What else the      *)
(* entry says is what was recorded first: two events of one identity share *)
(* the entry, whichever of their contents it has.                          *)
(***************************************************************************)
CONSTANTS
    Events,    \* events, each under an idempotency key
    KeyOf,     \* Events -> keys
    Contents,  \* what an event can tell of
    IdentityOf,\* Contents -> what makes two events the same one
    Null       \* no entry

VARIABLES
    log,       \* keys -> the content recorded under the key
    fate       \* Events -> the content of the event and its status

Keys == {KeyOf[e] : e \in Events}

Init ==
    /\ log = [k \in Keys |-> Null]
    /\ fate = [e \in Events |-> [content |-> Null, status |-> "none"]]

Raise(e, content) ==
    /\ fate[e].status = "none"
    /\ fate' = [fate EXCEPT ![e] = [content |-> content, status |-> "open"]]
    /\ UNCHANGED log

Record(e) ==
    /\ fate[e].status \in {"open", "buried"}
    /\ log[KeyOf[e]] = Null
    /\ log' = [log EXCEPT ![KeyOf[e]] = fate[e].content]
    /\ UNCHANGED fate

Publish(e) ==
    /\ fate[e].status = "open"
    /\ log[KeyOf[e]] # Null
    /\ IdentityOf[log[KeyOf[e]]] = IdentityOf[fate[e].content]
    /\ fate' = [fate EXCEPT ![e].status = "published"]
    /\ UNCHANGED log

Bury(e) ==
    /\ fate[e].status = "open"
    /\ fate' = [fate EXCEPT ![e].status = "buried"]
    /\ UNCHANGED log

Next ==
    \E e \in Events :
      \/ \E content \in Contents : Raise(e, content)
      \/ Record(e)
      \/ Publish(e)
      \/ Bury(e)

Spec == Init /\ [][Next]_<<log, fate>>
=============================================================================
