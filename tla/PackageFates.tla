---------------------------- MODULE PackageFates ----------------------------
(***************************************************************************)
(* What an AuthorizedActionPackage promises to those who act on it: its    *)
(* versions form one line, only the last one can be live, a live version   *)
(* meets exactly one fate, and nothing follows a version that was revoked, *)
(* has expired or was consumed.                                            *)
(***************************************************************************)
EXTENDS Sequences, Naturals

CONSTANT Packages
VARIABLE fates    \* Packages -> the fates of its versions, in order

Ends == {"REVOKED", "EXPIRED", "CONSUMED"}

Live(p) == fates[p] # <<>> /\ fates[p][Len(fates[p])] = "LIVE"

\* The versions of p once the live one has met fate f.
Ended(p, f) == [fates[p] EXCEPT ![Len(fates[p])] = f]

Init == fates = [p \in Packages |-> <<>>]

Issue(p) ==
    /\ fates[p] = <<>>
    /\ fates' = [fates EXCEPT ![p] = <<"LIVE">>]

Supersede(p) ==
    /\ Live(p)
    /\ fates' = [fates EXCEPT ![p] = Append(Ended(p, "SUPERSEDED"), "LIVE")]

End(p, f) ==
    /\ Live(p)
    /\ fates' = [fates EXCEPT ![p] = Ended(p, f)]

Next == \E p \in Packages : Issue(p) \/ Supersede(p) \/ \E f \in Ends : End(p, f)

Spec == Init /\ [][Next]_fates
=============================================================================
