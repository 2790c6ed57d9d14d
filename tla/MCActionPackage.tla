--------------------------- MODULE MCActionPackage ---------------------------
(* ActionPackage on one package with three versions, two writers and two     *)
(* consumers.                                                               *)
EXTENDS ActionPackage, TLC

Doc(mode, status, expires) ==
    [mode |-> mode, decisionStatus |-> status, expires |-> expires]

\* Human approvals with and without an expiry, one that misstates its decision,
\* and one issued under a rule.
MCDocs == {Doc("HUMAN_APPROVAL", "approved", Null), Doc("HUMAN_APPROVAL", "approved", 1),
           Doc("HUMAN_APPROVAL", "approved_with_modifications", 2),
           Doc("RULE_AUTHORIZED", Null, 1)}

ActorSymmetry == Permutations(Sessions) \cup Permutations(Consumers)
=============================================================================
