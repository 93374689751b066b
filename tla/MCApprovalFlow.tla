--------------------------- MODULE MCApprovalFlow ----------------------------
(***************************************************************************)
(* Small instances of ApprovalFlow.  Proposals, sessions and texts are     *)
(* interchangeable.                                                        *)
(***************************************************************************)
EXTENDS ApprovalFlow, TLC

Interchangeable ==
    Permutations(Proposal) \cup Permutations(Session) \cup Permutations(Content)

\* Bound: changes that would write the same text are left to other instances.
TextsDiffer ==
    \A p, q \in Proposal :
        p # q /\ None \notin {patch[p], patch[q]} => patch[p].after # patch[q].after

RaceSpec == Init /\ [][Next /\ TextsDiffer']_vars
==============================================================================
